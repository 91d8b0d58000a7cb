------------------------------- MODULE JsonProofs -------------------------------
(***************************************************************************)
(* Proofs about the jsoncpp copy: the conversions of JsonTool, for every   *)
(* width of an int, every precision and every length of a text;            *)
(* BatchAllocator, for every size of a block and of a page and every       *)
(* sequence of calls; and JsonWriter, for every margin, every value and    *)
(* every sequence of writes.                                               *)
(*                                                                         *)
(* What a recursive function is must be proved before it can be used: each *)
(* has a lemma "...Unfolds".  Induction is over sets of numbers, which a   *)
(* lemma can take as a parameter, where it can not take a property.        *)
(***************************************************************************)
EXTENDS BatchAllocator, JsonTool, JsonWriter, SequenceTheorems, FiniteSetTheorems,
        NaturalsInduction, WellFoundedInduction, TLAPS

-----------------------------------------------------------------------------
(* Induction, and functions defined by recursion. *)

\* Induction, for a set of numbers in place of a property of numbers.
LEMMA StrongInduction ==
  ASSUME NEW T, \A n \in Nat : (\A m \in Nat : m < n => m \in T) => n \in T
  PROVE  Nat \subseteq T
<1> DEFINE B == Nat \ T
           R == OpToRel(<, Nat)
<1>1. IsWellFoundedOn(R, Nat)
  BY NatLessThanWellFounded
<1>2. \A x, y \in Nat : x < y => <<x, y>> \in R
  BY DEF OpToRel
<1> HIDE DEF R
<1>3. SUFFICES ASSUME B # {} PROVE FALSE
  OBVIOUS
<1>4. PICK x \in B : \A y \in B : ~(<<y, x>> \in R)
  BY <1>1, <1>3, WFMin
<1>5. \A m \in Nat : m < x => m \in T
  BY <1>2, <1>4
<1>6. QED
  BY <1>4, <1>5

\* The same from each number to the next.
LEMMA SimpleInduction ==
  ASSUME NEW T, 0 \in T, \A n \in Nat : n \in T => n + 1 \in T
  PROVE  Nat \subseteq T
<1>1. ASSUME NEW n \in Nat, \A m \in Nat : m < n => m \in T
      PROVE  n \in T
  <2>1. CASE n = 0
    BY <2>1
  <2>2. CASE n # 0
    <3>1. n - 1 \in Nat /\ n - 1 < n /\ (n - 1) + 1 = n
      BY <2>2
    <3>2. QED
      BY <1>1, <3>1
  <2>3. QED
    BY <2>1, <2>2
<1>2. QED
  BY <1>1, StrongInduction

\* f takes its value at n from its value at before[n], a smaller number.
Descends(before, first) == \A n \in Nat \ first : before[n] < n

Recurs(f, V, first, base, before, step) ==
  /\ f \in [Nat -> V]
  /\ \A n \in Nat : f[n] = IF n \in first THEN base[n]
                           ELSE step[n][f[before[n]]]

\* The function that a recursion over numbers describes exists.
LEMMA RecursionExists ==
  ASSUME NEW V, NEW first, NEW base, NEW before, NEW step,
         first \in SUBSET Nat, base \in [Nat -> V],
         before \in [Nat -> Nat], Descends(before, first),
         step \in [Nat -> [V -> V]]
  PROVE  \E f : Recurs(f, V, first, base, before, step)
<1> USE DEF Descends
<1> DEFINE Good(n, g) ==
             /\ g \in [0 .. n -> V]
             /\ \A k \in 0 .. n : g[k] = IF k \in first THEN base[k]
                                         ELSE step[k][g[before[k]]]
           T == {n \in Nat : \E g : Good(n, g)}
<1>1. Nat \subseteq T
  <2>1. ASSUME NEW n \in Nat, \A m \in Nat : m < n => m \in T
        PROVE  n \in T
    <3>1. PICK h :
            /\ h \in [0 .. n - 1 -> V]
            /\ \A k \in 0 .. n - 1 : h[k] = IF k \in first THEN base[k]
                                            ELSE step[k][h[before[k]]]
      <4>1. CASE n = 0
        <5>1. [k \in {} |-> k] \in [0 .. n - 1 -> V]
          BY <4>1
        <5>2. 0 .. n - 1 = {}
          BY <4>1
        <5>3. QED
          BY <5>1, <5>2
      <4>2. CASE n # 0
        <5>1. n - 1 \in Nat /\ n - 1 < n
          BY <4>2
        <5>2. PICK h : Good(n - 1, h)
          BY <2>1, <5>1
        <5>3. QED
          BY <5>2
      <4>3. QED
        BY <4>1, <4>2
    <3> DEFINE last == IF n \in first THEN base[n] ELSE step[n][h[before[n]]]
               g == [k \in 0 .. n |-> IF k = n THEN last ELSE h[k]]
    <3>2. \A k \in 0 .. n : k \notin first => before[k] \in 0 .. k - 1
      OBVIOUS
    <3>3. n \in 0 .. n /\ last \in V
      BY <3>1, <3>2
    <3> HIDE DEF last
    <3>4. g \in [0 .. n -> V]
      BY <3>1, <3>3
    <3>5. ASSUME NEW k \in 0 .. n
          PROVE  g[k] = IF k \in first THEN base[k] ELSE step[k][g[before[k]]]
      <4>1. \A j \in 0 .. k - 1 : j \in 0 .. n /\ j # n
        OBVIOUS
      <4>2. k \notin first => g[before[k]] = h[before[k]]
        BY <3>2, <4>1
      <4>3. CASE k = n
        BY <3>3, <4>2, <4>3 DEF last
      <4>4. CASE k # n
        <5>1. k \in 0 .. n - 1 /\ g[k] = h[k]
          BY <4>4
        <5>2. QED
          BY <3>1, <4>2, <5>1
      <4>5. QED
        BY <4>3, <4>4
    <3>6. Good(n, g)
      BY <3>4, <3>5
    <3>7. QED
      BY <3>6
  <2> HIDE DEF T
  <2>2. QED
    BY <2>1, StrongInduction
<1> DEFINE g == [n \in Nat |-> CHOOSE h : Good(n, h)]
<1>2. \A n \in Nat : Good(n, g[n])
  BY <1>1
<1> HIDE DEF g
<1> DEFINE S == {k \in Nat : \A n, m \in Nat : k <= n /\ k <= m => g[n][k] = g[m][k]}
<1>3. Nat \subseteq S
  <2>1. ASSUME NEW k \in Nat, \A j \in Nat : j < k => j \in S
        PROVE  k \in S
    <3>1. SUFFICES ASSUME NEW n \in Nat, NEW m \in Nat, k <= n, k <= m
                   PROVE  g[n][k] = g[m][k]
      OBVIOUS
    <3>2. k \in 0 .. n /\ k \in 0 .. m
      BY <3>1
    <3>3. /\ g[n][k] = IF k \in first THEN base[k] ELSE step[k][g[n][before[k]]]
          /\ g[m][k] = IF k \in first THEN base[k] ELSE step[k][g[m][before[k]]]
      BY <1>2, <3>2
    <3>4. k \notin first => g[n][before[k]] = g[m][before[k]]
      BY <2>1, <3>1
    <3>5. QED
      BY <3>3, <3>4
  <2> HIDE DEF S
  <2>2. QED
    BY <2>1, StrongInduction
<1> DEFINE f == [n \in Nat |-> g[n][n]]
<1>4. ASSUME NEW n \in Nat
      PROVE  /\ f[n] \in V
             /\ f[n] = IF n \in first THEN base[n] ELSE step[n][f[before[n]]]
  <2>1. n \in 0 .. n
    OBVIOUS
  <2>2. /\ g[n][n] \in V
        /\ g[n][n] = IF n \in first THEN base[n] ELSE step[n][g[n][before[n]]]
    BY <1>2, <2>1
  <2>3. n \notin first => g[n][before[n]] = g[before[n]][before[n]]
    <3>1. SUFFICES ASSUME n \notin first PROVE g[n][before[n]] = g[before[n]][before[n]]
      OBVIOUS
    <3>2. before[n] \in Nat /\ before[n] <= n /\ before[n] <= before[n]
      BY <3>1
    <3>3. before[n] \in S
      BY <1>3, <3>2
    <3>4. QED
      BY <3>2, <3>3
  <2>4. QED
    BY <2>2, <2>3
<1>5. f \in [Nat -> V]
  BY <1>4
<1>6. Recurs(f, V, first, base, before, step)
  BY <1>4, <1>5 DEF Recurs
<1>7. QED
  BY <1>6

\* What the recursions over the first k of N things have in common.
Folds(f, V, a, N, step) ==
  /\ f \in [0 .. N -> V]
  /\ f[0] = a
  /\ \A k \in 1 .. N : f[k] = step[k][f[k - 1]]

\* A function that is told from its value at the number before exists, and
\* is the one CHOOSE names.
LEMMA PrefixRecursion ==
  ASSUME NEW V, NEW a, NEW N, NEW step,
         a \in V, N \in Nat, step \in [1 .. N -> [V -> V]]
  PROVE  \E f : Folds(f, V, a, N, step)
<1> DEFINE first == {0}
           base == [n \in Nat |-> a]
           before == [n \in Nat |-> IF n = 0 THEN 0 ELSE n - 1]
           go == [n \in Nat |-> [v \in V |-> IF n \in 1 .. N THEN step[n][v] ELSE a]]
<1>1. /\ first \in SUBSET Nat /\ base \in [Nat -> V]
      /\ before \in [Nat -> Nat] /\ Descends(before, first)
  BY DEF Descends
<1>2. go \in [Nat -> [V -> V]]
  OBVIOUS
<1>3. \E f : Recurs(f, V, first, base, before, go)
  <2> HIDE DEF first, base, before, go
  <2>1. QED
    BY <1>1, <1>2, RecursionExists
<1>4. PICK f :
        /\ f \in [Nat -> V]
        /\ \A n \in Nat : f[n] = IF n \in first THEN base[n] ELSE go[n][f[before[n]]]
  BY <1>3 DEF Recurs
<1>0. \A n \in Nat : f[n] \in V
  BY <1>4
<1> DEFINE g == [k \in 0 .. N |-> f[k]]
<1>5. g \in [0 .. N -> V] /\ g[0] = a
  <2>1. \A k \in 0 .. N : k \in Nat
    OBVIOUS
  <2>2. g \in [0 .. N -> V]
    BY <1>0, <2>1
  <2>3. 0 \in 0 .. N /\ 0 \in first /\ base[0] = a
    OBVIOUS
  <2>4. f[0] = a
    BY <1>4, <2>3
  <2>5. QED
    BY <2>2, <2>3, <2>4
<1>6. ASSUME NEW k \in 1 .. N
      PROVE  g[k] = step[k][g[k - 1]]
  <2>1. k \in Nat /\ k # 0 /\ k - 1 \in 0 .. N /\ k \in 0 .. N
    OBVIOUS
  <2>2. before[k] = k - 1 /\ f[k] = go[k][f[k - 1]]
    BY <1>4, <2>1
  <2>3. k - 1 \in Nat /\ f[k - 1] \in V
    BY <1>0
  <2>4. go[k][f[k - 1]] = step[k][f[k - 1]]
    BY <2>1, <2>3
  <2>5. QED
    BY <2>1, <2>2, <2>4
<1>7. Folds(g, V, a, N, step)
  BY <1>5, <1>6 DEF Folds
<1>8. QED
  BY <1>7

-----------------------------------------------------------------------------
(* Integers. *)

\* DecimalOf is the function its recursion describes.
LEMMA DecimalUnfolds ==
  ASSUME NEW digits \in Seq(Nat)
  PROVE  /\ DecimalOf(digits) \in [0 .. Len(digits) -> Nat]
         /\ DecimalOf(digits)[0] = 0
         /\ \A k \in 1 .. Len(digits) :
              DecimalOf(digits)[k] = 10 * DecimalOf(digits)[k - 1] + digits[k]
<1> DEFINE N == Len(digits)
           step == [k \in 1 .. N |-> [v \in Nat |-> 10 * v + digits[k]]]
           h == DecimalOf(digits)
<1>1. N \in Nat /\ \A k \in 1 .. N : digits[k] \in Nat
  OBVIOUS
<1> HIDE DEF N
<1>2. step \in [1 .. N -> [Nat -> Nat]]
  BY <1>1
<1>3. \E f : Folds(f, Nat, 0, N, step)
  <2> HIDE DEF step
  <2>1. QED
    BY <1>1, <1>2, PrefixRecursion
<1>4. PICK f \in [0 .. N -> Nat] :
        f[0] = 0 /\ \A k \in 1 .. N : f[k] = 10 * f[k - 1] + digits[k]
  <2>1. PICK f : Folds(f, Nat, 0, N, step)
    BY <1>3
  <2>2. f \in [0 .. N -> Nat] /\ f[0] = 0
    BY <2>1 DEF Folds
  <2>3. ASSUME NEW k \in 1 .. N
        PROVE  f[k] = 10 * f[k - 1] + digits[k]
    <3>1. k - 1 \in 0 .. N
      BY <1>1
    <3>2. f[k - 1] \in Nat
      BY <2>2, <3>1
    <3>3. f[k] = step[k][f[k - 1]]
      BY <2>1 DEF Folds
    <3>4. QED
      BY <3>2, <3>3
  <2>4. QED
    BY <2>2, <2>3
<1>5. f = [k \in 0 .. N |-> IF k = 0 THEN 0 ELSE 10 * f[k - 1] + digits[k]]
  BY <1>1, <1>4
<1>6. h = [k \in 0 .. N |-> IF k = 0 THEN 0 ELSE 10 * h[k - 1] + digits[k]]
  BY <1>5 DEF DecimalOf, N
<1> HIDE DEF h
<1> DEFINE T == {k \in Nat : k <= N => h[k] \in Nat}
<1>7. Nat \subseteq T
  <2>1. 0 \in T
    BY <1>1, <1>6
  <2>2. ASSUME NEW k \in Nat, k \in T
        PROVE  k + 1 \in T
    <3>1. SUFFICES ASSUME k + 1 <= N PROVE h[k + 1] \in Nat
      OBVIOUS
    <3>2. k \in 0 .. N /\ k + 1 \in 1 .. N /\ (k + 1) - 1 = k
      BY <1>1, <3>1
    <3>3. h[k + 1] = 10 * h[k] + digits[k + 1]
      BY <1>6, <3>2
    <3>4. h[k] \in Nat /\ digits[k + 1] \in Nat
      BY <1>1, <2>2, <3>2
    <3> HIDE DEF T, N
    <3>5. QED
      BY <3>3, <3>4
  <2> HIDE DEF T
  <2>3. QED
    BY <2>1, <2>2, SimpleInduction
<1>8. \A k \in 0 .. N : h[k] \in Nat
  BY <1>1, <1>7
<1>9. /\ h \in [0 .. N -> Nat]
      /\ h[0] = 0
      /\ \A k \in 1 .. N : h[k] = 10 * h[k - 1] + digits[k]
  BY <1>1, <1>6, <1>8
<1>10. QED
  BY <1>9 DEF h, N

\* PowerOf256 is the function its recursion describes.
LEMMA PowerUnfolds ==
  /\ PowerOf256 \in [Nat -> Nat]
  /\ PowerOf256[0] = 1
  /\ \A n \in Nat : PowerOf256[n + 1] = 256 * PowerOf256[n]
<1> DEFINE first == {0}
           base == [n \in Nat |-> 1]
           before == [n \in Nat |-> IF n = 0 THEN 0 ELSE n - 1]
           step == [n \in Nat |-> [v \in Nat |-> 256 * v]]
<1>1. /\ first \in SUBSET Nat /\ base \in [Nat -> Nat]
      /\ before \in [Nat -> Nat] /\ Descends(before, first)
  BY DEF Descends
<1>2. step \in [Nat -> [Nat -> Nat]]
  OBVIOUS
<1>3. \E f : Recurs(f, Nat, first, base, before, step)
  <2> HIDE DEF first, base, before, step
  <2>1. QED
    BY <1>1, <1>2, RecursionExists
<1>4. PICK f :
        /\ f \in [Nat -> Nat]
        /\ \A n \in Nat : f[n] = IF n \in first THEN base[n] ELSE step[n][f[before[n]]]
  BY <1>3 DEF Recurs
<1>5. \A n \in Nat : f[n] = IF n = 0 THEN 1 ELSE 256 * f[n - 1]
  <2>1. ASSUME NEW n \in Nat, n # 0
        PROVE  f[n] = 256 * f[n - 1]
    <3>1. n - 1 \in Nat /\ n \notin first /\ before[n] = n - 1
      BY <2>1
    <3>2. f[n] = step[n][f[n - 1]] /\ f[n - 1] \in Nat
      BY <1>4, <3>1
    <3>3. QED
      BY <3>2
  <2>2. f[0] = 1
    BY <1>4
  <2>3. QED
    BY <2>1, <2>2
<1>6. f = [n \in Nat |-> IF n = 0 THEN 1 ELSE 256 * f[n - 1]]
  BY <1>4, <1>5
<1>7. PowerOf256 = [n \in Nat |-> IF n = 0 THEN 1 ELSE 256 * PowerOf256[n - 1]]
  BY <1>6 DEF PowerOf256
<1> HIDE DEF step, before, base, first
<1> DEFINE P == PowerOf256
<1>8. P = [n \in Nat |-> IF n = 0 THEN 1 ELSE 256 * P[n - 1]]
  BY <1>7
<1> HIDE DEF P
<1>9. P[0] = 1 /\ \A n \in Nat : P[n + 1] = 256 * P[n]
  <2>1. \A n \in Nat : n + 1 \in Nat /\ n + 1 # 0 /\ (n + 1) - 1 = n
    OBVIOUS
  <2>2. QED
    BY <1>8, <2>1
<1> DEFINE T == {n \in Nat : P[n] \in Nat}
<1>10. Nat \subseteq T
  <2>1. 0 \in T
    BY <1>9
  <2>2. ASSUME NEW n \in Nat, n \in T
        PROVE  n + 1 \in T
    BY <1>9, <2>2
  <2> HIDE DEF T
  <2>3. QED
    BY <2>1, <2>2, SimpleInduction
<1>11. P \in [Nat -> Nat]
  BY <1>8, <1>10
<1>12. QED
  BY <1>9, <1>11 DEF P

\* The moduli of two and more bytes are even, and more than 65535.
LEMMA ModulusFacts ==
  /\ Modulus \in Nat
  /\ Modulus >= 65536
  /\ Modulus \div 2 + Modulus \div 2 = Modulus
<1> DEFINE T == {n \in Nat : n >= 2 => PowerOf256[n] >= 65536}
<1>0. PowerOf256[1] = 256 /\ PowerOf256[2] = 65536
  <2>1. PowerOf256[0 + 1] = 256 * PowerOf256[0] /\ PowerOf256[1 + 1] = 256 * PowerOf256[1]
    BY PowerUnfolds
  <2>2. QED
    BY <2>1, PowerUnfolds
<1>1. Nat \subseteq T
  <2>1. 0 \in T
    OBVIOUS
  <2>2. ASSUME NEW n \in Nat, n \in T
        PROVE  n + 1 \in T
    <3>1. PowerOf256[n] \in Nat /\ PowerOf256[n + 1] = 256 * PowerOf256[n]
      BY PowerUnfolds
    <3>2. CASE n + 1 < 3
      <4>1. n = 0 \/ n = 1
        BY <3>2
      <4>2. QED
        BY <1>0, <4>1
    <3>3. CASE n + 1 >= 3
      BY <2>2, <3>1, <3>3
    <3>4. QED
      BY <3>2, <3>3
  <2> HIDE DEF T
  <2>3. QED
    BY <2>1, <2>2, SimpleInduction
<1>2. Modulus \in Nat /\ Modulus >= 65536
  BY <1>1, PowerUnfolds, ToolAssumption DEF Modulus
<1>3. \E h \in Nat : Modulus = 256 * h
  <2>1. Bytes - 1 \in Nat /\ (Bytes - 1) + 1 = Bytes
    BY ToolAssumption
  <2>2. PowerOf256[Bytes] = 256 * PowerOf256[Bytes - 1] /\ PowerOf256[Bytes - 1] \in Nat
    BY <2>1, PowerUnfolds
  <2>3. QED
    BY <2>2 DEF Modulus
<1>4. QED
  BY <1>2, <1>3

\* uintToString is the function its recursion describes.
LEMMA UintToStringUnfolds ==
  /\ uintToString \in [LargestUInt -> Seq(Nat)]
  /\ \A v \in LargestUInt :
       /\ v \div 10 \in LargestUInt
       /\ v < 10 => uintToString[v] = <<v>>
       /\ v >= 10 => uintToString[v] = Append(uintToString[v \div 10], v % 10)
<1> DEFINE V == Seq(Nat)
           first == 0 .. 9
           base == [n \in Nat |-> <<n>>]
           before == [n \in Nat |-> n \div 10]
           step == [n \in Nat |-> [s \in V |-> Append(s, n % 10)]]
<1>1. first \in SUBSET Nat /\ base \in [Nat -> V]
  OBVIOUS
<1>2. before \in [Nat -> Nat] /\ Descends(before, first)
  BY DEF Descends
<1>3. step \in [Nat -> [V -> V]]
  OBVIOUS
<1>4. \E f : Recurs(f, V, first, base, before, step)
  <2> HIDE DEF V, first, base, before, step
  <2>1. QED
    BY <1>1, <1>2, <1>3, RecursionExists
<1>5. PICK f :
        /\ f \in [Nat -> V]
        /\ \A n \in Nat : f[n] = IF n \in first THEN base[n] ELSE step[n][f[before[n]]]
  BY <1>4 DEF Recurs
<1>6. ASSUME NEW n \in Nat
      PROVE  f[n] = IF n < 10 THEN <<n>> ELSE Append(f[n \div 10], n % 10)
  <2>1. n \div 10 \in Nat /\ before[n] = n \div 10 /\ (n \in first <=> n < 10)
    OBVIOUS
  <2>2. f[n \div 10] \in V
    BY <1>5, <2>1
  <2>3. step[n][f[n \div 10]] = Append(f[n \div 10], n % 10)
    BY <2>2
  <2>4. base[n] = <<n>>
    OBVIOUS
  <2> HIDE DEF V, first, base, before, step
  <2>5. QED
    BY <1>5, <2>1, <2>3, <2>4
<1> HIDE DEF first, base, before, step
<1>7. \A v \in LargestUInt : v \in Nat /\ v \div 10 \in LargestUInt
  BY ModulusFacts DEF LargestUInt
<1> DEFINE g == [v \in LargestUInt |-> f[v]]
<1>8. g = [v \in LargestUInt |-> IF v < 10 THEN <<v>> ELSE Append(g[v \div 10], v % 10)]
  <2>1. ASSUME NEW v \in LargestUInt
        PROVE  g[v] = IF v < 10 THEN <<v>> ELSE Append(g[v \div 10], v % 10)
    <3>1. g[v] = f[v] /\ g[v \div 10] = f[v \div 10]
      BY <1>7
    <3>2. QED
      BY <1>6, <1>7, <3>1
  <2>2. QED
    BY <2>1
<1> DEFINE u == uintToString
<1>9. u = [v \in LargestUInt |-> IF v < 10 THEN <<v>> ELSE Append(u[v \div 10], v % 10)]
  BY <1>8 DEF uintToString
<1> HIDE DEF u
<1>10. ASSUME NEW v \in LargestUInt
       PROVE  /\ v < 10 => u[v] = <<v>>
              /\ v >= 10 => u[v] = Append(u[v \div 10], v % 10)
  <2>1. u[v] = IF v < 10 THEN <<v>> ELSE Append(u[v \div 10], v % 10)
    BY <1>9
  <2>2. v \in Int
    BY <1>7
  <2>3. QED
    BY <2>1, <2>2
<1> DEFINE T == {n \in Nat : n \in LargestUInt => u[n] \in V}
<1>11. Nat \subseteq T
  <2>1. ASSUME NEW n \in Nat, \A m \in Nat : m < n => m \in T
        PROVE  n \in T
    <3>1. SUFFICES ASSUME n \in LargestUInt PROVE u[n] \in V
      OBVIOUS
    <3>2. CASE n < 10
      <4>1. u[n] = <<n>>
        BY <1>10, <3>1, <3>2
      <4>2. QED
        BY <4>1
    <3>3. CASE n >= 10
      <4>1. n \div 10 \in Nat /\ n \div 10 < n /\ n % 10 \in Nat
        BY <3>3
      <4>2. u[n \div 10] \in V
        BY <1>7, <2>1, <3>1, <4>1
      <4>3. u[n] = Append(u[n \div 10], n % 10)
        <5> HIDE DEF T, V
        <5>1. QED
          BY <1>10, <3>1, <3>3
      <4>4. QED
        BY <4>1, <4>2, <4>3
    <3>4. QED
      BY <3>2, <3>3
  <2> HIDE DEF T
  <2>2. QED
    BY <2>1, StrongInduction
<1>12. u \in [LargestUInt -> V]
  <2>1. \A v \in LargestUInt : u[v] \in V
    BY <1>7, <1>11
  <2> HIDE DEF V
  <2>2. QED
    BY <1>9, <2>1
<1>13. QED
  BY <1>7, <1>10, <1>12 DEF u

\* A digit at the end is worth itself, and the digits before it ten times what
\* they were worth.
LEMMA DecimalOfAppend ==
  ASSUME NEW s \in Seq(Nat), NEW d \in Nat
  PROVE  DecimalOf(Append(s, d))[Len(Append(s, d))] = 10 * DecimalOf(s)[Len(s)] + d
<1> DEFINE N == Len(s)
           t == Append(s, d)
           a == DecimalOf(s)
           b == DecimalOf(t)
<1>1. /\ N \in Nat /\ t \in Seq(Nat) /\ Len(t) = N + 1
      /\ t[N + 1] = d /\ \A k \in 1 .. N : t[k] = s[k]
  OBVIOUS
<1> HIDE DEF t
<1>2. /\ a[0] = 0
      /\ \A k \in 1 .. N : a[k] = 10 * a[k - 1] + s[k]
  BY DecimalUnfolds
<1>3. /\ b[0] = 0
      /\ \A k \in 1 .. Len(t) : b[k] = 10 * b[k - 1] + t[k]
  BY <1>1, DecimalUnfolds
<1> HIDE DEF a, b, N
<1> DEFINE T == {k \in Nat : k <= N => b[k] = a[k]}
<1>4. Nat \subseteq T
  <2>1. 0 \in T
    BY <1>2, <1>3
  <2>2. ASSUME NEW k \in Nat, k \in T
        PROVE  k + 1 \in T
    <3>1. SUFFICES ASSUME k + 1 <= N PROVE b[k + 1] = a[k + 1]
      OBVIOUS
    <3>2. k + 1 \in 1 .. N /\ k + 1 \in 1 .. Len(t) /\ (k + 1) - 1 = k
      BY <1>1, <3>1
    <3>3. QED
      BY <1>1, <1>2, <1>3, <2>2, <3>1, <3>2
  <2> HIDE DEF T
  <2>3. QED
    BY <2>1, <2>2, SimpleInduction
<1>5. b[N] = a[N]
  BY <1>1, <1>4
<1>6. N + 1 \in 1 .. Len(t) /\ (N + 1) - 1 = N
  BY <1>1
<1>7. b[N + 1] = 10 * a[N] + d
  BY <1>1, <1>3, <1>5, <1>6
<1>8. b[Len(t)] = 10 * a[N] + d
  BY <1>1, <1>7
<1>9. QED
  BY <1>8 DEF a, b, t, N

\* The digits of a number are worth the number.
LEMMA UintReadsBack ==
  ASSUME NEW v \in LargestUInt
  PROVE  DecimalOf(uintToString[v])[Len(uintToString[v])] = v
<1> DEFINE u == uintToString
           T == {n \in Nat : n \in LargestUInt => DecimalOf(u[n])[Len(u[n])] = n}
<1>1. ASSUME NEW n \in Nat, \A m \in Nat : m < n => m \in T
      PROVE  n \in T
  <2>1. SUFFICES ASSUME n \in LargestUInt PROVE DecimalOf(u[n])[Len(u[n])] = n
    OBVIOUS
  <2>2. CASE n < 10
    <3>1. u[n] = <<n>>
      BY <2>1, <2>2, UintToStringUnfolds
    <3>2. <<n>> \in Seq(Nat) /\ Len(<<n>>) = 1 /\ <<n>>[1] = n /\ 1 \in 1 .. 1 /\ 1 - 1 = 0
      OBVIOUS
    <3>3. /\ DecimalOf(<<n>>)[0] = 0
          /\ DecimalOf(<<n>>)[1] = 10 * DecimalOf(<<n>>)[1 - 1] + <<n>>[1]
      BY <3>2, DecimalUnfolds
    <3>4. DecimalOf(<<n>>)[1] = n
      BY <3>2, <3>3
    <3>5. QED
      BY <3>1, <3>2, <3>4
  <2>3. CASE n >= 10
    <3> DEFINE q == n \div 10
               d == n % 10
    <3>1. q \in Nat /\ q < n /\ d \in Nat /\ 10 * q + d = n
      BY <2>3
    <3>0. q \in LargestUInt /\ u[n] = Append(u[q], d)
      BY <2>1, <2>3, UintToStringUnfolds
    <3> HIDE DEF q, d
    <3>2. q \in LargestUInt /\ u[n] = Append(u[q], d) /\ u[q] \in Seq(Nat)
      BY <3>0, UintToStringUnfolds
    <3>3. DecimalOf(u[q])[Len(u[q])] = q
      BY <1>1, <3>1, <3>2
    <3>4. QED
      BY <3>1, <3>2, <3>3, DecimalOfAppend
  <2>4. QED
    BY <2>2, <2>3
<1>2. Nat \subseteq T
  <2> HIDE DEF T
  <2>1. QED
    BY <1>1, StrongInduction
<1>3. v \in Nat
  BY ModulusFacts DEF LargestUInt
<1>4. QED
  BY <1>2, <1>3

\* A number of b bytes has less than three digits for each byte.
LEMMA UintLength ==
  ASSUME NEW v \in LargestUInt
  PROVE  /\ Len(uintToString[v]) \in Nat
         /\ Len(uintToString[v]) <= 3 * Bytes - 1
<1> DEFINE L == [n \in LargestUInt |-> Len(uintToString[n])]
<1>1. ASSUME NEW n \in LargestUInt
      PROVE  /\ n \in Nat /\ L[n] \in Nat
             /\ n < 10 => L[n] = 1
             /\ n \div 10 \in LargestUInt
             /\ L[n] <= 1 + L[n \div 10]
  <2>1. n \in Nat
    BY ModulusFacts DEF LargestUInt
  <2>2. n \div 10 \in LargestUInt /\ uintToString[n] \in Seq(Nat)
        /\ uintToString[n \div 10] \in Seq(Nat)
    BY UintToStringUnfolds
  <2>3. L[n] \in Nat /\ L[n \div 10] \in Nat
    BY <2>2
  <2>4. n < 10 => L[n] = 1
    <3>1. SUFFICES ASSUME n < 10 PROVE L[n] = 1
      OBVIOUS
    <3>2. uintToString[n] = <<n>>
      BY <3>1, UintToStringUnfolds
    <3>3. QED
      BY <3>2
  <2>5. n >= 10 => L[n] = L[n \div 10] + 1
    <3>1. SUFFICES ASSUME n >= 10 PROVE L[n] = L[n \div 10] + 1
      OBVIOUS
    <3>2. uintToString[n] = Append(uintToString[n \div 10], n % 10)
      BY <3>1, UintToStringUnfolds
    <3>3. QED
      BY <2>2, <3>2
  <2> HIDE DEF L
  <2>6. QED
    BY <2>1, <2>2, <2>3, <2>4, <2>5
<1> HIDE DEF L
<1> DEFINE T == {b \in Nat : b >= 2 =>
                   \A n \in LargestUInt : n < PowerOf256[b] => L[n] <= 3 * b - 1}
<1>2. \A n \in LargestUInt : n < 65536 => L[n] <= 5
  <2>1. \A n \in LargestUInt : n < 66 => L[n] <= 2
    BY <1>1
  <2>2. \A n \in LargestUInt : n < 656 => L[n] <= 3
    BY <1>1, <2>1
  <2>3. \A n \in LargestUInt : n < 6554 => L[n] <= 4
    BY <1>1, <2>2
  <2>4. QED
    BY <1>1, <2>3
<1>3. Nat \subseteq T
  <2>1. 0 \in T
    OBVIOUS
  <2>2. ASSUME NEW b \in Nat, b \in T
        PROVE  b + 1 \in T
    <3>1. /\ PowerOf256[b] \in Nat
          /\ PowerOf256[b + 1] = 256 * PowerOf256[b]
          /\ PowerOf256[0 + 1] = 256 /\ PowerOf256[1 + 1] = 256 * PowerOf256[0 + 1]
      BY PowerUnfolds
    <3>2. CASE b < 2
      <4>1. b = 0 \/ b = 1
        BY <3>2
      <4>2. CASE b = 0
        BY <4>2
      <4>3. CASE b = 1
        BY <1>1, <1>2, <3>1, <4>3
      <4>4. QED
        BY <4>1, <4>2, <4>3
    <3>3. CASE b >= 2
      <4>1. SUFFICES ASSUME NEW n \in LargestUInt, n < PowerOf256[b + 1]
                     PROVE  L[n] <= 3 * b + 2
        BY <1>1
      <4> DEFINE p == n \div 10
                 q == p \div 10
                 r == q \div 10
      <4>2. /\ p \in LargestUInt /\ q \in LargestUInt /\ r \in LargestUInt
            /\ L[n] <= 1 + L[p] /\ L[p] <= 1 + L[q] /\ L[q] <= 1 + L[r]
        BY <1>1
      <4>3. r < PowerOf256[b]
        <5>1. n \in Nat /\ n < 256 * PowerOf256[b]
          BY <1>1, <3>1, <4>1
        <5>2. QED
          BY <3>1, <5>1
      <4> HIDE DEF p, q, r
      <4>4. L[r] <= 3 * b - 1
        BY <2>2, <3>3, <4>2, <4>3
      <4>5. L[n] \in Nat /\ L[p] \in Nat /\ L[q] \in Nat /\ L[r] \in Nat
        BY <1>1, <4>2
      <4>6. QED
        BY <4>2, <4>4, <4>5
    <3>4. QED
      BY <3>2, <3>3
  <2> HIDE DEF T
  <2>3. QED
    BY <2>1, <2>2, SimpleInduction
<1>4. v < PowerOf256[Bytes]
  BY ModulusFacts DEF LargestUInt, Modulus
<1>5. L[v] <= 3 * Bytes - 1 /\ L[v] \in Nat
  BY <1>1, <1>3, <1>4, ToolAssumption
<1>6. QED
  BY <1>5 DEF L

\* A number below the modulus is its own remainder.
LEMMA SmallRemainder ==
  ASSUME NEW m \in Nat, NEW x \in Nat, x < m
  PROVE  x % m = x
OBVIOUS

\* A negative int is written as its absolute value, and no outcome of the
\* negation of the smallest needs more digits.
LEMMA IntsReadBack ==
  ASSUME NEW value \in LargestInt \cup LargestUInt, NEW n \in valueToString(value)
  PROVE  /\ value # SmallestInt =>
              value = IF n.negative THEN -Decimal(n) ELSE Decimal(n)
         /\ Len(n.digits) + 1 + (IF n.negative THEN 1 ELSE 0)
              <= uintToStringBufferSize
<1>1. PICK v \in (IF value < 0 THEN Negation(value) ELSE {value}) :
             n = [negative |-> value < 0, digits |-> uintToString[v % Modulus]]
  BY DEF valueToString
<1> DEFINE w == v % Modulus
<1>2. value \in Int /\ v \in Int
  <2>1. value \in Int
    BY ModulusFacts DEF LargestInt, LargestUInt
  <2>2. v \in LargestInt \/ v = -value \/ v = value
    BY <1>1 DEF Negation
  <2>3. QED
    BY <2>1, <2>2, ModulusFacts DEF LargestInt
<1>3. w \in LargestUInt /\ w \in Nat
  BY <1>2, ModulusFacts DEF LargestUInt
<1>4. value # SmallestInt => w = IF value < 0 THEN -value ELSE value
  <2>1. SUFFICES ASSUME value # SmallestInt
                 PROVE  w = IF value < 0 THEN -value ELSE value
    OBVIOUS
  <2>2. v = IF value < 0 THEN -value ELSE value
    BY <1>1, <2>1 DEF Negation
  <2>3. v \in Nat /\ v < Modulus
    BY <1>2, <2>2, ModulusFacts DEF LargestInt, LargestUInt
  <2>4. v % Modulus = v
    BY <2>3, ModulusFacts, SmallRemainder
  <2>5. QED
    BY <2>2, <2>4
<1>5. DecimalOf(uintToString[w])[Len(uintToString[w])] = w
  BY <1>3, UintReadsBack
<1>6. Len(uintToString[w]) \in Nat /\ Len(uintToString[w]) <= 3 * Bytes - 1
  BY <1>3, UintLength
<1> HIDE DEF w
<1>7. /\ n.negative = (value < 0)
      /\ Decimal(n) = w
      /\ Len(n.digits) \in Nat
      /\ Len(n.digits) <= 3 * Bytes - 1
  <2>1. n.negative = (value < 0) /\ n.digits = uintToString[w]
    BY <1>1 DEF w
  <2>2. QED
    BY <1>5, <1>6, <2>1 DEF Decimal
<1> DEFINE sign == IF n.negative THEN 1 ELSE 0
<1>8. /\ value # SmallestInt =>
           value = IF n.negative THEN -Decimal(n) ELSE Decimal(n)
      /\ sign \in 0 .. 1
  <2>1. CASE value < 0
    <3>1. n.negative
      BY <1>7, <2>1
    <3>2. QED
      BY <1>2, <1>3, <1>4, <1>7, <2>1, <3>1
  <2>2. CASE ~(value < 0)
    <3>1. ~n.negative
      BY <1>7, <2>2
    <3>2. QED
      BY <1>2, <1>3, <1>4, <1>7, <2>2, <3>1
  <2>3. QED
    BY <2>1, <2>2
<1> HIDE DEF sign
<1>9. Len(n.digits) + 1 + sign <= uintToStringBufferSize
  BY <1>7, <1>8, ToolAssumption DEF uintToStringBufferSize
<1>10. QED
  BY <1>8, <1>9 DEF sign

-----------------------------------------------------------------------------
(* Code points. *)

\* CodePointOf is the function its recursion describes.
LEMMA CodePointUnfolds ==
  ASSUME NEW b \in Seq(Nat), Len(b) \in 1 .. 4
  PROVE  /\ CodePointOf(b)[1] = b[1] - <<0, 192, 224, 240>>[Len(b)]
         /\ Len(b) >= 2 => CodePointOf(b)[2] = 64 * CodePointOf(b)[1] + (b[2] % 64)
         /\ Len(b) >= 3 => CodePointOf(b)[3] = 64 * CodePointOf(b)[2] + (b[3] % 64)
         /\ Len(b) >= 4 => CodePointOf(b)[4] = 64 * CodePointOf(b)[3] + (b[4] % 64)
<1> DEFINE N == Len(b)
           lead == <<0, 192, 224, 240>>
           add == [k \in 1 .. N |-> IF k = 1 THEN b[1] - lead[N] ELSE b[k] % 64]
           step == [k \in 1 .. N |-> [v \in Int |-> 64 * v + add[k]]]
           c == CodePointOf(b)
<1>1. N \in Nat /\ N \in 1 .. 4 /\ \A k \in 1 .. N : b[k] \in Nat
  OBVIOUS
<1> HIDE DEF N
<1>2. \A k \in 1 .. N : add[k] \in Int
  <2>1. N \in 1 .. 4 => lead[N] \in Int
    OBVIOUS
  <2>2. QED
    BY <1>1, <2>1
<1>3. step \in [1 .. N -> [Int -> Int]]
  <2> HIDE DEF add
  <2>1. QED
    BY <1>2
<1>4. \E f : Folds(f, Int, 0, N, step)
  <2> HIDE DEF step
  <2>1. QED
    <3>1. 0 \in Int
      OBVIOUS
    <3>2. QED
      BY <1>1, <1>3, <3>1, PrefixRecursion
<1>5. PICK f : f \in [0 .. N -> Int] /\ f[0] = 0 /\ \A k \in 1 .. N : f[k] = 64 * f[k - 1] + add[k]
  <2>1. PICK f : Folds(f, Int, 0, N, step)
    BY <1>4
  <2>2. f \in [0 .. N -> Int] /\ f[0] = 0
    BY <2>1 DEF Folds
  <2>3. ASSUME NEW k \in 1 .. N
        PROVE  f[k] = 64 * f[k - 1] + add[k]
    <3>1. k - 1 \in 0 .. N
      BY <1>1
    <3>2. f[k - 1] \in Int
      BY <2>2, <3>1
    <3>3. f[k] = step[k][f[k - 1]]
      BY <2>1 DEF Folds
    <3> HIDE DEF add
    <3>4. QED
      BY <3>2, <3>3
  <2>4. QED
    BY <2>2, <2>3
<1>6. f = [k \in 0 .. N |-> IF k = 0 THEN 0 ELSE
             64 * f[k - 1] + (IF k = 1 THEN b[1] - lead[N] ELSE b[k] % 64)]
  <2>1. \A k \in 1 .. N : f[k] = 64 * f[k - 1] + (IF k = 1 THEN b[1] - lead[N] ELSE b[k] % 64)
    <3> HIDE DEF lead
    <3>1. QED
      BY <1>5
  <2> HIDE DEF lead, add, step
  <2>2. QED
    BY <1>1, <1>5, <2>1
<1>7. c = [k \in 0 .. N |-> IF k = 0 THEN 0 ELSE
             64 * c[k - 1] + (IF k = 1 THEN b[1] - lead[N] ELSE b[k] % 64)]
  BY <1>6 DEF CodePointOf, N
<1> HIDE DEF c
<1>8. /\ c[0] = 0
      /\ c[1] = 64 * c[0] + (b[1] - lead[N])
      /\ N >= 2 => c[2] = 64 * c[1] + (b[2] % 64)
      /\ N >= 3 => c[3] = 64 * c[2] + (b[3] % 64)
      /\ N >= 4 => c[4] = 64 * c[3] + (b[4] % 64)
  <2> HIDE DEF lead
  <2>1. QED
    BY <1>1, <1>7
<1>9. lead[N] \in Int /\ b[1] \in Int
  BY <1>1
<1>10. QED
  BY <1>8, <1>9 DEF c, N

\* What the forms of one to four bytes stand for.
LEMMA CodePointOfForm ==
  ASSUME NEW b \in Seq(Nat)
  PROVE  /\ Len(b) = 1 => CodePointOf(b)[1] = b[1] - 0
         /\ Len(b) = 2 => /\ CodePointOf(b)[1] = b[1] - 192
                          /\ CodePointOf(b)[2] = 64 * CodePointOf(b)[1] + (b[2] % 64)
         /\ Len(b) = 3 => /\ CodePointOf(b)[1] = b[1] - 224
                          /\ CodePointOf(b)[2] = 64 * CodePointOf(b)[1] + (b[2] % 64)
                          /\ CodePointOf(b)[3] = 64 * CodePointOf(b)[2] + (b[3] % 64)
         /\ Len(b) = 4 => /\ CodePointOf(b)[1] = b[1] - 240
                          /\ CodePointOf(b)[2] = 64 * CodePointOf(b)[1] + (b[2] % 64)
                          /\ CodePointOf(b)[3] = 64 * CodePointOf(b)[2] + (b[3] % 64)
                          /\ CodePointOf(b)[4] = 64 * CodePointOf(b)[3] + (b[4] % 64)
<1> DEFINE lead == <<0, 192, 224, 240>>
<1>1. lead[1] = 0 /\ lead[2] = 192 /\ lead[3] = 224 /\ lead[4] = 240
  OBVIOUS
<1> HIDE DEF lead
<1>2. Len(b) \in 1 .. 4 =>
        /\ CodePointOf(b)[1] = b[1] - lead[Len(b)]
        /\ Len(b) >= 2 => CodePointOf(b)[2] = 64 * CodePointOf(b)[1] + (b[2] % 64)
        /\ Len(b) >= 3 => CodePointOf(b)[3] = 64 * CodePointOf(b)[2] + (b[3] % 64)
        /\ Len(b) >= 4 => CodePointOf(b)[4] = 64 * CodePointOf(b)[3] + (b[4] % 64)
  BY CodePointUnfolds DEF lead
<1>3. ASSUME NEW n \in 1 .. 4, Len(b) = n
      PROVE  /\ CodePointOf(b)[1] = b[1] - lead[n]
             /\ n >= 2 => CodePointOf(b)[2] = 64 * CodePointOf(b)[1] + (b[2] % 64)
             /\ n >= 3 => CodePointOf(b)[3] = 64 * CodePointOf(b)[2] + (b[3] % 64)
             /\ n >= 4 => CodePointOf(b)[4] = 64 * CodePointOf(b)[3] + (b[4] % 64)
  BY <1>2, <1>3
<1>4. QED
  BY <1>1, <1>3

\* The groups of six bits of a number.
LEMMA SixBits ==
  ASSUME NEW n \in Nat
  PROVE  n \div 64 \in Nat /\ n % 64 \in 0 .. 63 /\ n = 64 * (n \div 64) + (n % 64)
BY SMT

\* A number is made of its groups of six bits.
LEMMA Groups ==
  ASSUME NEW cp \in Nat
  PROVE  /\ cp \div 4096 = (cp \div 64) \div 64
         /\ cp \div 262144 = (cp \div 4096) \div 64
<1> DEFINE a == cp \div 64
           b == a \div 64
           c == b \div 64
<1>1. a \in Nat /\ cp % 64 \in 0 .. 63 /\ cp = 64 * a + (cp % 64)
  BY SixBits
<1>2. b \in Nat /\ a % 64 \in 0 .. 63 /\ a = 64 * b + (a % 64)
  BY <1>1, SixBits
<1>3. c \in Nat /\ b % 64 \in 0 .. 63 /\ b = 64 * c + (b % 64)
  BY <1>2, SixBits
<1>4. cp = 4096 * b + 64 * (a % 64) + (cp % 64)
  <2> HIDE DEF a, b, c
  <2>1. QED
    BY <1>1, <1>2, SMT
<1>5. cp \div 4096 = b
  <2> DEFINE y == a % 64
             z == cp % 64
             r == 64 * y + z
  <2>1. b \in Nat /\ y \in 0 .. 63 /\ z \in 0 .. 63 /\ cp = 4096 * b + 64 * y + z
    BY <1>1, <1>2, <1>4
  <2> HIDE DEF a, b, c, y, z
  <2>2. r \in 0 .. 4095 /\ cp = 4096 * b + r
    BY <2>1, SMT
  <2> HIDE DEF r
  <2>3. QED
    BY <2>1, <2>2, SMT
<1>6. cp = 262144 * c + 4096 * (b % 64) + 64 * (a % 64) + (cp % 64)
  <2> HIDE DEF a, b, c
  <2>1. QED
    BY <1>3, <1>4, <1>1, <1>2, SMT
<1>7. cp \div 262144 = c
  <2> HIDE DEF a, b, c
  <2>1. QED
    <3> DEFINE x == b % 64
               y == a % 64
               z == cp % 64
    <3>1. /\ c \in Nat /\ x \in 0 .. 63 /\ y \in 0 .. 63 /\ z \in 0 .. 63
          /\ cp = 262144 * c + 4096 * x + 64 * y + z
      BY <1>1, <1>2, <1>3, <1>6
    <3> HIDE DEF x, y, z
    <3>2. QED
      BY <3>1, SMT
<1>8. QED
  BY <1>5, <1>7, SMT

\* The form of each range of code points.
LEMMA OneByte ==
  ASSUME NEW cp \in Nat, cp <= 127
  PROVE  codePointToUTF8(cp) = <<cp>>
<1>1. ~(127 < cp) /\ ~(2047 < cp) /\ ~(65535 < cp)
  BY SMT
<1>2. QED
  BY <1>1, SMT DEF codePointToUTF8

LEMMA TwoBytes ==
  ASSUME NEW cp \in Nat, 127 < cp, cp <= 2047
  PROVE  codePointToUTF8(cp) = <<192 + ((cp \div 64) % 32), 128 + (cp % 64)>>
<1>1. ~(cp <= 127) /\ ~(2047 < cp) /\ ~(65535 < cp)
  BY SMT
<1>2. QED
  BY <1>1, SMT DEF codePointToUTF8

LEMMA ThreeBytes ==
  ASSUME NEW cp \in Nat, 2047 < cp, cp <= 65535
  PROVE  codePointToUTF8(cp) =
           <<224 + ((cp \div 4096) % 16), 128 + ((cp \div 64) % 64), 128 + (cp % 64)>>
<1>1. ~(cp <= 127) /\ ~(cp <= 2047) /\ ~(65535 < cp)
  BY SMT
<1>2. QED
  BY <1>1, SMT DEF codePointToUTF8

LEMMA FourBytes ==
  ASSUME NEW cp \in Nat, 65535 < cp, cp <= 1114111
  PROVE  codePointToUTF8(cp) =
           <<240 + ((cp \div 262144) % 8), 128 + ((cp \div 4096) % 64),
             128 + ((cp \div 64) % 64), 128 + (cp % 64)>>
<1>1. ~(cp <= 127) /\ ~(cp <= 2047) /\ ~(cp <= 65535)
  BY SMT
<1>2. QED
  BY <1>1, SMT DEF codePointToUTF8

LEMMA NoBytes ==
  ASSUME NEW cp \in Nat, cp > 1114111
  PROVE  codePointToUTF8(cp) = <<>>
BY SMT DEF codePointToUTF8

\* A code point is written as what reads as it, in the shortest form.
LEMMA CodePointsReadBack ==
  ASSUME NEW cp \in Nat
  PROVE  LET b == codePointToUTF8(cp)
             least == <<0, 128, 2048, 65536>>
         IN  IF cp > 1114111 THEN b = <<>>
             ELSE /\ cp = CodePointOf(b)[Len(b)]
                  /\ cp >= least[Len(b)]
                  /\ \A k \in 2 .. Len(b) : b[k] \in 128 .. 191
<1> DEFINE least == <<0, 128, 2048, 65536>>
           Reads(b) ==
             /\ cp = CodePointOf(b)[Len(b)]
             /\ cp >= least[Len(b)]
             /\ \A k \in 2 .. Len(b) : b[k] \in 128 .. 191
           z == cp % 64
           y == (cp \div 64) % 64
           x == (cp \div 4096) % 64
           w == cp \div 262144
<1>1. /\ z \in 0 .. 63 /\ cp = 64 * (cp \div 64) + z
      /\ y \in 0 .. 63 /\ cp \div 64 = 64 * (cp \div 4096) + y
      /\ x \in 0 .. 63 /\ cp \div 4096 = 64 * w + x
      /\ cp \div 64 \in Nat /\ cp \div 4096 \in Nat /\ w \in Nat
  BY SixBits, Groups, SMT
<1>2. /\ 128 + z \in 128 .. 191 /\ (128 + z) % 64 = z
       /\ 128 + y \in 128 .. 191 /\ (128 + y) % 64 = y
       /\ 128 + x \in 128 .. 191 /\ (128 + x) % 64 = x
  <2>1. \A v \in 0 .. 63 : 128 + v \in 128 .. 191 /\ (128 + v) % 64 = v
    BY SMT
  <2> HIDE DEF w, x, y, z
  <2>2. QED
    BY <1>1, <2>1, SMT
<1>3. least[1] = 0 /\ least[2] = 128 /\ least[3] = 2048 /\ least[4] = 65536
  BY SMT
<1> HIDE DEF w, x, y, z, least
<1>4. CASE cp <= 127
  <2> DEFINE b == <<cp>>
  <2>0. codePointToUTF8(cp) = b
    BY <1>4, OneByte, SMT
  <2>1. b \in Seq(Nat) /\ Len(b) = 1 /\ b[1] = cp
    BY SMT
  <2> HIDE DEF b
  <2>2. CodePointOf(b)[1] = cp
    BY <2>1, CodePointOfForm, SMT
  <2>3. Reads(b)
    BY <1>3, <2>1, <2>2, SMT
  <2>4. QED
    BY <1>4, <2>0, <2>3, SMT DEF least
<1>5. CASE 127 < cp /\ cp <= 2047
  <2> DEFINE q == cp \div 64
             b == <<192 + (q % 32), 128 + z>>
  <2>1. codePointToUTF8(cp) = b
    <3> USE DEF z
    <3>1. QED
      BY <1>5, TwoBytes, SMT
  <2>2. q \in 0 .. 31 /\ cp = 64 * q + z
    BY <1>1, <1>5, SMT
  <2> HIDE DEF q
  <2>3. q % 32 = q
    BY <2>2, SMT
  <2>4. b \in Seq(Nat) /\ Len(b) = 2 /\ b[1] = 192 + q /\ b[2] = 128 + z
    BY <1>1, <2>2, <2>3, SMT
  <2> HIDE DEF b
  <2>5. CodePointOf(b)[1] = b[1] - 192 /\ CodePointOf(b)[2] = 64 * CodePointOf(b)[1] + (b[2] % 64)
    BY <2>4, CodePointOfForm, SMT
  <2>6. CodePointOf(b)[2] = cp
    BY <1>1, <1>2, <2>2, <2>4, <2>5, SMT
  <2>7. \A k \in 2 .. Len(b) : b[k] \in 128 .. 191
    <3>1. b[2] \in 128 .. 191
      BY <1>2, <2>4, SMT
    <3>2. \A k \in 2 .. Len(b) : k = 2
      BY <2>4, SMT
    <3>3. QED
      BY <3>1, <3>2, Zenon
  <2>8. Reads(b)
    BY <1>5, <1>3, <2>4, <2>6, <2>7, SMT
  <2>9. QED
    BY <1>5, <2>1, <2>8, SMT DEF least
<1>6. CASE 2047 < cp /\ cp <= 65535
  <2> DEFINE q == cp \div 4096
             b == <<224 + (q % 16), 128 + y, 128 + z>>
  <2>1. codePointToUTF8(cp) = b
    <3> USE DEF y, z
    <3>1. QED
      BY <1>6, ThreeBytes, SMT
  <2>2. q \in 0 .. 15 /\ cp = 4096 * q + 64 * y + z
    BY <1>1, <1>6, SMT
  <2> HIDE DEF q
  <2>3. q % 16 = q
    BY <2>2, SMT
  <2>4. b \in Seq(Nat) /\ Len(b) = 3 /\ b[1] = 224 + q /\ b[2] = 128 + y /\ b[3] = 128 + z
    BY <1>1, <2>2, <2>3, SMT
  <2> HIDE DEF b
  <2>5. /\ CodePointOf(b)[1] = b[1] - 224
        /\ CodePointOf(b)[2] = 64 * CodePointOf(b)[1] + (b[2] % 64)
        /\ CodePointOf(b)[3] = 64 * CodePointOf(b)[2] + (b[3] % 64)
    BY <2>4, CodePointOfForm, SMT
  <2>6. CodePointOf(b)[3] = cp
    BY <1>1, <1>2, <2>2, <2>4, <2>5, SMT
  <2>7. \A k \in 2 .. Len(b) : b[k] \in 128 .. 191
    <3>1. b[2] \in 128 .. 191 /\ b[3] \in 128 .. 191
      BY <1>2, <2>4, SMT
    <3>2. \A k \in 2 .. Len(b) : k = 2 \/ k = 3
      BY <2>4, SMT
    <3>3. QED
      BY <3>1, <3>2, Zenon
  <2>8. Reads(b)
    BY <1>6, <1>3, <2>4, <2>6, <2>7, SMT
  <2>9. QED
    BY <1>6, <2>1, <2>8, SMT DEF least
<1>7. CASE 65535 < cp /\ cp <= 1114111
  <2> DEFINE b == <<240 + (w % 8), 128 + x, 128 + y, 128 + z>>
  <2>1. codePointToUTF8(cp) = b
    <3> USE DEF w, x, y, z
    <3>1. QED
      BY <1>7, FourBytes, SMT
  <2>2. w \in 0 .. 7 /\ cp = 262144 * w + 4096 * x + 64 * y + z
    BY <1>1, <1>7, SMT
  <2>3. w % 8 = w
    BY <2>2, SMT
  <2>4. /\ b \in Seq(Nat) /\ Len(b) = 4
        /\ b[1] = 240 + w /\ b[2] = 128 + x /\ b[3] = 128 + y /\ b[4] = 128 + z
    BY <1>1, <2>2, <2>3, SMT
  <2> HIDE DEF b
  <2>5. /\ CodePointOf(b)[1] = b[1] - 240
        /\ CodePointOf(b)[2] = 64 * CodePointOf(b)[1] + (b[2] % 64)
        /\ CodePointOf(b)[3] = 64 * CodePointOf(b)[2] + (b[3] % 64)
        /\ CodePointOf(b)[4] = 64 * CodePointOf(b)[3] + (b[4] % 64)
    BY <2>4, CodePointOfForm, SMT
  <2>6. CodePointOf(b)[4] = cp
    BY <1>1, <1>2, <2>2, <2>4, <2>5, SMT
  <2>7. \A k \in 2 .. Len(b) : b[k] \in 128 .. 191
    <3>1. b[2] \in 128 .. 191 /\ b[3] \in 128 .. 191 /\ b[4] \in 128 .. 191
      BY <1>2, <2>4, SMT
    <3>2. \A k \in 2 .. Len(b) : k = 2 \/ k = 3 \/ k = 4
      BY <2>4, SMT
    <3>3. QED
      BY <3>1, <3>2, Zenon
  <2>8. Reads(b)
    BY <1>7, <1>3, <2>4, <2>6, <2>7, SMT
  <2>9. QED
    BY <1>7, <2>1, <2>8, SMT DEF least
<1>8. CASE cp > 1114111
  BY <1>8, NoBytes, SMT
<1>9. QED
  BY <1>4, <1>5, <1>6, <1>7, <1>8, SMT

-----------------------------------------------------------------------------
(* Doubles. *)

NumberChar == {"0", "1", ".", "e", "+", "-"}

\* A sequence over a set is one over a larger set.
LEMMA SeqWidens ==
  ASSUME NEW A, NEW B, A \subseteq B, NEW s \in Seq(A)
  PROVE  s \in Seq(B)
<1>1. Len(s) \in Nat /\ s \in [1 .. Len(s) -> A]
  OBVIOUS
<1>2. s \in [1 .. Len(s) -> B]
  BY <1>1
<1>3. QED
  BY <1>1, <1>2

\* A set of numbers up to n that is not empty has a greatest one, and the
\* library's Max is that.
LEMMA GreatestIndex ==
  ASSUME NEW n \in Nat, NEW I \in SUBSET (1 .. n), I # {}
  PROVE  Max(I) \in I /\ \A i \in I : i <= Max(I)
<1> DEFINE T == {k \in Nat : \A i \in 1 .. n : i \in I => n - i # k}
<1>1. ~(Nat \subseteq T)
  <2>1. PICK i \in 1 .. n : i \in I
    OBVIOUS
  <2>2. n - i \in Nat /\ n - i \notin T
    BY <2>1
  <2>3. QED
    BY <2>2
<1>2. PICK k \in Nat : k \notin T /\ \A m \in Nat : m < k => m \in T
  <2> HIDE DEF T
  <2>1. QED
    BY <1>1, StrongInduction
<1>3. PICK i \in I : n - i = k
  BY <1>2
<1>4. \A j \in I : j <= i
  <2>1. SUFFICES ASSUME NEW j \in I, j > i PROVE FALSE
    OBVIOUS
  <2>2. n - j \in Nat /\ n - j < k /\ j \in 1 .. n
    BY <1>3, <2>1
  <2>3. n - j \in T
    BY <1>2, <2>2
  <2>4. QED
    BY <2>2, <2>3
<1>5. QED
  BY <1>4 DEF Max

\* The same of the least one.
LEMMA LeastIndex ==
  ASSUME NEW n \in Nat, NEW I \in SUBSET (1 .. n), I # {}
  PROVE  Min(I) \in I /\ \A i \in I : Min(I) <= i
<1> DEFINE T == {k \in Nat : k \notin I}
<1>1. ~(Nat \subseteq T)
  <2>1. PICK i \in 1 .. n : i \in I
    OBVIOUS
  <2>2. i \in Nat /\ i \notin T
    BY <2>1
  <2>3. QED
    BY <2>2
<1>2. PICK k \in Nat : k \notin T /\ \A m \in Nat : m < k => m \in T
  <2> HIDE DEF T
  <2>1. QED
    BY <1>1, StrongInduction
<1>3. k \in I /\ \A j \in I : k <= j
  BY <1>2
<1>4. QED
  BY <1>3 DEF Min

\* The greatest and the least of some indexes, 0 if there is none.
GreatestOr0(I) == IF I # {} THEN Max(I) ELSE 0
LeastOr0(I)    == IF I # {} THEN Min(I) ELSE 0

\* The greatest number of a set, or 0 if there is none.
LEMMA GreatestOr0Facts ==
  ASSUME NEW n \in Nat, NEW I \in SUBSET (1 .. n)
  PROVE  /\ GreatestOr0(I) \in 0 .. n
         /\ GreatestOr0(I) # 0 => GreatestOr0(I) \in I
         /\ \A i \in GreatestOr0(I) + 1 .. n : i \notin I
<1>1. CASE I = {}
  <2>1. GreatestOr0(I) = 0
    BY <1>1 DEF GreatestOr0
  <2>2. QED
    BY <1>1, <2>1
<1>2. CASE I # {}
  <2>1. GreatestOr0(I) = Max(I)
    BY <1>2 DEF GreatestOr0
  <2>2. Max(I) \in I /\ \A i \in I : i <= Max(I)
    BY <1>2, GreatestIndex
  <2> DEFINE k == Max(I)
  <2>3. k \in I /\ \A i \in I : i <= k
    BY <2>2
  <2> HIDE DEF k
  <2>4. /\ k \in 0 .. n
        /\ k # 0 => k \in I
        /\ \A i \in k + 1 .. n : i \notin I
    BY <2>3
  <2>5. QED
    BY <2>1, <2>4 DEF k
<1>3. QED
  BY <1>1, <1>2

\* The least number of a set, or 0 if there is none.
LEMMA LeastOr0Facts ==
  ASSUME NEW n \in Nat, NEW I \in SUBSET (1 .. n)
  PROVE  /\ LeastOr0(I) \in 0 .. n
         /\ LeastOr0(I) # 0 => LeastOr0(I) \in I /\ \A i \in 1 .. LeastOr0(I) - 1 : i \notin I
         /\ LeastOr0(I) = 0 => I = {}
<1>1. CASE I = {}
  <2>1. LeastOr0(I) = 0
    BY <1>1 DEF LeastOr0
  <2>2. QED
    BY <1>1, <2>1
<1>2. CASE I # {}
  <2>1. LeastOr0(I) = Min(I)
    BY <1>2 DEF LeastOr0
  <2>2. Min(I) \in I /\ \A i \in I : Min(I) <= i
    BY <1>2, LeastIndex
  <2> DEFINE k == Min(I)
  <2>3. k \in I /\ \A i \in I : k <= i
    BY <2>2
  <2> HIDE DEF k
  <2>4. /\ k \in 0 .. n /\ k # 0 /\ k \in I
        /\ \A i \in 1 .. k - 1 : i \notin I
    BY <2>3
  <2>5. QED
    BY <2>1, <2>4 DEF k
<1>3. QED
  BY <1>1, <1>2

\* What the first loop of valueToString(double) finds.
LEMMA LastNonzeroFacts ==
  ASSUME NEW s \in Seq(NumberChar)
  PROVE  LET k == LastNonzero(s)
         IN  /\ k \in 0 .. Len(s)
             /\ k # 0 => s[k] # "0"
             /\ \A i \in k + 1 .. Len(s) : s[i] = "0"
<1> DEFINE I == {i \in 1 .. Len(s) : s[i] # "0"}
           k == LastNonzero(s)
<1>1. Len(s) \in Nat /\ I \in SUBSET (1 .. Len(s))
  OBVIOUS
<1>2. k = GreatestOr0(I)
  BY DEF LastNonzero, SelectLastInSeq, GreatestOr0
<1> HIDE DEF k
<1>3. /\ k \in 0 .. Len(s)
      /\ k # 0 => k \in I
      /\ \A i \in k + 1 .. Len(s) : i \notin I
  <2> HIDE DEF I
  <2>1. QED
    BY <1>1, <1>2, GreatestOr0Facts
<1>4. /\ k \in 0 .. Len(s)
      /\ k # 0 => s[k] # "0"
      /\ \A i \in k + 1 .. Len(s) : s[i] = "0"
  BY <1>1, <1>3
<1>5. QED
  BY <1>4 DEF k

\* What its second loop finds.
LEMMA LastNondigitFacts ==
  ASSUME NEW s \in Seq(NumberChar), NEW n \in 0 .. Len(s)
  PROVE  LET k == LastNondigit(s, n)
         IN  /\ k \in 0 .. n
             /\ k # 0 => s[k] \notin DigitChar
             /\ \A i \in k + 1 .. n : s[i] \in DigitChar
<1> DEFINE I == {i \in 1 .. n : s[i] \notin DigitChar}
           k == LastNondigit(s, n)
<1>1. n \in Nat /\ I \in SUBSET (1 .. n)
  OBVIOUS
<1>2. k = GreatestOr0(I)
  BY DEF LastNondigit, SelectLastInSubSeq, GreatestOr0
<1> HIDE DEF k
<1>3. /\ k \in 0 .. n
      /\ k # 0 => k \in I
      /\ \A i \in k + 1 .. n : i \notin I
  <2> HIDE DEF I
  <2>1. QED
    BY <1>1, <1>2, GreatestOr0Facts
<1>4. /\ k \in 0 .. n
      /\ k # 0 => s[k] \notin DigitChar
      /\ \A i \in k + 1 .. n : s[i] \in DigitChar
  BY <1>1, <1>3
<1>5. QED
  BY <1>4 DEF k

\* The first place of a character, or 0.
LEMMA FirstOfFacts ==
  ASSUME NEW s \in Seq(NumberChar), NEW a
  PROVE  LET k == FirstOf(s, a)
         IN  /\ k \in 0 .. Len(s)
             /\ k # 0 => s[k] = a /\ \A i \in 1 .. k - 1 : s[i] # a
             /\ k = 0 => \A i \in 1 .. Len(s) : s[i] # a
<1> DEFINE I == {i \in 1 .. Len(s) : s[i] = a}
           k == FirstOf(s, a)
<1>1. Len(s) \in Nat /\ I \in SUBSET (1 .. Len(s))
  OBVIOUS
<1>2. k = LeastOr0(I)
  BY DEF FirstOf, SelectInSeq, LeastOr0
<1> HIDE DEF k
<1>3. /\ k \in 0 .. Len(s)
      /\ k # 0 => k \in I /\ \A i \in 1 .. k - 1 : i \notin I
      /\ k = 0 => I = {}
  <2> HIDE DEF I
  <2>1. QED
    BY <1>1, <1>2, LeastOr0Facts
<1>4. /\ k \in 0 .. Len(s)
      /\ k # 0 => s[k] = a /\ \A i \in 1 .. k - 1 : s[i] # a
      /\ k = 0 => \A i \in 1 .. Len(s) : s[i] # a
  BY <1>1, <1>3
<1>5. QED
  BY <1>4 DEF k

\* The text of a number that has a point: zeroes after L are cut.
LEMMA CutKeeps ==
  ASSUME NEW s \in Seq(NumberChar), Len(s) >= 1,
         \A i, j \in 1 .. Len(s) : s[i] = "e" /\ s[j] = "." => j < i
  PROVE  Number(valueToStringDouble(s)) = Number(s)
<1> DEFINE N == Len(s)
           L == LastNonzero(s)
           p == LastNondigit(s, L)
           t == SubSeq(s, 1, L + 1)
<1>1. N \in Nat /\ N >= 1
  OBVIOUS
<1>2. /\ L \in 0 .. N
      /\ L # 0 => s[L] # "0"
      /\ \A i \in L + 1 .. N : s[i] = "0"
  BY LastNonzeroFacts
<1>3. /\ p \in 0 .. L
      /\ p # 0 => s[p] \notin DigitChar
      /\ \A i \in p + 1 .. L : s[i] \in DigitChar
  BY <1>2, LastNondigitFacts
<1>4. Last(s) = s[N]
  BY DEF Last
<1>5. CASE ~(Last(s) = "0" /\ p > 0 /\ s[p] = ".")
  <2>1. valueToStringDouble(s) = s
    BY <1>5 DEF valueToStringDouble
  <2>2. QED
    BY <2>1
<1>6. CASE Last(s) = "0" /\ p > 0 /\ s[p] = "."
  <2>1. valueToStringDouble(s) = t
    BY <1>6 DEF valueToStringDouble
  <2> HIDE DEF L, p
  <2>2. L < N /\ p <= L /\ p >= 1 /\ L \in Nat /\ p \in Nat
    <3>1. s[N] = "0"
      BY <1>4, <1>6
    <3>2. L # N
      BY <1>1, <1>2, <3>1
    <3>3. QED
      BY <1>1, <1>2, <1>3, <1>6, <3>2
  <2>3. t \in Seq(NumberChar) /\ Len(t) = L + 1 /\ \A i \in 1 .. L + 1 : t[i] = s[i]
    <3>1. L + 1 \in 1 .. N
      BY <1>1, <2>2
    <3>2. \A i \in 1 .. L + 1 : s[i] \in NumberChar
      BY <3>1
    <3>3. QED
      BY <3>1, <3>2, SubSeqProperties
  <2> HIDE DEF t
  <2>4. \A i \in p + 1 .. N : s[i] \in DigitChar
    <3>1. ASSUME NEW i \in p + 1 .. N PROVE s[i] \in DigitChar
      <4>1. CASE i <= L
        BY <1>3, <2>2, <4>1
      <4>2. CASE i > L
        <5>1. s[i] = "0"
          BY <1>2, <2>2, <4>2
        <5>2. QED
          BY <5>1 DEF DigitChar
      <4>3. QED
        BY <2>2, <4>1, <4>2
    <3>2. QED
      BY <3>1
  <2>5. \A i \in 1 .. N : s[i] # "e"
    <3>1. SUFFICES ASSUME NEW i \in 1 .. N, s[i] = "e" PROVE FALSE
      OBVIOUS
    <3>2. p \in 1 .. N
      BY <2>2, <1>1
    <3>3. p < i
      BY <1>6, <3>1, <3>2
    <3>4. i \in p + 1 .. N
      BY <2>2, <3>1, <3>3
    <3>5. s[i] \in DigitChar
      BY <2>4, <3>4
    <3>6. QED
      BY <3>1, <3>5 DEF DigitChar
  <2> DEFINE q == FirstOf(s, ".")
  <2>6. /\ q \in 1 .. p /\ s[q] = "."
        /\ \A i \in 1 .. q - 1 : s[i] # "."
    <3>1. /\ q \in 0 .. N
          /\ q # 0 => s[q] = "." /\ \A i \in 1 .. q - 1 : s[i] # "."
          /\ q = 0 => \A i \in 1 .. N : s[i] # "."
      BY FirstOfFacts
    <3> HIDE DEF q
    <3>2. p \in 1 .. N
      BY <2>2, <1>1
    <3>3. q # 0
      BY <1>6, <3>1, <3>2
    <3>4. ~(p \in 1 .. q - 1)
      BY <1>6, <3>1, <3>3
    <3>5. QED
      BY <3>1, <3>2, <3>3, <3>4
  <2>7. FirstOf(t, ".") = q
    <3> DEFINE r == FirstOf(t, ".")
    <3>1. /\ r \in 0 .. L + 1
          /\ r # 0 => t[r] = "." /\ \A i \in 1 .. r - 1 : t[i] # "."
          /\ r = 0 => \A i \in 1 .. L + 1 : t[i] # "."
      BY <2>3, FirstOfFacts
    <3> HIDE DEF q, r
    <3>2. q \in 1 .. L + 1 /\ t[q] = "."
      BY <2>2, <2>3, <2>6
    <3>3. r # 0 /\ ~(q < r)
      BY <3>1, <3>2
    <3>4. ~(r < q)
      <4>1. r \in 1 .. L + 1 /\ s[r] = "."
        BY <2>2, <2>3, <3>1, <3>3
      <4>2. QED
        BY <2>6, <4>1
    <3>5. r = q
      BY <3>1, <3>2, <3>3, <3>4
    <3>6. QED
      BY <3>5 DEF r
  <2> HIDE DEF q
  <2>8. FirstOf(s, "e") = 0
    BY <2>5, FirstOfFacts
  <2>9. FirstOf(t, "e") = 0
    <3>1. \A i \in 1 .. L + 1 : t[i] # "e"
      BY <1>1, <2>2, <2>3, <2>5
    <3>2. QED
      BY <2>3, <3>1, FirstOfFacts
  <2> DEFINE fs == SubSeq(s, q + 1, N)
             ft == SubSeq(t, q + 1, L + 1)
  <2>10. q \in Nat /\ q >= 1 /\ q <= L
    BY <2>2, <2>6
  <2>11. fs \in Seq(NumberChar) /\ Len(fs) = N - q /\ \A i \in 1 .. N - q : fs[i] = s[q + i]
    <3>1. \A i \in q + 1 .. N : s[i] \in NumberChar
      BY <1>1, <2>10
    <3>2. /\ fs \in Seq(NumberChar)
          /\ Len(fs) = IF q + 1 <= N THEN N - (q + 1) + 1 ELSE 0
          /\ \A i \in 1 .. N - (q + 1) + 1 : fs[i] = s[(q + 1) + i - 1]
      BY <1>1, <2>10, <3>1, SubSeqProperties
    <3> HIDE DEF fs
    <3>3. QED
      BY <1>1, <2>2, <2>10, <3>2
  <2>12. ft \in Seq(NumberChar) /\ Len(ft) = L + 1 - q /\ \A i \in 1 .. L + 1 - q : ft[i] = s[q + i]
    <3>1. \A i \in q + 1 .. L + 1 : t[i] \in NumberChar
      BY <2>3, <2>2, <2>10
    <3>2. /\ ft \in Seq(NumberChar)
          /\ Len(ft) = IF q + 1 <= L + 1 THEN L + 1 - (q + 1) + 1 ELSE 0
          /\ \A i \in 1 .. L + 1 - (q + 1) + 1 : ft[i] = t[(q + 1) + i - 1]
      BY <2>2, <2>10, <3>1, SubSeqProperties
    <3> HIDE DEF ft
    <3>3. QED
      BY <2>2, <2>3, <2>10, <3>2
  <2> HIDE DEF fs, ft
  <2>13. LastNonzero(fs) = L - q
    <3> DEFINE m == LastNonzero(fs)
    <3>1. /\ m \in 0 .. N - q
          /\ m # 0 => fs[m] # "0"
          /\ \A i \in m + 1 .. N - q : fs[i] = "0"
      BY <2>11, LastNonzeroFacts
    <3> HIDE DEF m
    <3>2. ~(m < L - q)
      <4>1. SUFFICES ASSUME m < L - q PROVE FALSE
        OBVIOUS
      <4>2. L - q \in m + 1 .. N - q /\ L - q \in 1 .. N - q /\ q + (L - q) = L
        BY <1>1, <2>2, <2>10, <3>1, <4>1
      <4>3. fs[L - q] = "0" /\ fs[L - q] = s[L]
        BY <2>11, <3>1, <4>2
      <4>4. QED
        BY <1>2, <2>2, <4>3
    <3>3. ~(m > L - q)
      <4>1. SUFFICES ASSUME m > L - q PROVE FALSE
        OBVIOUS
      <4>2. m \in 1 .. N - q /\ q + m \in L + 1 .. N
        BY <1>1, <2>2, <2>10, <3>1, <4>1
      <4>3. fs[m] = s[q + m] /\ s[q + m] = "0"
        BY <1>2, <2>11, <4>2
      <4>4. QED
        BY <3>1, <4>2, <4>3
    <3>4. m = L - q
      BY <1>1, <2>2, <2>10, <3>1, <3>2, <3>3
    <3>5. QED
      BY <3>4 DEF m
  <2>14. LastNonzero(ft) = L - q
    <3> DEFINE m == LastNonzero(ft)
    <3>1. /\ m \in 0 .. L + 1 - q
          /\ m # 0 => ft[m] # "0"
          /\ \A i \in m + 1 .. L + 1 - q : ft[i] = "0"
      BY <2>12, LastNonzeroFacts
    <3> HIDE DEF m
    <3>2. ~(m < L - q)
      <4>1. SUFFICES ASSUME m < L - q PROVE FALSE
        OBVIOUS
      <4>2. L - q \in m + 1 .. L + 1 - q /\ L - q \in 1 .. L + 1 - q /\ q + (L - q) = L
        BY <2>2, <2>10, <3>1, <4>1
      <4>3. ft[L - q] = "0" /\ ft[L - q] = s[L]
        BY <2>12, <3>1, <4>2
      <4>4. QED
        BY <1>2, <2>2, <4>3
    <3>3. ~(m > L - q)
      <4>1. SUFFICES ASSUME m > L - q PROVE FALSE
        OBVIOUS
      <4>2. m \in 1 .. L + 1 - q /\ q + m = L + 1
        BY <2>2, <2>10, <3>1, <4>1
      <4>3. ft[m] = s[L + 1] /\ s[L + 1] = "0"
        BY <1>1, <1>2, <2>2, <2>12, <4>2
      <4>4. QED
        BY <3>1, <4>2, <4>3
    <3>4. m = L - q
      BY <2>2, <2>10, <3>1, <3>2, <3>3
    <3>5. QED
      BY <3>4 DEF m
  <2>15. SubSeq(fs, 1, L - q) = SubSeq(ft, 1, L - q)
    <3> DEFINE a == SubSeq(fs, 1, L - q)
               b == SubSeq(ft, 1, L - q)
               n == L - q
    <3>1. n \in Nat /\ n <= N - q /\ n <= L + 1 - q /\ \A i \in 1 .. n : i \in 1 .. N - q /\ i \in 1 .. L + 1 - q
      BY <1>1, <2>2, <2>10
    <3>2. \A i \in 1 .. n : fs[i] = ft[i] /\ fs[i] \in NumberChar /\ ft[i] \in NumberChar
      BY <2>11, <2>12, <3>1
    <3> HIDE DEF n
    <3>3. /\ SubSeq(fs, 1, n) \in Seq(NumberChar)
          /\ Len(SubSeq(fs, 1, n)) = n
          /\ \A i \in 1 .. n : SubSeq(fs, 1, n)[i] = fs[i]
      BY <3>1, <3>2, SubSeqProperties
    <3>4. /\ SubSeq(ft, 1, n) \in Seq(NumberChar)
          /\ Len(SubSeq(ft, 1, n)) = n
          /\ \A i \in 1 .. n : SubSeq(ft, 1, n)[i] = ft[i]
      BY <3>1, <3>2, SubSeqProperties
    <3>5. SubSeq(fs, 1, n) = SubSeq(ft, 1, n)
      BY <3>2, <3>3, <3>4, SeqEqual
    <3>6. QED
      BY <3>5 DEF n
  <2>16. SubSeq(s, 1, q - 1) = SubSeq(t, 1, q - 1)
    <3> DEFINE n == q - 1
    <3>1. n \in Nat /\ n <= N /\ n <= L + 1 /\ \A i \in 1 .. n : i \in 1 .. N /\ i \in 1 .. L + 1
      BY <1>1, <2>2, <2>10
    <3>2. \A i \in 1 .. n : s[i] = t[i] /\ s[i] \in NumberChar /\ t[i] \in NumberChar
      BY <2>3, <3>1
    <3> HIDE DEF n
    <3>3. /\ SubSeq(s, 1, n) \in Seq(NumberChar)
          /\ Len(SubSeq(s, 1, n)) = n
          /\ \A i \in 1 .. n : SubSeq(s, 1, n)[i] = s[i]
      BY <3>1, <3>2, SubSeqProperties
    <3>4. /\ SubSeq(t, 1, n) \in Seq(NumberChar)
          /\ Len(SubSeq(t, 1, n)) = n
          /\ \A i \in 1 .. n : SubSeq(t, 1, n)[i] = t[i]
      BY <3>1, <3>2, SubSeqProperties
    <3>5. SubSeq(s, 1, n) = SubSeq(t, 1, n)
      BY <3>2, <3>3, <3>4, SeqEqual
    <3>6. QED
      BY <3>5 DEF n
  <2>17. SubSeq(s, N + 1, N) = <<>> /\ SubSeq(t, (L + 1) + 1, L + 1) = <<>>
    BY <1>1, <2>2, SubSeqEmpty
  <2>18. Number(s) = [whole |-> SubSeq(s, 1, q - 1),
                      fraction |-> SubSeq(fs, 1, L - q), exponent |-> <<>>]
    BY <2>8, <2>13, <2>17 DEF Number, q, fs
  <2>19. Number(t) = [whole |-> SubSeq(t, 1, q - 1),
                      fraction |-> SubSeq(ft, 1, L - q), exponent |-> <<>>]
    <3>1. Len(t) = L + 1
      BY <2>3
    <3>2. QED
      BY <2>7, <2>9, <2>14, <2>17, <3>1 DEF Number, ft
  <2>20. QED
    BY <2>1, <2>15, <2>16, <2>18, <2>19
<1>7. QED
  BY <1>5, <1>6

\* A number as it is printed has its point before its exponent.
LEMMA PointFirst ==
  ASSUME NEW d \in [1 .. Precision -> DigitChar], NEW e \in Exponents
  PROVE  LET s == FormatDouble(d, e)
         IN  /\ s \in Seq(NumberChar) /\ Len(s) >= 1
             /\ \A i, j \in 1 .. Len(s) : s[i] = "e" /\ s[j] = "." => j < i
<1> DEFINE Plain == {"0", "1", "."}
           Signs == {"0", "1", "e", "+", "-"}
           Ok(s) == /\ s \in Seq(NumberChar) /\ Len(s) >= 1
                    /\ \A i, j \in 1 .. Len(s) : s[i] = "e" /\ s[j] = "." => j < i
<1>1. Precision \in Nat /\ Precision >= 1 /\ e \in Int
  BY ToolAssumption DEF Exponents
<1>2. d \in Seq(DigitChar) /\ Len(d) = Precision /\ d[1] \in DigitChar
  BY <1>1
<1>3. d \in Seq(Plain) /\ Tail(d) \in Seq(Plain) /\ d[1] \in Plain
  <2>1. DigitChar \subseteq Plain
    BY DEF DigitChar
  <2>2. d \in Seq(Plain)
    <3> HIDE DEF Plain
    <3>1. QED
      BY <1>2, <2>1, SeqWidens
  <2>3. d # <<>>
    BY <1>1, <1>2
  <2> HIDE DEF Plain
  <2>4. QED
    BY <1>2, <2>1, <2>2, <2>3
<1>4. Plain \subseteq NumberChar /\ Signs \subseteq NumberChar /\ "e" \notin Plain /\ "." \notin Signs
  BY DEF NumberChar
<1>5. ASSUME NEW s \in Seq(Plain), Len(s) >= 1
      PROVE  Ok(s)
  <2> HIDE DEF Plain
  <2>1. s \in Seq(NumberChar)
    BY <1>4, SeqWidens
  <2>2. \A i \in 1 .. Len(s) : s[i] # "e"
    BY <1>4
  <2>3. QED
    BY <1>5, <2>1, <2>2
<1>6. ASSUME NEW x \in Seq(Plain), NEW y \in Seq(Signs), Len(x) >= 1
      PROVE  Ok(x \o y)
  <2> HIDE DEF Plain, Signs
  <2>1. x \in Seq(NumberChar) /\ y \in Seq(NumberChar) /\ Len(x) \in Nat /\ Len(y) \in Nat
    BY <1>4, SeqWidens
  <2> DEFINE s == x \o y
  <2>2. /\ s \in Seq(NumberChar)
        /\ Len(s) = Len(x) + Len(y)
        /\ \A i \in 1 .. Len(x) + Len(y) : s[i] = IF i <= Len(x) THEN x[i] ELSE y[i - Len(x)]
    BY <2>1, ConcatProperties
  <2> HIDE DEF s
  <2>3. ASSUME NEW i \in 1 .. Len(s), s[i] = "e"
        PROVE  i > Len(x)
    <3>1. SUFFICES ASSUME i <= Len(x) PROVE FALSE
      BY <2>1
    <3>2. i \in 1 .. Len(x) /\ s[i] = x[i]
      BY <2>1, <2>2, <3>1
    <3>3. x[i] \in Plain
      BY <3>2
    <3>4. QED
      BY <1>4, <2>3, <3>2, <3>3
  <2>4. ASSUME NEW j \in 1 .. Len(s), s[j] = "."
        PROVE  j <= Len(x)
    <3>1. SUFFICES ASSUME j > Len(x) PROVE FALSE
      BY <2>1
    <3>2. j - Len(x) \in 1 .. Len(y) /\ s[j] = y[j - Len(x)]
      BY <2>1, <2>2, <3>1
    <3>3. y[j - Len(x)] \in Signs
      BY <3>2
    <3>4. QED
      BY <1>4, <2>4, <3>2, <3>3
  <2>5. \A i, j \in 1 .. Len(s) : s[i] = "e" /\ s[j] = "." => j < i
    BY <2>1, <2>3, <2>4
  <2>6. Len(s) >= 1
    BY <1>6, <2>1, <2>2
  <2>7. QED
    BY <2>2, <2>5, <2>6 DEF s
<1>7. ExponentText(e) \in Seq(Signs)
  <2> DEFINE sign == IF e < 0 THEN "-" ELSE "+"
             digits == CASE e \in {-100, 100} -> <<"1", "0", "0">>
                         [] e \in {-10, 10}   -> <<"1", "0">>
                         [] OTHER             -> <<"0", "1">>
  <2>1. sign \in Signs
    OBVIOUS
  <2>2. digits \in Seq(Signs)
    <3>1. <<"1", "0", "0">> \in Seq(Signs) /\ <<"1", "0">> \in Seq(Signs) /\ <<"0", "1">> \in Seq(Signs)
      OBVIOUS
    <3>2. ~(e \in {-100, 100} /\ e \in {-10, 10})
      OBVIOUS
    <3> HIDE DEF Signs
    <3>3. digits \in {<<"1", "0", "0">>, <<"1", "0">>, <<"0", "1">>}
      BY <3>2
    <3> HIDE DEF digits
    <3>4. QED
      BY <3>1, <3>3
  <2>3. ExponentText(e) = <<"e", sign>> \o digits
    BY DEF ExponentText
  <2>4. "e" \in Signs
    OBVIOUS
  <2> HIDE DEF sign, digits, Signs
  <2>5. <<"e", sign>> \in Seq(Signs)
    BY <2>1, <2>4
  <2>6. QED
    BY <2>2, <2>3, <2>5, ConcatProperties
<1>8. "." \in Plain /\ "0" \in Plain
  OBVIOUS
<1>9. CASE e < -4 \/ e >= Precision
  <2>1. FormatDouble(d, e) = (<<d[1], ".">> \o Tail(d)) \o ExponentText(e)
    <3>1. ~(e \in 0 .. Precision - 1)
      BY <1>1, <1>9
    <3>2. QED
      BY <1>9, <3>1 DEF FormatDouble
  <2> HIDE DEF Plain, Signs, Ok
  <2>2. <<d[1], ".">> \in Seq(Plain) /\ Len(<<d[1], ".">>) = 2
    BY <1>3, <1>8
  <2>3. /\ <<d[1], ".">> \o Tail(d) \in Seq(Plain)
        /\ Len(<<d[1], ".">> \o Tail(d)) = 2 + Len(Tail(d))
        /\ Len(Tail(d)) \in Nat
    BY <1>3, <2>2, ConcatProperties
  <2>4. Len(<<d[1], ".">> \o Tail(d)) >= 1
    BY <2>3
  <2>5. Ok(FormatDouble(d, e))
    BY <1>6, <1>7, <2>1, <2>3, <2>4
  <2>6. QED
    BY <2>5 DEF Ok
<1>10. CASE e \in 0 .. Precision - 1
  <2> DEFINE a == SubSeq(d, 1, e + 1)
             b == SubSeq(d, e + 2, Precision)
  <2>1. FormatDouble(d, e) = (a \o <<".">>) \o b
    <3>1. ~(e < -4 \/ e >= Precision)
      BY <1>1, <1>10
    <3>2. QED
      BY <1>10, <3>1 DEF FormatDouble
  <2> HIDE DEF Plain, Signs, Ok
  <2>2. a \in Seq(Plain) /\ b \in Seq(Plain)
    <3>1. \A i \in 1 .. Precision : d[i] \in Plain
      BY <1>2, <1>3
    <3>2. (\A i \in 1 .. e + 1 : d[i] \in Plain) /\ (\A i \in e + 2 .. Precision : d[i] \in Plain)
      BY <1>1, <1>10, <3>1
    <3>3. QED
      BY <1>1, <3>2, SubSeqProperties
  <2>3. <<".">> \in Seq(Plain) /\ Len(<<".">>) = 1
    BY <1>8
  <2> HIDE DEF a, b
  <2>4. a \o <<".">> \in Seq(Plain) /\ Len(a \o <<".">>) = Len(a) + 1 /\ Len(a) \in Nat
    BY <2>2, <2>3, ConcatProperties
  <2>5. /\ (a \o <<".">>) \o b \in Seq(Plain)
        /\ Len((a \o <<".">>) \o b) = Len(a) + 1 + Len(b) /\ Len(b) \in Nat
    BY <2>2, <2>4, ConcatProperties
  <2> DEFINE s == (a \o <<".">>) \o b
  <2>8. s \in Seq(Plain) /\ Len(s) >= 1
    BY <2>4, <2>5
  <2> HIDE DEF s
  <2>9. Ok(s)
    BY <1>5, <2>8
  <2>6. Ok(FormatDouble(d, e))
    BY <2>1, <2>9 DEF s
  <2>7. QED
    BY <2>6 DEF Ok
<1>11. CASE e \in -4 .. -1
  <2> DEFINE z == [k \in 1 .. -e - 1 |-> "0"]
             a == <<"0", ".">>
  <2>1. FormatDouble(d, e) = (a \o z) \o d
    <3>1. ~(e < -4 \/ e >= Precision) /\ ~(e \in 0 .. Precision - 1)
      BY <1>1, <1>11
    <3>2. QED
      BY <3>1 DEF FormatDouble
  <2> HIDE DEF Plain, Signs, Ok
  <2>2. z \in Seq(Plain)
    <3>1. -e - 1 \in Nat
      BY <1>11
    <3>2. QED
      BY <1>8, <3>1
  <2>3. a \in Seq(Plain) /\ Len(a) = 2
    BY <1>8
  <2> HIDE DEF a, z
  <2>0. d \in Seq(Plain) /\ Len(d) \in Nat /\ Len(z) \in Nat
    BY <1>3, <2>2
  <2>4. a \o z \in Seq(Plain) /\ Len(a \o z) = Len(a) + Len(z)
    BY <2>2, <2>3, ConcatProperties
  <2>5. /\ (a \o z) \o d \in Seq(Plain)
        /\ Len((a \o z) \o d) = Len(a \o z) + Len(d)
    BY <2>0, <2>4, ConcatProperties
  <2> DEFINE s == (a \o z) \o d
  <2>8. s \in Seq(Plain) /\ Len(s) >= 1
    BY <2>0, <2>3, <2>4, <2>5
  <2> HIDE DEF s
  <2>9. Ok(s)
    BY <1>5, <2>8
  <2>6. Ok(FormatDouble(d, e))
    BY <2>1, <2>9 DEF s
  <2>7. QED
    BY <2>6 DEF Ok
<1>12. QED
  BY <1>1, <1>9, <1>10, <1>11

\* Every double, however it is printed, is the same number once it is cut.
LEMMA DoublesKeep ==
  ASSUME NEW d \in [1 .. Precision -> DigitChar], NEW e \in Exponents
  PROVE  Number(valueToStringDouble(FormatDouble(d, e))) = Number(FormatDouble(d, e))
<1> DEFINE s == FormatDouble(d, e)
<1>1. /\ s \in Seq(NumberChar) /\ Len(s) >= 1
      /\ \A i, j \in 1 .. Len(s) : s[i] = "e" /\ s[j] = "." => j < i
  BY PointFirst
<1> HIDE DEF s
<1>2. Number(valueToStringDouble(s)) = Number(s)
  BY <1>1, CutKeeps
<1>3. QED
  BY <1>2 DEF s

-----------------------------------------------------------------------------
(* Strings. *)

\* A function whose value at k is the character at k before the value further
\* on.
Spells(f, W, M, N, ch, next) ==
  /\ f \in [1 .. M -> Seq(W)]
  /\ \A k \in 1 .. M : f[k] = IF k > N THEN <<>> ELSE <<ch[k]>> \o f[next[k]]

Ahead(next, N) == \A k \in 1 .. N : next[k] > k

\* A function that is told from its value at a later place, and is a text,
\* exists: of strings that are read or normalized from some character on.
LEMMA SpellingExists ==
  ASSUME NEW W, NEW M, NEW N, NEW ch, NEW next,
         M \in Nat, N \in Nat, N <= M, ch \in [1 .. N -> W],
         next \in [1 .. N -> 1 .. M], Ahead(next, N)
  PROVE  \E f : Spells(f, W, M, N, ch, next)
<1> DEFINE V == Seq(W)
           first == {n \in Nat : ~(M - n \in 1 .. N)}
           base == [n \in Nat |-> <<>>]
           before == [n \in Nat |-> IF M - n \in 1 .. N THEN M - next[M - n] ELSE 0]
           step == [n \in Nat |-> [v \in V |->
                     IF M - n \in 1 .. N THEN <<ch[M - n]>> \o v ELSE v]]
<1>1. first \in SUBSET Nat /\ base \in [Nat -> V]
  OBVIOUS
<1>2. before \in [Nat -> Nat] /\ Descends(before, first)
  <2>1. ASSUME NEW n \in Nat, M - n \in 1 .. N
        PROVE  M - next[M - n] \in Nat /\ M - next[M - n] < n
    <3> DEFINE k == M - n
    <3>1. k \in 1 .. N /\ n = M - k
      BY <2>1
    <3> HIDE DEF k
    <3>2. next[k] \in 1 .. M /\ next[k] > k
      BY <3>1 DEF Ahead
    <3>3. M - next[k] \in Nat /\ M - next[k] < n
      BY <3>1, <3>2
    <3>4. QED
      BY <3>3 DEF k
  <2>2. before \in [Nat -> Nat]
    BY <2>1
  <2>3. \A n \in Nat \ first : before[n] < n
    BY <2>1
  <2>4. QED
    BY <2>2, <2>3 DEF Descends
<1>3. step \in [Nat -> [V -> V]]
  <2>1. ASSUME NEW n \in Nat, NEW v \in V
        PROVE  (IF M - n \in 1 .. N THEN <<ch[M - n]>> \o v ELSE v) \in V
    <3>1. CASE M - n \in 1 .. N
      <4>1. ch[M - n] \in W
        BY <3>1
      <4>2. <<ch[M - n]>> \in Seq(W)
        BY <4>1
      <4>3. <<ch[M - n]>> \o v \in V
        BY <4>2, ConcatProperties
      <4>4. QED
        BY <3>1, <4>3
    <3>2. CASE ~(M - n \in 1 .. N)
      BY <3>2
    <3>3. QED
      BY <3>1, <3>2
  <2> HIDE DEF V
  <2>2. QED
    BY <2>1
<1>4. \E f : Recurs(f, V, first, base, before, step)
  <2> HIDE DEF V, first, base, before, step
  <2>1. QED
    BY <1>1, <1>2, <1>3, RecursionExists
<1>5. PICK g :
        /\ g \in [Nat -> V]
        /\ \A n \in Nat : g[n] = IF n \in first THEN base[n] ELSE step[n][g[before[n]]]
  BY <1>4 DEF Recurs
<1> DEFINE f == [k \in 1 .. M |-> g[M - k]]
<1>6. ASSUME NEW k \in 1 .. M
      PROVE  f[k] \in V /\ f[k] = IF k > N THEN <<>> ELSE <<ch[k]>> \o f[next[k]]
  <2> DEFINE n == M - k
  <2>1. n \in Nat /\ M - n = k /\ (k > N <=> ~(k \in 1 .. N))
    BY <1>1
  <2>2. f[k] = g[n] /\ g[n] \in V
    BY <1>5, <2>1
  <2> HIDE DEF n
  <2>3. CASE k > N
    <3>1. n \in first /\ base[n] = <<>>
      BY <2>1, <2>3
    <3>2. g[n] = <<>>
      BY <1>5, <2>1, <3>1
    <3>3. QED
      BY <2>2, <2>3, <3>2
  <2>4. CASE ~(k > N)
    <3>1. n \notin first /\ k \in 1 .. N
      BY <2>1, <2>4
    <3>2. before[n] = M - next[k] /\ next[k] \in 1 .. M /\ M - next[k] \in Nat
      BY <2>1, <3>1
    <3>3. f[next[k]] = g[before[n]] /\ g[before[n]] \in V
      BY <1>5, <3>2
    <3>4. g[n] = step[n][g[before[n]]]
      BY <1>5, <2>1, <3>1
    <3>5. step[n][g[before[n]]] = <<ch[k]>> \o g[before[n]]
      <4> DEFINE v == g[before[n]]
      <4>1. v \in V
        BY <3>3
      <4> HIDE DEF v, V
      <4>2. step[n][v] = <<ch[k]>> \o v
        BY <2>1, <3>1, <4>1
      <4>3. QED
        BY <4>2 DEF v
    <3> HIDE DEF f, step, before, first, base
    <3>6. QED
      BY <2>2, <2>4, <3>3, <3>4, <3>5
  <2>5. QED
    BY <2>3, <2>4
<1> HIDE DEF f
<1>7. f \in [1 .. M -> Seq(W)]
  BY <1>6 DEF f
<1>8. Spells(f, W, M, N, ch, next)
  BY <1>6, <1>7 DEF Spells
<1>9. QED
  BY <1>8

\* Sixteen digits, no two the same.
LEMMA HexDigits ==
  /\ \A d \in 0 .. 15 : HexDigit[d] \in {"0", "1", "2", "3", "4", "5", "6", "7",
                                         "8", "9", "A", "B", "C", "D", "E", "F"}
  /\ \A d, e \in 0 .. 15 : HexDigit[d] = HexDigit[e] => d = e
<1>1. /\ HexDigit[0] = "0" /\ HexDigit[1] = "1" /\ HexDigit[2] = "2"
      /\ HexDigit[3] = "3" /\ HexDigit[4] = "4" /\ HexDigit[5] = "5"
      /\ HexDigit[6] = "6" /\ HexDigit[7] = "7" /\ HexDigit[8] = "8"
      /\ HexDigit[9] = "9" /\ HexDigit[10] = "A" /\ HexDigit[11] = "B"
      /\ HexDigit[12] = "C" /\ HexDigit[13] = "D" /\ HexDigit[14] = "E"
      /\ HexDigit[15] = "F"
  BY DEF HexDigit
<1>2. \A d \in 0 .. 15 : d \in {0, 1, 2, 3, 4, 5, 6, 7, 8, 9, 10, 11, 12, 13, 14, 15}
  OBVIOUS
<1>3. ASSUME NEW d \in 0 .. 15
      PROVE  HexDigit[d] \in {"0", "1", "2", "3", "4", "5", "6", "7",
                              "8", "9", "A", "B", "C", "D", "E", "F"}
  BY <1>1, <1>2
<1>4. ASSUME NEW d \in 0 .. 15, NEW e \in 0 .. 15, HexDigit[d] = HexDigit[e]
      PROVE  d = e
  BY <1>1, <1>2, <1>4
<1>5. QED
  BY <1>3, <1>4

\* No two characters have the same letter, none has "u", and what escapes are
\* made of is no control character.
LEMMA EscapeFacts ==
  /\ "\\" \in DOMAIN Escape
  /\ \A c, d \in DOMAIN Escape : Escape[c] = Escape[d] => c = d
  /\ \A c \in DOMAIN Escape : Escape[c] # "u" /\ Escape[c] \in EscapeChar
  /\ "u" \in EscapeChar
  /\ \A c \in EscapeChar \cup {"\\"} : ~isControlCharacter(c)
  /\ \A c : isControlCharacter(c) /\ c \notin DOMAIN Escape <=> c \in Control
<1>1. /\ "\\" \in DOMAIN Escape
      /\ \A c, d \in DOMAIN Escape : Escape[c] = Escape[d] => c = d
      /\ \A c \in DOMAIN Escape : Escape[c] # "u"
  BY DEF Escape
<1>2. (\A c \in DOMAIN Escape : Escape[c] \in EscapeChar) /\ "u" \in EscapeChar
  BY DEF EscapeChar
<1>3. \A c \in DOMAIN Escape : Escape[c] \notin {"BS", "\f", "\n", "\r", "\t"}
  BY DEF Escape
<1>4. \A d \in 0 .. 15 : HexDigit[d] \notin {"BS", "\f", "\n", "\r", "\t"}
  <2>1. \A d \in 0 .. 15 : HexDigit[d] \in {"0", "1", "2", "3", "4", "5", "6", "7",
                                            "8", "9", "A", "B", "C", "D", "E", "F"}
    BY HexDigits
  <2>2. QED
    BY <2>1
<1>5. \A c \in EscapeChar \cup {"\\"} : c \notin {"BS", "\f", "\n", "\r", "\t"}
  BY <1>3, <1>4 DEF EscapeChar
<1>6. \A c \in EscapeChar \cup {"\\"} : c \notin Control
  BY <1>1, ToolAssumption
<1>7. {"BS", "\f", "\n", "\r", "\t"} \subseteq DOMAIN Escape
  BY DEF Escape
<1>8. \A c : c \in Control => c \notin DOMAIN Escape
  BY ToolAssumption
<1>9. \A c \in EscapeChar \cup {"\\"} : ~isControlCharacter(c)
  BY <1>5, <1>6 DEF isControlCharacter
<1>10. \A c : isControlCharacter(c) /\ c \notin DOMAIN Escape <=> c \in Control
  BY <1>7, <1>8 DEF isControlCharacter
<1>11. QED
  BY <1>1, <1>2, <1>9, <1>10

\* The code that four digits stand for is the one they were made from.
LEMMA HexadecimalReads ==
  ASSUME NEW n \in 1 .. 31
  PROVE  LET h == Hexadecimal(n)
         IN  /\ h \in Seq(EscapeChar) /\ Len(h) = 4
             /\ CodeOf(h[1], h[2], h[3], h[4]) = n
<1> DEFINE a == (n \div 4096) % 16
           b == (n \div 256) % 16
           c == (n \div 16) % 16
           d == n % 16
           h == Hexadecimal(n)
<1>1. a = 0 /\ b = 0 /\ c \in 0 .. 15 /\ d \in 0 .. 15 /\ n = c * 16 + d
  <2>1. n \div 4096 = 0 /\ n \div 256 = 0 /\ n \div 16 \in 0 .. 1
    BY SMT
  <2>2. n = (n \div 16) * 16 + d /\ d \in 0 .. 15
    BY SMT
  <2> DEFINE q == n \div 16
  <2>3. q % 16 = q
    <3>1. q \in 0 .. 1
      BY <2>1
    <3> HIDE DEF q
    <3>2. QED
      BY <3>1
  <2>4. 0 % 16 = 0
    BY SMT
  <2>5. a = 0 /\ b = 0 /\ c = n \div 16
    BY <2>1, <2>3, <2>4
  <2> HIDE DEF a, b, c, d, q
  <2>6. c \in 0 .. 15 /\ n = c * 16 + d
    BY <2>1, <2>2, <2>5
  <2>7. QED
    BY <2>2, <2>5, <2>6
<1> HIDE DEF a, b, c, d
<1>2. h = <<HexDigit[a], HexDigit[b], HexDigit[c], HexDigit[d]>>
  BY DEF Hexadecimal, a, b, c, d
<1> HIDE DEF h
<1>3. HexDigit[a] \in EscapeChar /\ HexDigit[b] \in EscapeChar
      /\ HexDigit[c] \in EscapeChar /\ HexDigit[d] \in EscapeChar
  <2>1. 0 \in 0 .. 15
    OBVIOUS
  <2>2. QED
    BY <1>1, <2>1 DEF EscapeChar
<1>4. h \in Seq(EscapeChar) /\ Len(h) = 4
      /\ h[1] = HexDigit[a] /\ h[2] = HexDigit[b]
      /\ h[3] = HexDigit[c] /\ h[4] = HexDigit[d]
  BY <1>2, <1>3
<1>5. \A v \in 0 .. 15 : HexValue(HexDigit[v]) = v
  BY HexDigits DEF HexValue
<1>6. HexValue(h[1]) = 0 /\ HexValue(h[2]) = 0 /\ HexValue(h[3]) = c /\ HexValue(h[4]) = d
  <2>1. 0 \in 0 .. 15
    OBVIOUS
  <2>2. QED
    BY <1>1, <1>4, <1>5, <2>1
<1>7. 0 * 4096 + 0 * 256 + c * 16 + d = n
  BY <1>1
<1>8. CodeOf(h[1], h[2], h[3], h[4]) = n
  BY <1>6, <1>7 DEF CodeOf
<1>9. QED
  BY <1>4, <1>8 DEF h

\* The character that has that code.
LEMMA CharReads ==
  ASSUME NEW c \in Control, NEW s, NEW k \in Nat,
         LET h == Hexadecimal(ControlCode[c])
         IN  s[k] = h[1] /\ s[k + 1] = h[2] /\ s[k + 2] = h[3] /\ s[k + 3] = h[4]
  PROVE  CharOfCode(s, k) = c
<1>1. ControlCode[c] \in 1 .. 31
  BY ToolAssumption
<1> DEFINE h == Hexadecimal(ControlCode[c])
<1>2. CodeOf(s[k], s[k + 1], s[k + 2], s[k + 3]) = ControlCode[c]
  <2>1. CodeOf(h[1], h[2], h[3], h[4]) = ControlCode[c]
    BY <1>1, HexadecimalReads
  <2>2. s[k] = h[1] /\ s[k + 1] = h[2] /\ s[k + 2] = h[3] /\ s[k + 3] = h[4]
    OBVIOUS
  <2> HIDE DEF h
  <2>3. QED
    BY <2>1, <2>2
<1>3. (CHOOSE d \in Control : ControlCode[d] = ControlCode[c]) = c
  BY ToolAssumption
<1>4. QED
  BY <1>2, <1>3 DEF CharOfCode

\* UnescapedFrom is the function its recursion describes.
LEMMA UnescapedUnfolds ==
  ASSUME NEW C, NEW s \in Seq(C), NEW k \in 1 .. Len(s) + 6
  PROVE  LET U == UnescapedFrom(s)
         IN  U[k] = IF k > Len(s) THEN <<>>
                    ELSE IF s[k] # "\\" THEN <<s[k]>> \o U[k + 1]
                    ELSE IF s[k + 1] = "u" THEN <<CharOfCode(s, k + 2)>> \o U[k + 6]
                    ELSE <<CHOOSE c \in DOMAIN Escape : Escape[c] = s[k + 1]>> \o U[k + 2]
<1> DEFINE N == Len(s)
           M == N + 6
           named(i) == CHOOSE c \in DOMAIN Escape : Escape[c] = s[i + 1]
           coded(i) == CharOfCode(s, i + 2)
           ch == [i \in 1 .. N |-> IF s[i] # "\\" THEN s[i]
                                   ELSE IF s[i + 1] = "u" THEN coded(i) ELSE named(i)]
           next == [i \in 1 .. N |-> IF s[i] # "\\" THEN i + 1
                                     ELSE IF s[i + 1] = "u" THEN i + 6 ELSE i + 2]
           W == {ch[i] : i \in 1 .. N}
           U == UnescapedFrom(s)
<1>1. N \in Nat /\ M \in Nat /\ N <= M
  OBVIOUS
<1> HIDE DEF N
<1>2. ch \in [1 .. N -> W]
  <2> HIDE DEF named, coded
  <2>1. QED
    OBVIOUS
<1>3. next \in [1 .. N -> 1 .. M] /\ Ahead(next, N)
  BY <1>1 DEF Ahead
<1>4. \E f : Spells(f, W, M, N, ch, next)
  <2> HIDE DEF W, M, ch, next
  <2>1. QED
    BY <1>1, <1>2, <1>3, SpellingExists
<1>5. PICK f :
        /\ f \in [1 .. M -> Seq(W)]
        /\ \A i \in 1 .. M : f[i] = IF i > N THEN <<>> ELSE <<ch[i]>> \o f[next[i]]
  BY <1>4 DEF Spells
<1> DEFINE Body(g, i) ==
             IF i > N THEN <<>>
             ELSE IF s[i] # "\\" THEN <<s[i]>> \o g[i + 1]
             ELSE IF s[i + 1] = "u" THEN <<coded(i)>> \o g[i + 6]
             ELSE <<named(i)>> \o g[i + 2]
<1>6. ASSUME NEW i \in 1 .. M
      PROVE  f[i] = Body(f, i)
  <2> HIDE DEF named, coded, W
  <2>1. CASE i > N
    BY <1>5, <2>1
  <2>2. CASE ~(i > N)
    <3>1. i \in 1 .. N
      BY <1>1, <2>2
    <3>2. f[i] = <<ch[i]>> \o f[next[i]]
      BY <1>5, <2>2
    <3>3. CASE s[i] # "\\"
      <4>1. ch[i] = s[i] /\ next[i] = i + 1
        BY <3>1, <3>3
      <4> HIDE DEF ch, next
      <4>2. QED
        BY <2>2, <3>2, <3>3, <4>1
    <3>4. CASE s[i] = "\\" /\ s[i + 1] = "u"
      <4>1. ch[i] = coded(i) /\ next[i] = i + 6
        BY <3>1, <3>4
      <4> HIDE DEF ch, next
      <4>2. QED
        BY <2>2, <3>2, <3>4, <4>1
    <3>5. CASE s[i] = "\\" /\ s[i + 1] # "u"
      <4>1. ch[i] = named(i) /\ next[i] = i + 2
        BY <3>1, <3>5
      <4> HIDE DEF ch, next
      <4>2. QED
        BY <2>2, <3>2, <3>5, <4>1
    <3>6. QED
      BY <3>3, <3>4, <3>5
  <2>3. QED
    BY <2>1, <2>2
<1>7. f = [i \in 1 .. M |-> Body(f, i)]
  <2> HIDE DEF Body, W
  <2>1. QED
    BY <1>5, <1>6
<1>8. U = [i \in 1 .. M |-> Body(U, i)]
  <2> HIDE DEF ch, next, W
  <2>1. \E g : g = [i \in 1 .. Len(s) + 6 |->
            IF i > Len(s) THEN <<>>
            ELSE IF s[i] # "\\" THEN <<s[i]>> \o g[i + 1]
            ELSE IF s[i + 1] = "u" THEN <<CharOfCode(s, i + 2)>> \o g[i + 6]
            ELSE <<CHOOSE c \in DOMAIN Escape : Escape[c] = s[i + 1]>> \o g[i + 2]]
    BY <1>7 DEF N
  <2>2. QED
    BY <2>1 DEF UnescapedFrom, N
<1> HIDE DEF U, ch, next, W, named, coded
<1>9. k \in 1 .. M
  BY DEF N
<1>10. U[k] = Body(U, k)
  <2> HIDE DEF Body
  <2>1. QED
    BY <1>8, <1>9
<1>11. QED
  BY <1>10 DEF U, N, named, coded

\* EscapedText is the function its recursion describes.
LEMMA EscapedUnfolds ==
  ASSUME NEW C, NEW value \in Seq(C)
  PROVE  LET E == EscapedText(value)
             W == C \cup {"\\"} \cup EscapeChar
         IN  /\ E[0] = <<>>
             /\ \A k \in 0 .. Len(value) : E[k] \in Seq(W)
             /\ \A k \in 1 .. Len(value) :
                  /\ E[k] = E[k - 1] \o Escaped(value[k])
                  /\ Escaped(value[k]) \in Seq(W)
<1> DEFINE N == Len(value)
           W == C \cup {"\\"} \cup EscapeChar
           V == Seq(W)
           step == [k \in 1 .. N |-> [v \in V |-> v \o Escaped(value[k])]]
           E == EscapedText(value)
<1>1. N \in Nat /\ \A k \in 1 .. N : value[k] \in C
  OBVIOUS
<1> HIDE DEF N
<1>2. ASSUME NEW c \in C
      PROVE  Escaped(c) \in Seq(W)
  <2>1. /\ c \in W /\ "\\" \in W /\ "u" \in W
        /\ c \in DOMAIN Escape => Escape[c] \in W
        /\ EscapeChar \subseteq W
    BY EscapeFacts
  <2> HIDE DEF W
  <2>2. CASE c \in DOMAIN Escape
    <3>1. Escaped(c) = <<"\\", Escape[c]>>
      BY <2>2 DEF Escaped
    <3>2. QED
      BY <2>1, <2>2, <3>1
  <2>3. CASE c \in Control
    <3> DEFINE h == Hexadecimal(ControlCode[c])
    <3>1. Escaped(c) = <<"\\", "u">> \o h
      <4>1. isControlCharacter(c) /\ c \notin DOMAIN Escape
        BY <2>3, EscapeFacts
      <4>2. QED
        BY <4>1 DEF Escaped
    <3>2. h \in Seq(EscapeChar)
      BY <2>3, HexadecimalReads, ToolAssumption
    <3>3. h \in Seq(W) /\ <<"\\", "u">> \in Seq(W)
      BY <2>1, <3>2, SeqWidens
    <3> HIDE DEF h
    <3>4. QED
      BY <3>1, <3>3, ConcatProperties
  <2>4. CASE c \notin Control /\ c \notin DOMAIN Escape
    <3>1. Escaped(c) = <<c>>
      BY <2>4, EscapeFacts DEF Escaped
    <3>2. QED
      BY <2>1, <3>1
  <2>5. QED
    BY <2>2, <2>3, <2>4
<1>3. \A k \in 1 .. N : Escaped(value[k]) \in V
  BY <1>1, <1>2
<1> HIDE DEF W
<1>4. step \in [1 .. N -> [V -> V]]
  <2>1. \A k \in 1 .. N, v \in V : v \o Escaped(value[k]) \in V
    BY <1>3, ConcatProperties
  <2> HIDE DEF V
  <2>2. QED
    BY <2>1
<1>5. <<>> \in V
  OBVIOUS
<1>6. PICK f : f \in [0 .. N -> V] /\ f[0] = <<>> /\ \A k \in 1 .. N : f[k] = f[k - 1] \o Escaped(value[k])
  <2> HIDE DEF V
  <2>1. PICK f : Folds(f, V, <<>>, N, step)
    <3> HIDE DEF step
    <3>1. QED
      BY <1>1, <1>4, <1>5, PrefixRecursion
  <2>2. f \in [0 .. N -> V] /\ f[0] = <<>>
    BY <2>1 DEF Folds
  <2>3. ASSUME NEW k \in 1 .. N
        PROVE  f[k] = f[k - 1] \o Escaped(value[k])
    <3>1. k - 1 \in 0 .. N
      BY <1>1
    <3>2. f[k - 1] \in V
      BY <2>2, <3>1
    <3>3. f[k] = step[k][f[k - 1]]
      BY <2>1 DEF Folds
    <3>4. QED
      BY <3>2, <3>3
  <2>4. QED
    BY <2>2, <2>3
<1>7. f = [k \in 0 .. N |-> IF k = 0 THEN <<>> ELSE f[k - 1] \o Escaped(value[k])]
  <2> HIDE DEF V, step
  <2>1. QED
    BY <1>1, <1>6
<1>8. E = [k \in 0 .. N |-> IF k = 0 THEN <<>> ELSE E[k - 1] \o Escaped(value[k])]
  BY <1>7 DEF EscapedText, N
<1> HIDE DEF E, V, step
<1>9. E[0] = <<>> /\ \A k \in 1 .. N : E[k] = E[k - 1] \o Escaped(value[k])
  <2>1. 0 \in 0 .. N /\ \A k \in 1 .. N : k \in 0 .. N /\ k # 0
    BY <1>1
  <2>2. E[0] = <<>>
    BY <1>8, <2>1
  <2>3. ASSUME NEW k \in 1 .. N
        PROVE  E[k] = E[k - 1] \o Escaped(value[k])
    BY <1>8, <2>1
  <2>4. QED
    BY <2>2, <2>3
<1> DEFINE T == {k \in Nat : k <= N => E[k] \in V}
<1>10. Nat \subseteq T
  <2>1. 0 \in T
    BY <1>5, <1>9
  <2>2. ASSUME NEW k \in Nat, k \in T
        PROVE  k + 1 \in T
    <3>1. SUFFICES ASSUME k + 1 <= N PROVE E[k + 1] \in V
      OBVIOUS
    <3>2. k + 1 \in 1 .. N /\ (k + 1) - 1 = k /\ E[k] \in V
      BY <1>1, <2>2, <3>1
    <3>3. E[k + 1] = E[k] \o Escaped(value[k + 1])
      BY <1>9, <3>2
    <3>4. QED
      BY <1>3, <3>2, <3>3, ConcatProperties DEF V
  <2> HIDE DEF T
  <2>3. QED
    BY <2>1, <2>2, SimpleInduction
<1>11. \A k \in 0 .. N : E[k] \in V
  BY <1>1, <1>10
<1>12. QED
  BY <1>3, <1>9, <1>11 DEF E, V, W, N

\* What a character is written as, and what it takes to read it.
LEMMA EscapedForms ==
  ASSUME NEW c
  PROVE  /\ c \in DOMAIN Escape => Escaped(c) = <<"\\", Escape[c]>>
         /\ c \in Control =>
              LET x == Escaped(c)
                  h == Hexadecimal(ControlCode[c])
              IN  /\ Len(x) = 6 /\ x[1] = "\\" /\ x[2] = "u"
                  /\ x[3] = h[1] /\ x[4] = h[2] /\ x[5] = h[3] /\ x[6] = h[4]
                  /\ \A i \in 1 .. 4 : h[i] \in EscapeChar
         /\ c \notin Control /\ c \notin DOMAIN Escape => Escaped(c) = <<c>>
<1>1. CASE c \in DOMAIN Escape
  <2>1. Escaped(c) = <<"\\", Escape[c]>>
    BY <1>1 DEF Escaped
  <2>2. QED
    BY <1>1, <2>1, EscapeFacts
<1>2. CASE c \in Control
  <2> DEFINE x == Escaped(c)
             h == Hexadecimal(ControlCode[c])
             b == <<"\\", "u">>
  <2>1. x = b \o h
    <3>1. isControlCharacter(c) /\ c \notin DOMAIN Escape
      BY <1>2, EscapeFacts
    <3>2. QED
      BY <3>1 DEF Escaped
  <2>2. h \in Seq(EscapeChar) /\ Len(h) = 4
    BY <1>2, HexadecimalReads, ToolAssumption
  <2> HIDE DEF x, h
  <2>3. \A i \in 1 .. 4 : h[i] \in EscapeChar
    BY <2>2
  <2> DEFINE V == EscapeChar \cup {"\\", "u"}
  <2>4. h \in Seq(V) /\ b \in Seq(V) /\ Len(b) = 2 /\ b[1] = "\\" /\ b[2] = "u"
    <3>1. b \in Seq(V) /\ Len(b) = 2 /\ b[1] = "\\" /\ b[2] = "u"
      OBVIOUS
    <3>2. EscapeChar \subseteq V
      OBVIOUS
    <3> HIDE DEF V
    <3>3. h \in Seq(V)
      BY <2>2, <3>2, SeqWidens
    <3>4. QED
      BY <3>1, <3>3
  <2> HIDE DEF b, V
  <2>5. /\ Len(x) = 2 + 4
        /\ \A i \in 1 .. 2 + 4 : x[i] = IF i <= 2 THEN b[i] ELSE h[i - 2]
    <3>1. /\ Len(b \o h) = Len(b) + Len(h)
          /\ \A i \in 1 .. Len(b) + Len(h) :
               (b \o h)[i] = IF i <= Len(b) THEN b[i] ELSE h[i - Len(b)]
      BY <2>4, ConcatProperties
    <3>2. QED
      BY <2>1, <2>2, <2>4, <3>1
  <2>6. /\ x[1] = b[1] /\ x[2] = b[2]
        /\ x[3] = h[1] /\ x[4] = h[2] /\ x[5] = h[3] /\ x[6] = h[4]
    BY <2>5
  <2>7. Len(x) = 6
    BY <2>5
  <2>8. QED
    BY <1>2, <2>3, <2>4, <2>6, <2>7, EscapeFacts DEF x, h
<1>3. CASE c \notin Control /\ c \notin DOMAIN Escape
  <2>1. Escaped(c) = <<c>>
    BY <1>3, EscapeFacts DEF Escaped
  <2>2. QED
    BY <1>3, <2>1
<1>4. QED
  BY <1>1, <1>2, <1>3

\* The first characters are written first.
LEMMA EscapedInPlace ==
  ASSUME NEW C, NEW value \in Seq(C), NEW k \in 1 .. Len(value)
  PROVE  LET E == EscapedText(value)
             n == Len(value)
             o == Len(E[k - 1])
             x == Escaped(value[k])
         IN  /\ o \in Nat /\ Len(x) \in Nat
             /\ Len(E[k]) = o + Len(x)
             /\ o + Len(x) <= Len(E[n])
             /\ \A i \in 1 .. Len(x) : E[n][o + i] = x[i]
<1> DEFINE E == EscapedText(value)
           n == Len(value)
           o == Len(E[k - 1])
           x == Escaped(value[k])
           W == C \cup {"\\"} \cup EscapeChar
<1>1. /\ E[0] = <<>>
      /\ \A j \in 0 .. n : E[j] \in Seq(W)
      /\ \A j \in 1 .. n : E[j] = E[j - 1] \o Escaped(value[j]) /\ Escaped(value[j]) \in Seq(W)
  BY EscapedUnfolds
<1>2. n \in Nat /\ k \in 1 .. n
  OBVIOUS
<1> HIDE DEF E, W, n, x
<1>3. ASSUME NEW j \in 1 .. n
      PROVE  /\ Len(E[j - 1]) \in Nat /\ Len(Escaped(value[j])) \in Nat
             /\ Len(E[j]) = Len(E[j - 1]) + Len(Escaped(value[j]))
             /\ \A i \in 1 .. Len(E[j - 1]) : E[j][i] = E[j - 1][i]
             /\ \A i \in 1 .. Len(Escaped(value[j])) :
                  E[j][Len(E[j - 1]) + i] = Escaped(value[j])[i]
  <2> DEFINE a == E[j - 1]
             b == Escaped(value[j])
  <2>1. j - 1 \in 0 .. n
    BY <1>2
  <2>2. a \in Seq(W) /\ b \in Seq(W) /\ E[j] = a \o b
    BY <1>1, <2>1
  <2> HIDE DEF a, b
  <2>3. /\ Len(a \o b) = Len(a) + Len(b)
        /\ \A i \in 1 .. Len(a) + Len(b) : (a \o b)[i] = IF i <= Len(a) THEN a[i] ELSE b[i - Len(a)]
    BY <2>2, ConcatProperties
  <2>4. Len(a) \in Nat /\ Len(b) \in Nat
    BY <2>2
  <2>5. \A i \in 1 .. Len(a) : E[j][i] = a[i]
    BY <2>2, <2>3, <2>4
  <2>6. ASSUME NEW i \in 1 .. Len(b)
        PROVE  E[j][Len(a) + i] = b[i]
    <3>1. /\ Len(a) + i \in 1 .. Len(a) + Len(b)
          /\ ~(Len(a) + i <= Len(a)) /\ (Len(a) + i) - Len(a) = i
      BY <2>4
    <3>2. QED
      BY <2>2, <2>3, <3>1
  <2>7. QED
    BY <2>2, <2>3, <2>4, <2>5, <2>6 DEF a, b
<1> DEFINE T == {m \in Nat : k + m <= n =>
                   /\ Len(E[k + m]) \in Nat /\ o + Len(x) <= Len(E[k + m])
                   /\ \A i \in 1 .. Len(x) : E[k + m][o + i] = x[i]}
<1>4. o \in Nat /\ Len(x) \in Nat /\ Len(E[k]) = o + Len(x)
      /\ \A i \in 1 .. Len(x) : E[k][o + i] = x[i]
  BY <1>2, <1>3 DEF x
<1> HIDE DEF o
<1>5. Nat \subseteq T
  <2>1. 0 \in T
    <3>1. k + 0 = k
      BY <1>2
    <3>2. o + Len(x) <= Len(E[k])
      BY <1>4
    <3> HIDE DEF x
    <3>3. QED
      BY <1>4, <3>1, <3>2
  <2>2. ASSUME NEW m \in Nat, m \in T
        PROVE  m + 1 \in T
    <3>1. SUFFICES ASSUME k + (m + 1) <= n
                   PROVE  /\ Len(E[k + (m + 1)]) \in Nat /\ o + Len(x) <= Len(E[k + (m + 1)])
                          /\ \A i \in 1 .. Len(x) : E[k + (m + 1)][o + i] = x[i]
      OBVIOUS
    <3> DEFINE j == k + (m + 1)
    <3>2. j \in 1 .. n /\ j - 1 = k + m /\ k + m <= n
      BY <1>2, <3>1
    <3>3. /\ Len(E[j - 1]) \in Nat /\ o + Len(x) <= Len(E[j - 1])
          /\ \A i \in 1 .. Len(x) : E[j - 1][o + i] = x[i]
      BY <2>2, <3>2
    <3> HIDE DEF j
    <3>4. /\ Len(E[j]) = Len(E[j - 1]) + Len(Escaped(value[j])) /\ Len(Escaped(value[j])) \in Nat
          /\ \A i \in 1 .. Len(E[j - 1]) : E[j][i] = E[j - 1][i]
      BY <1>3, <3>2
    <3>5. \A i \in 1 .. Len(x) : o + i \in 1 .. Len(E[j - 1])
      BY <1>4, <3>3
    <3>6. \A i \in 1 .. Len(x) : E[j][o + i] = x[i]
      BY <3>3, <3>4, <3>5
    <3>7. Len(E[j]) \in Nat /\ o + Len(x) <= Len(E[j])
      <4> DEFINE a == Len(E[j - 1])
                 b == Len(Escaped(value[j]))
                 l == o + Len(x)
      <4>1. a \in Nat /\ b \in Nat /\ l \in Nat /\ l <= a /\ Len(E[j]) = a + b
        BY <1>4, <3>3, <3>4
      <4> HIDE DEF a, b, l
      <4>2. Len(E[j]) \in Nat /\ l <= Len(E[j])
        BY <4>1
      <4>3. QED
        BY <4>2 DEF l
    <3>8. QED
      BY <3>6, <3>7 DEF j
  <2> HIDE DEF T
  <2>3. QED
    BY <2>1, <2>2, SimpleInduction
<1>6. n - k \in Nat /\ k + (n - k) = n
  BY <1>2
<1>7. o + Len(x) <= Len(E[n]) /\ \A i \in 1 .. Len(x) : E[n][o + i] = x[i]
  <2>0. n - k \in T
    <3> HIDE DEF T
    <3>1. QED
      BY <1>5, <1>6
  <2>1. n - k \in T /\ k + (n - k) <= n
    BY <1>2, <1>6, <2>0
  <2>2. QED
    BY <1>6, <2>1
<1>8. QED
  BY <1>4, <1>7 DEF E, n, o, x

\* What is written with escapes reads as what it was.
LEMMA EscapedReadsBack ==
  ASSUME NEW C, NEW value \in Seq(C)
  PROVE  Unescape(EscapedText(value)[Len(value)]) = value
<1> DEFINE E == EscapedText(value)
           n == Len(value)
           s == E[n]
           U == UnescapedFrom(s)
           W == C \cup {"\\"} \cup EscapeChar
           T == {m \in Nat : m <= n =>
                   U[Len(E[n - m]) + 1] = SubSeq(value, (n - m) + 1, n)}
<1>1. n \in Nat /\ \A j \in 1 .. n : value[j] \in C
  OBVIOUS
<1>2. E[0] = <<>> /\ \A j \in 0 .. n : E[j] \in Seq(W)
  BY EscapedUnfolds
<1>3. s \in Seq(W) /\ Len(s) \in Nat
  BY <1>1, <1>2
<1>4. ASSUME NEW k \in 1 .. Len(s) + 6
      PROVE  U[k] = IF k > Len(s) THEN <<>>
                    ELSE IF s[k] # "\\" THEN <<s[k]>> \o U[k + 1]
                    ELSE IF s[k + 1] = "u" THEN <<CharOfCode(s, k + 2)>> \o U[k + 6]
                    ELSE <<CHOOSE c \in DOMAIN Escape : Escape[c] = s[k + 1]>> \o U[k + 2]
  BY <1>3, UnescapedUnfolds
<1>5. ASSUME NEW k \in 1 .. n
      PROVE  /\ Len(E[k - 1]) \in Nat /\ Len(E[k]) \in Nat
             /\ U[Len(E[k - 1]) + 1] = <<value[k]>> \o U[Len(E[k]) + 1]
  <2> DEFINE o == Len(E[k - 1])
             c == value[k]
             x == Escaped(c)
  <2>1. /\ o \in Nat /\ Len(x) \in Nat
        /\ Len(E[k]) = o + Len(x)
        /\ o + Len(x) <= Len(s)
        /\ \A i \in 1 .. Len(x) : s[o + i] = x[i]
    BY EscapedInPlace
  <2> HIDE DEF E, s, U, W, o, c
  <2>2. CASE c \in DOMAIN Escape
    <3>1. x = <<"\\", Escape[c]>>
      BY <2>2, EscapedForms
    <3>2. Len(x) = 2 /\ x[1] = "\\" /\ x[2] = Escape[c]
      BY <3>1
    <3> HIDE DEF x
    <3>3. o + 1 \in 1 .. Len(s) + 6 /\ ~(o + 1 > Len(s)) /\ 1 \in 1 .. Len(x) /\ 2 \in 1 .. Len(x)
      BY <1>3, <2>1, <3>2
    <3>4. s[o + 1] = "\\" /\ s[o + 2] = Escape[c] /\ Escape[c] # "u"
      BY <2>1, <2>2, <3>2, <3>3, EscapeFacts
    <3>5. (o + 1) + 1 = o + 2 /\ (o + 1) + 2 = (o + 2) + 1 /\ Len(E[k]) = o + 2
      BY <2>1, <3>2
    <3>6. U[o + 1] = <<CHOOSE d \in DOMAIN Escape : Escape[d] = Escape[c]>> \o U[(o + 2) + 1]
      BY <1>4, <3>3, <3>4, <3>5
    <3>7. (CHOOSE d \in DOMAIN Escape : Escape[d] = Escape[c]) = c
      BY <2>2, EscapeFacts
    <3>8. U[o + 1] = <<c>> \o U[Len(E[k]) + 1]
      BY <3>5, <3>6, <3>7
    <3>9. o \in Nat /\ Len(E[k]) \in Nat
      BY <2>1, <3>5
    <3>10. QED
      BY <3>8, <3>9 DEF c, o
  <2>3. CASE c \in Control
    <3> DEFINE h == Hexadecimal(ControlCode[c])
    <3>1. /\ Len(x) = 6 /\ x[1] = "\\" /\ x[2] = "u"
          /\ x[3] = h[1] /\ x[4] = h[2] /\ x[5] = h[3] /\ x[6] = h[4]
      BY <2>3, EscapedForms
    <3> HIDE DEF x, h
    <3>2. /\ o + 1 \in 1 .. Len(s) + 6 /\ ~(o + 1 > Len(s))
          /\ 1 \in 1 .. Len(x) /\ 2 \in 1 .. Len(x) /\ 3 \in 1 .. Len(x)
          /\ 4 \in 1 .. Len(x) /\ 5 \in 1 .. Len(x) /\ 6 \in 1 .. Len(x)
      BY <1>3, <2>1, <3>1
    <3>3. s[o + 1] = "\\" /\ s[o + 2] = "u"
          /\ s[o + 3] = h[1] /\ s[o + 4] = h[2] /\ s[o + 5] = h[3] /\ s[o + 6] = h[4]
      BY <2>1, <3>1, <3>2
    <3>4. /\ (o + 1) + 1 = o + 2 /\ (o + 1) + 2 = o + 3 /\ (o + 1) + 6 = (o + 6) + 1
          /\ (o + 3) + 1 = o + 4 /\ (o + 3) + 2 = o + 5 /\ (o + 3) + 3 = o + 6
          /\ o + 3 \in Nat /\ Len(E[k]) = o + 6
      BY <2>1, <3>1
    <3>5. CharOfCode(s, o + 3) = c
      BY <2>3, <3>3, <3>4, CharReads DEF h
    <3>6. U[o + 1] = <<c>> \o U[(o + 6) + 1]
      BY <1>4, <3>2, <3>3, <3>4, <3>5
    <3>7. U[o + 1] = <<c>> \o U[Len(E[k]) + 1]
      BY <3>4, <3>6
    <3>8. o \in Nat /\ Len(E[k]) \in Nat
      BY <2>1, <3>4
    <3>9. QED
      BY <3>7, <3>8 DEF c, o
  <2>4. CASE c \notin Control /\ c \notin DOMAIN Escape
    <3>1. x = <<c>>
      BY <2>4, EscapedForms
    <3>2. Len(x) = 1 /\ x[1] = c
      BY <3>1
    <3> HIDE DEF x
    <3>3. o + 1 \in 1 .. Len(s) + 6 /\ ~(o + 1 > Len(s)) /\ 1 \in 1 .. Len(x)
      BY <1>3, <2>1, <3>2
    <3>4. s[o + 1] = c /\ c # "\\"
      BY <2>1, <2>4, <3>2, <3>3, EscapeFacts
    <3>5. Len(E[k]) = o + 1
      BY <2>1, <3>2
    <3>6. U[o + 1] = <<c>> \o U[(o + 1) + 1]
      BY <1>4, <3>3, <3>4
    <3>7. U[o + 1] = <<c>> \o U[Len(E[k]) + 1]
      BY <3>5, <3>6
    <3>8. o \in Nat /\ Len(E[k]) \in Nat
      BY <2>1, <3>5
    <3>9. QED
      BY <3>7, <3>8 DEF c, o
  <2>5. QED
    BY <2>2, <2>3, <2>4
<1> HIDE DEF E, U
<1>6. Nat \subseteq T
  <2>1. 0 \in T
    <3>1. n - 0 = n
      BY <1>1
    <3>2. Len(s) + 1 \in 1 .. Len(s) + 6 /\ Len(s) + 1 > Len(s)
      BY <1>3
    <3>3. U[Len(s) + 1] = <<>>
      BY <1>4, <3>2
    <3>4. SubSeq(value, n + 1, n) = <<>>
      BY <1>1, SubSeqEmpty
    <3>5. QED
      BY <3>1, <3>3, <3>4
  <2>2. ASSUME NEW m \in Nat, m \in T
        PROVE  m + 1 \in T
    <3>1. SUFFICES ASSUME m + 1 <= n
                   PROVE  U[Len(E[n - (m + 1)]) + 1] = SubSeq(value, (n - (m + 1)) + 1, n)
      OBVIOUS
    <3> DEFINE k == n - m
    <3>2. k \in 1 .. n /\ n - (m + 1) = k - 1 /\ (k - 1) + 1 = k /\ m <= n
      BY <1>1, <3>1
    <3>3. U[Len(E[k]) + 1] = SubSeq(value, k + 1, n)
      BY <2>2, <3>2
    <3> HIDE DEF k
    <3>4. U[Len(E[k - 1]) + 1] = <<value[k]>> \o SubSeq(value, k + 1, n)
      BY <1>5, <3>2, <3>3
    <3>5. <<value[k]>> \o SubSeq(value, k + 1, n) = SubSeq(value, k, n)
      <4> DEFINE a == SubSeq(value, k + 1, n)
                 b == SubSeq(value, k, n)
                 h == <<value[k]>>
      <4>1. value[k] \in C /\ k \in Int /\ n \in Int /\ k + 1 \in Int
        BY <1>1, <3>2
      <4>2. h \in Seq(C) /\ Len(h) = 1 /\ h[1] = value[k]
        BY <4>1
      <4>3. (\A i \in k .. n : value[i] \in C) /\ (\A i \in k + 1 .. n : value[i] \in C)
        BY <1>1, <3>2
      <4>4. /\ a \in Seq(C)
            /\ Len(a) = IF k + 1 <= n THEN n - (k + 1) + 1 ELSE 0
            /\ \A i \in 1 .. n - (k + 1) + 1 : a[i] = value[(k + 1) + i - 1]
        BY <4>1, <4>3, SubSeqProperties
      <4>5. /\ b \in Seq(C)
            /\ Len(b) = IF k <= n THEN n - k + 1 ELSE 0
            /\ \A i \in 1 .. n - k + 1 : b[i] = value[k + i - 1]
        BY <4>1, <4>3, SubSeqProperties
      <4> HIDE DEF a, b, h
      <4>6. /\ h \o a \in Seq(C) /\ Len(h \o a) = Len(h) + Len(a)
            /\ \A i \in 1 .. Len(h) + Len(a) : (h \o a)[i] = IF i <= Len(h) THEN h[i] ELSE a[i - Len(h)]
        BY <4>2, <4>4, ConcatProperties
      <4>7. Len(a) = n - k /\ Len(b) = n - k + 1
        BY <1>1, <3>2, <4>4, <4>5
      <4>8. ASSUME NEW i \in 1 .. n - k + 1
            PROVE  (h \o a)[i] = b[i]
        <5>1. b[i] = value[k + i - 1]
          BY <4>5
        <5>2. (h \o a)[i] = IF i <= 1 THEN h[i] ELSE a[i - 1]
          BY <1>1, <3>2, <4>2, <4>6, <4>7
        <5>3. CASE i = 1
          <6>1. k + i - 1 = k
            BY <3>2, <5>3
          <6>2. QED
            BY <4>2, <5>1, <5>2, <5>3, <6>1
        <5>4. CASE i > 1
          <6>1. i - 1 \in 1 .. n - (k + 1) + 1 /\ (k + 1) + (i - 1) - 1 = k + i - 1 /\ ~(i <= 1)
            BY <1>1, <3>2, <5>4
          <6>2. a[i - 1] = value[k + i - 1]
            BY <4>4, <6>1
          <6>3. (h \o a)[i] = a[i - 1]
            BY <5>2, <6>1
          <6>4. QED
            BY <5>1, <6>2, <6>3
        <5>5. i = 1 \/ i > 1
          OBVIOUS
        <5>6. QED
          BY <5>3, <5>4, <5>5
      <4>9. Len(h \o a) = Len(b) /\ \A i \in 1 .. Len(h \o a) : (h \o a)[i] = b[i]
        BY <1>1, <3>2, <4>2, <4>6, <4>7, <4>8
      <4>10. h \o a = b
        BY <4>5, <4>6, <4>9, SeqEqual
      <4>11. QED
        BY <4>10 DEF a, b, h
    <3>6. QED
      BY <3>2, <3>4, <3>5
  <2> HIDE DEF T
  <2>3. QED
    BY <2>1, <2>2, SimpleInduction
<1>7. U[Len(E[0]) + 1] = SubSeq(value, 1, n)
  <2>1. n \in T /\ n <= n /\ n - n = 0 /\ 0 + 1 = 1
    BY <1>1, <1>6
  <2>2. QED
    BY <2>1
<1>8. Len(E[0]) + 1 = 1
  BY <1>2
<1>9. SubSeq(value, 1, n) = value
  OBVIOUS
<1>10. QED
  BY <1>7, <1>8, <1>9 DEF Unescape, U, E

\* Escapes leave no control character.
LEMMA ControlsEscaped ==
  ASSUME NEW C, NEW value \in Seq(C), NEW j \in 1 .. Len(EscapedText(value)[Len(value)])
  PROVE  ~isControlCharacter(EscapedText(value)[Len(value)][j])
<1> DEFINE E == EscapedText(value)
           n == Len(value)
           W == C \cup {"\\"} \cup EscapeChar
           Clear(s) == \A i \in 1 .. Len(s) : ~isControlCharacter(s[i])
           T == {k \in Nat : k <= n => Clear(E[k])}
<1>1. /\ E[0] = <<>>
      /\ \A k \in 0 .. n : E[k] \in Seq(W)
      /\ \A k \in 1 .. n : E[k] = E[k - 1] \o Escaped(value[k]) /\ Escaped(value[k]) \in Seq(W)
  BY EscapedUnfolds
<1>2. n \in Nat
  OBVIOUS
<1> HIDE DEF E, W, n
<1>3. ASSUME NEW c
      PROVE  Clear(Escaped(c))
  <2>1. CASE c \in DOMAIN Escape
    <3>1. Escaped(c) = <<"\\", Escape[c]>>
      BY <2>1, EscapedForms
    <3>2. ~isControlCharacter("\\") /\ ~isControlCharacter(Escape[c])
      BY <2>1, EscapeFacts
    <3> DEFINE x == Escaped(c)
    <3>3. Len(x) = 2 /\ x[1] = "\\" /\ x[2] = Escape[c]
      BY <3>1
    <3> HIDE DEF x
    <3>4. \A i \in 1 .. Len(x) : i = 1 \/ i = 2
      BY <3>3
    <3>5. \A i \in 1 .. Len(x) : ~isControlCharacter(x[i])
      BY <3>2, <3>3, <3>4
    <3>6. QED
      BY <3>5 DEF x
  <2>2. CASE c \in Control
    <3> DEFINE x == Escaped(c)
               h == Hexadecimal(ControlCode[c])
    <3>1. /\ Len(x) = 6 /\ x[1] = "\\" /\ x[2] = "u"
          /\ x[3] = h[1] /\ x[4] = h[2] /\ x[5] = h[3] /\ x[6] = h[4]
          /\ \A i \in 1 .. 4 : h[i] \in EscapeChar
      BY <2>2, EscapedForms
    <3> HIDE DEF x, h
    <3>2. /\ h[1] \in EscapeChar /\ h[2] \in EscapeChar
          /\ h[3] \in EscapeChar /\ h[4] \in EscapeChar
      BY <3>1
    <3>3. \A i \in 1 .. Len(x) : i = 1 \/ i = 2 \/ i = 3 \/ i = 4 \/ i = 5 \/ i = 6
      BY <3>1
    <3>4. \A i \in 1 .. Len(x) : x[i] \in EscapeChar \cup {"\\"}
      BY <3>1, <3>2, <3>3, EscapeFacts
    <3>5. \A i \in 1 .. Len(x) : ~isControlCharacter(x[i])
      BY <3>4, EscapeFacts
    <3>6. QED
      BY <3>5 DEF x
  <2>3. CASE c \notin Control /\ c \notin DOMAIN Escape
    <3>1. Escaped(c) = <<c>>
      BY <2>3, EscapedForms
    <3> DEFINE x == Escaped(c)
    <3>2. Len(x) = 1 /\ x[1] = c
      BY <3>1
    <3> HIDE DEF x
    <3>3. \A i \in 1 .. Len(x) : i = 1
      BY <3>2
    <3>4. ~isControlCharacter(c)
      BY <2>3, EscapeFacts
    <3>5. \A i \in 1 .. Len(x) : ~isControlCharacter(x[i])
      BY <3>2, <3>3, <3>4
    <3>6. QED
      BY <3>5 DEF x
  <2>4. QED
    BY <2>1, <2>2, <2>3
<1>4. ASSUME NEW a \in Seq(W), NEW b \in Seq(W), Clear(a), Clear(b)
      PROVE  Clear(a \o b)
  <2> DEFINE s == a \o b
  <2>1. /\ Len(s) = Len(a) + Len(b)
        /\ \A i \in 1 .. Len(a) + Len(b) : s[i] = IF i <= Len(a) THEN a[i] ELSE b[i - Len(a)]
    BY ConcatProperties
  <2>2. Len(a) \in Nat /\ Len(b) \in Nat
    OBVIOUS
  <2> HIDE DEF s
  <2>3. ASSUME NEW i \in 1 .. Len(s)
        PROVE  ~isControlCharacter(s[i])
    <3>1. CASE i <= Len(a)
      <4>1. i \in 1 .. Len(a) /\ s[i] = a[i]
        BY <2>1, <2>2, <3>1
      <4>2. QED
        BY <1>4, <4>1
    <3>2. CASE i > Len(a)
      <4>1. i - Len(a) \in 1 .. Len(b) /\ s[i] = b[i - Len(a)]
        BY <2>1, <2>2, <3>2
      <4>2. QED
        BY <1>4, <4>1
    <3>3. i \in Int /\ Len(a) \in Int
      BY <2>2
    <3>4. QED
      BY <3>1, <3>2, <3>3
  <2>4. QED
    BY <2>3 DEF s
<1> HIDE DEF Clear
<1>5. Nat \subseteq T
  <2>1. 0 \in T
    <3>1. Clear(<<>>)
      BY DEF Clear
    <3>2. QED
      BY <1>1, <3>1
  <2>2. ASSUME NEW k \in Nat, k \in T
        PROVE  k + 1 \in T
    <3>1. SUFFICES ASSUME k + 1 <= n PROVE Clear(E[k + 1])
      OBVIOUS
    <3>2. k + 1 \in 1 .. n /\ (k + 1) - 1 = k /\ k \in 0 .. n /\ k <= n
      BY <1>2, <3>1
    <3>3. E[k + 1] = E[k] \o Escaped(value[k + 1]) /\ Escaped(value[k + 1]) \in Seq(W)
      BY <1>1, <3>2
    <3>4. E[k] \in Seq(W) /\ Clear(E[k])
      BY <1>1, <2>2, <3>2
    <3>5. QED
      BY <1>3, <1>4, <3>3, <3>4
  <2> HIDE DEF T
  <2>3. QED
    BY <2>1, <2>2, SimpleInduction
<1>6. n \in T /\ n <= n
  <2> HIDE DEF T
  <2>1. QED
    BY <1>2, <1>5
<1>7. Clear(E[n])
  BY <1>6
<1>8. QED
  BY <1>7 DEF Clear, E, n

\* Characters that need no escape are written as they are.
LEMMA PlainStays ==
  ASSUME NEW C, NEW value \in Seq(C),
         \A k \in 1 .. Len(value) : value[k] \notin DOMAIN Escape /\ ~isControlCharacter(value[k])
  PROVE  EscapedText(value)[Len(value)] = value
<1> DEFINE E == EscapedText(value)
           n == Len(value)
           T == {k \in Nat : k <= n => E[k] = SubSeq(value, 1, k)}
<1>1. E[0] = <<>> /\ \A k \in 1 .. n : E[k] = E[k - 1] \o Escaped(value[k])
  BY EscapedUnfolds
<1>2. n \in Nat /\ \A k \in 1 .. n : value[k] \in C /\ Escaped(value[k]) = <<value[k]>>
  <2>1. \A k \in 1 .. n : value[k] \notin Control /\ value[k] \notin DOMAIN Escape
    BY EscapeFacts
  <2>2. \A k \in 1 .. n : Escaped(value[k]) = <<value[k]>>
    BY <2>1, EscapedForms
  <2>3. QED
    BY <2>2
<1> HIDE DEF E, n
<1>3. Nat \subseteq T
  <2>1. 0 \in T
    <3>1. SubSeq(value, 1, 0) = <<>>
      BY SubSeqEmpty
    <3>2. QED
      BY <1>1, <3>1
  <2>2. ASSUME NEW k \in Nat, k \in T
        PROVE  k + 1 \in T
    <3>1. SUFFICES ASSUME k + 1 <= n PROVE E[k + 1] = SubSeq(value, 1, k + 1)
      OBVIOUS
    <3> DEFINE a == SubSeq(value, 1, k)
               b == SubSeq(value, 1, k + 1)
               h == <<value[k + 1]>>
    <3>2. k + 1 \in 1 .. n /\ (k + 1) - 1 = k /\ k <= n
      BY <1>2, <3>1
    <3>3. E[k + 1] = a \o h
      BY <1>1, <1>2, <2>2, <3>2
    <3>4. \A i \in 1 .. k + 1 : value[i] \in C
      BY <1>2, <3>2
    <3>5. a \in Seq(C) /\ Len(a) = k /\ \A i \in 1 .. k : a[i] = value[i]
      <4>1. \A i \in 1 .. k : value[i] \in C
        BY <3>4
      <4>2. /\ a \in Seq(C)
            /\ Len(a) = IF 1 <= k THEN k - 1 + 1 ELSE 0
            /\ \A i \in 1 .. k - 1 + 1 : a[i] = value[1 + i - 1]
        BY <4>1, SubSeqProperties
      <4> HIDE DEF a
      <4>3. QED
        BY <4>2
    <3>6. b \in Seq(C) /\ Len(b) = k + 1 /\ \A i \in 1 .. k + 1 : b[i] = value[i]
      <4>1. /\ b \in Seq(C)
            /\ Len(b) = IF 1 <= k + 1 THEN (k + 1) - 1 + 1 ELSE 0
            /\ \A i \in 1 .. (k + 1) - 1 + 1 : b[i] = value[1 + i - 1]
        BY <3>4, SubSeqProperties
      <4> HIDE DEF b
      <4>2. QED
        BY <4>1
    <3>7. h \in Seq(C) /\ Len(h) = 1 /\ h[1] = value[k + 1]
      BY <1>2, <3>2
    <3> HIDE DEF a, b, h
    <3>8. /\ a \o h \in Seq(C) /\ Len(a \o h) = Len(a) + Len(h)
          /\ \A i \in 1 .. Len(a) + Len(h) : (a \o h)[i] = IF i <= Len(a) THEN a[i] ELSE h[i - Len(a)]
      BY <3>5, <3>7, ConcatProperties
    <3>9. Len(a \o h) = Len(b)
      BY <3>5, <3>6, <3>7, <3>8
    <3>10. ASSUME NEW i \in 1 .. k + 1
           PROVE  (a \o h)[i] = b[i]
      <4>0. (a \o h)[i] = IF i <= k THEN a[i] ELSE h[i - k]
        BY <3>5, <3>7, <3>8
      <4>1. CASE i <= k
        <5>1. i \in 1 .. k
          BY <4>1
        <5>2. QED
          BY <3>5, <3>6, <4>0, <4>1, <5>1
      <4>2. CASE i = k + 1
        <5>1. ~(i <= k) /\ i - k = 1
          BY <4>2
        <5>2. QED
          BY <3>6, <3>7, <4>0, <4>2, <5>1
      <4>3. i <= k \/ i = k + 1
        OBVIOUS
      <4>4. QED
        BY <4>1, <4>2, <4>3
    <3>11. a \o h = b
      <4>1. \A i \in 1 .. Len(a \o h) : (a \o h)[i] = b[i]
        BY <3>6, <3>9, <3>10
      <4>2. QED
        BY <3>6, <3>8, <3>9, <4>1, SeqEqual
    <3>12. QED
      BY <3>3, <3>11 DEF b
  <2> HIDE DEF T
  <2>3. QED
    BY <2>1, <2>2, SimpleInduction
<1>4. n \in T /\ n <= n
  <2> HIDE DEF T
  <2>1. QED
    BY <1>2, <1>3
<1>5. E[n] = SubSeq(value, 1, n)
  BY <1>4
<1>6. SubSeq(value, 1, Len(value)) = value
  OBVIOUS
<1>7. QED
  BY <1>5, <1>6 DEF E, n

\* What stands between the quotes.
LEMMA Unquoted ==
  ASSUME NEW W, NEW b \in Seq(W), NEW a \in W
  PROVE  LET q == <<a>> \o b \o <<a>>
         IN  SubSeq(q, 2, Len(q) - 1) = b
<1> DEFINE h == <<a>>
           x == h \o b
           q == x \o h
           m == Len(b)
           r == SubSeq(q, 2, Len(q) - 1)
<1>1. h \in Seq(W) /\ Len(h) = 1 /\ m \in Nat
  OBVIOUS
<1> HIDE DEF h
<1>2. /\ x \in Seq(W) /\ Len(x) = 1 + m
      /\ \A i \in 1 .. 1 + m : x[i] = IF i <= 1 THEN h[i] ELSE b[i - 1]
  <2>1. /\ x \in Seq(W) /\ Len(x) = Len(h) + Len(b)
        /\ \A i \in 1 .. Len(h) + Len(b) : x[i] = IF i <= Len(h) THEN h[i] ELSE b[i - Len(h)]
    BY <1>1, ConcatProperties
  <2> HIDE DEF x
  <2>2. QED
    BY <1>1, <2>1
<1> HIDE DEF x, m
<1>3. /\ q \in Seq(W) /\ Len(q) = (1 + m) + 1
      /\ \A i \in 1 .. (1 + m) + 1 : q[i] = IF i <= 1 + m THEN x[i] ELSE h[i - (1 + m)]
  <2>1. /\ q \in Seq(W) /\ Len(q) = Len(x) + Len(h)
        /\ \A i \in 1 .. Len(x) + Len(h) : q[i] = IF i <= Len(x) THEN x[i] ELSE h[i - Len(x)]
    BY <1>1, <1>2, ConcatProperties
  <2> HIDE DEF q
  <2>2. QED
    BY <1>1, <1>2, <2>1
<1> HIDE DEF q
<1>4. Len(q) - 1 = m + 1 /\ m + 1 \in Int
  BY <1>1, <1>3
<1>5. \A i \in 2 .. m + 1 : q[i] \in W
  <2>1. \A i \in 2 .. m + 1 : i \in 1 .. Len(q)
    BY <1>1, <1>3
  <2>2. QED
    BY <1>3, <2>1
<1>6. /\ SubSeq(q, 2, m + 1) \in Seq(W)
      /\ Len(SubSeq(q, 2, m + 1)) = IF 2 <= m + 1 THEN (m + 1) - 2 + 1 ELSE 0
      /\ \A i \in 1 .. (m + 1) - 2 + 1 : SubSeq(q, 2, m + 1)[i] = q[2 + i - 1]
  BY <1>4, <1>5, SubSeqProperties
<1>7. r = SubSeq(q, 2, m + 1)
  BY <1>4
<1> HIDE DEF r
<1>8. r \in Seq(W) /\ Len(r) = m /\ \A i \in 1 .. m : r[i] = q[2 + i - 1]
  BY <1>1, <1>6, <1>7
<1>9. ASSUME NEW i \in 1 .. m
      PROVE  r[i] = b[i]
  <2>1. /\ 2 + i - 1 = i + 1 /\ i + 1 \in 1 .. (1 + m) + 1 /\ i + 1 <= 1 + m
        /\ i + 1 \in 1 .. 1 + m /\ ~(i + 1 <= 1) /\ (i + 1) - 1 = i
    BY <1>1
  <2>2. r[i] = q[i + 1]
    BY <1>8, <2>1
  <2>3. q[i + 1] = x[i + 1]
    BY <1>3, <2>1
  <2>4. x[i + 1] = b[i]
    BY <1>2, <2>1
  <2>5. QED
    BY <2>2, <2>3, <2>4
<1>10. r = b
  <2>1. Len(r) = Len(b)
    BY <1>8 DEF m
  <2>2. \A i \in 1 .. Len(r) : r[i] = b[i]
    BY <1>8, <1>9
  <2>3. QED
    BY <1>8, <2>1, <2>2, SeqEqual
<1>11. QED
  BY <1>10 DEF r, q, x, h

\* A quoted string reads as the string and holds no control character.
LEMMA QuotedReads ==
  ASSUME NEW C, NEW value \in Seq(C)
  PROVE  LET q == valueToQuotedString(value)
             body == SubSeq(q, 2, Len(q) - 1)
         IN  /\ Unescape(body) = value
             /\ \A k \in 1 .. Len(body) : ~isControlCharacter(body[k])
<1> DEFINE text == EscapedText(value)[Len(value)]
           q == valueToQuotedString(value)
           W == C \cup {"\\"} \cup EscapeChar \cup {"\""}
<1>1. q = <<"\"">> \o text \o <<"\"">>
  <2> DEFINE plain == /\ \A k \in 1 .. Len(value) : value[k] \notin DOMAIN Escape
                      /\ ~containsControlCharacter(value)
  <2>1. CASE plain
    <3>1. \A k \in 1 .. Len(value) : value[k] \notin DOMAIN Escape /\ ~isControlCharacter(value[k])
      BY <2>1 DEF containsControlCharacter
    <3>2. text = value
      BY <3>1, PlainStays
    <3>3. q = <<"\"">> \o value \o <<"\"">>
      BY <2>1 DEF valueToQuotedString
    <3>4. QED
      BY <3>2, <3>3
  <2>2. CASE ~plain
    BY <2>2 DEF valueToQuotedString
  <2>3. QED
    BY <2>1, <2>2
<1>2. text \in Seq(W) /\ "\"" \in W
  <2> DEFINE W0 == C \cup {"\\"} \cup EscapeChar
  <2>1. Len(value) \in 0 .. Len(value)
    OBVIOUS
  <2>2. text \in Seq(W0)
    BY <2>1, EscapedUnfolds
  <2>3. W0 \subseteq W
    OBVIOUS
  <2>4. "\"" \in W
    OBVIOUS
  <2> HIDE DEF W0, W, text
  <2>5. QED
    BY <2>2, <2>3, <2>4, SeqWidens
<1> HIDE DEF text, W, q
<1>3. SubSeq(q, 2, Len(q) - 1) = text
  BY <1>1, <1>2, Unquoted
<1>4. Unescape(text) = value
  BY EscapedReadsBack DEF text
<1>5. \A k \in 1 .. Len(text) : ~isControlCharacter(text[k])
  BY ControlsEscaped DEF text
<1>6. QED
  BY <1>3, <1>4, <1>5 DEF q

-----------------------------------------------------------------------------
(* Comments. *)

\* NormalizedFrom is the function its recursion describes.
LEMMA NormalizedUnfolds ==
  ASSUME NEW C, NEW text \in Seq(C)
  PROVE  LET F == NormalizedFrom(text)
             N == Len(text)
         IN  /\ \A k \in 1 .. N + 1 : F[k] \in Seq(C \cup {"\n"})
             /\ F[N + 1] = <<>>
             /\ \A k \in 1 .. N :
                  /\ text[k] = "\r" /\ k < N /\ text[k + 1] = "\n" =>
                       F[k] = <<"\n">> \o F[k + 2]
                  /\ text[k] = "\r" /\ ~(k < N /\ text[k + 1] = "\n") =>
                       F[k] = <<"\n">> \o F[k + 1]
                  /\ text[k] # "\r" => F[k] = <<text[k]>> \o F[k + 1]
<1> DEFINE N == Len(text)
           M == N + 1
           W == C \cup {"\n"}
           ch == [i \in 1 .. N |-> IF text[i] = "\r" THEN "\n" ELSE text[i]]
           next == [i \in 1 .. N |->
                     IF text[i] = "\r" /\ i < N /\ text[i + 1] = "\n" THEN i + 2 ELSE i + 1]
           F == NormalizedFrom(text)
           Body(g, i) == IF i > N THEN <<>>
                         ELSE IF text[i] = "\r"
                         THEN <<"\n">> \o g[IF i < N /\ text[i + 1] = "\n"
                                            THEN i + 2 ELSE i + 1]
                         ELSE <<text[i]>> \o g[i + 1]
<1>1. N \in Nat /\ M \in Nat /\ N <= M /\ \A i \in 1 .. N : text[i] \in C
  OBVIOUS
<1> HIDE DEF N
<1>2. ch \in [1 .. N -> W]
  BY <1>1
<1>3. next \in [1 .. N -> 1 .. M] /\ Ahead(next, N)
  BY <1>1 DEF Ahead
<1> HIDE DEF W
<1>4. \E f : Spells(f, W, M, N, ch, next)
  <2> HIDE DEF M, ch, next
  <2>1. QED
    BY <1>1, <1>2, <1>3, SpellingExists
<1>5. PICK f :
        /\ f \in [1 .. M -> Seq(W)]
        /\ \A i \in 1 .. M : f[i] = IF i > N THEN <<>> ELSE <<ch[i]>> \o f[next[i]]
  BY <1>4 DEF Spells
<1>6. ASSUME NEW i \in 1 .. M
      PROVE  f[i] = Body(f, i)
  <2>1. CASE i > N
    BY <1>5, <2>1
  <2>2. CASE ~(i > N)
    <3>1. i \in 1 .. N
      BY <1>1, <2>2
    <3>2. f[i] = <<ch[i]>> \o f[next[i]]
      BY <1>5, <2>2
    <3>3. CASE text[i] # "\r"
      <4>1. ch[i] = text[i] /\ next[i] = i + 1
        BY <3>1, <3>3
      <4> HIDE DEF ch, next
      <4>2. QED
        BY <2>2, <3>2, <3>3, <4>1
    <3>4. CASE text[i] = "\r" /\ i < N /\ text[i + 1] = "\n"
      <4>1. ch[i] = "\n" /\ next[i] = i + 2
        BY <3>1, <3>4
      <4> HIDE DEF ch, next
      <4>2. QED
        BY <2>2, <3>2, <3>4, <4>1
    <3>5. CASE text[i] = "\r" /\ ~(i < N /\ text[i + 1] = "\n")
      <4>1. ch[i] = "\n" /\ next[i] = i + 1
        BY <3>1, <3>5
      <4> HIDE DEF ch, next
      <4>2. QED
        BY <2>2, <3>2, <3>5, <4>1
    <3>6. QED
      BY <3>3, <3>4, <3>5
  <2>3. QED
    BY <2>1, <2>2
<1>7. f = [i \in 1 .. M |-> Body(f, i)]
  <2> HIDE DEF Body
  <2>1. QED
    BY <1>5, <1>6
<1>8. F = [i \in 1 .. M |-> Body(F, i)]
  <2> HIDE DEF ch, next
  <2>1. \E g : g = [i \in 1 .. Len(text) + 1 |->
            IF i > Len(text) THEN <<>>
            ELSE IF text[i] = "\r"
            THEN <<"\n">> \o g[IF i < Len(text) /\ text[i + 1] = "\n" THEN i + 2 ELSE i + 1]
            ELSE <<text[i]>> \o g[i + 1]]
    BY <1>7 DEF N
  <2>2. QED
    BY <2>1 DEF NormalizedFrom, N
<1> HIDE DEF F
<1>9. \A i \in 1 .. M : F[i] = Body(F, i)
  <2> HIDE DEF Body, ch, next
  <2>1. QED
    BY <1>8
<1>10. F[N + 1] = <<>>
  <2>1. N + 1 \in 1 .. M /\ N + 1 > N
    BY <1>1
  <2> HIDE DEF ch, next
  <2>2. QED
    BY <1>9, <2>1
<1>11. ASSUME NEW k \in 1 .. N
       PROVE  F[k] = <<ch[k]>> \o F[next[k]]
  <2>1. k \in 1 .. M /\ ~(k > N)
    BY <1>1
  <2>2. F[k] = Body(F, k)
    BY <1>9, <2>1
  <2>3. CASE text[k] # "\r"
    <3>1. ch[k] = text[k] /\ next[k] = k + 1
      BY <2>3
    <3> HIDE DEF ch, next
    <3>2. QED
      BY <2>1, <2>2, <2>3, <3>1
  <2>4. CASE text[k] = "\r" /\ k < N /\ text[k + 1] = "\n"
    <3>1. ch[k] = "\n" /\ next[k] = k + 2
      BY <2>4
    <3> HIDE DEF ch, next
    <3>2. QED
      BY <2>1, <2>2, <2>4, <3>1
  <2>5. CASE text[k] = "\r" /\ ~(k < N /\ text[k + 1] = "\n")
    <3>1. ch[k] = "\n" /\ next[k] = k + 1
      BY <2>5
    <3> HIDE DEF ch, next
    <3>2. QED
      BY <2>1, <2>2, <2>5, <3>1
  <2>6. QED
    BY <2>3, <2>4, <2>5
<1>12. \A k \in 1 .. M : F[k] \in Seq(W)
  <2> DEFINE T == {m \in Nat : M - m \in 1 .. M => F[M - m] \in Seq(W)}
  <2>1. ASSUME NEW m \in Nat, \A l \in Nat : l < m => l \in T
        PROVE  m \in T
    <3>1. SUFFICES ASSUME M - m \in 1 .. M PROVE F[M - m] \in Seq(W)
      OBVIOUS
    <3> DEFINE k == M - m
    <3>2. k \in 1 .. M /\ m = M - k
      BY <1>1, <3>1
    <3> HIDE DEF k
    <3>3. CASE k = N + 1
      <4>1. <<>> \in Seq(W)
        OBVIOUS
      <4>2. QED
        BY <1>10, <3>3, <4>1 DEF k
    <3>4. CASE k # N + 1
      <4>1. k \in 1 .. N
        BY <1>1, <3>2, <3>4
      <4>2. next[k] \in 1 .. M /\ next[k] > k
        BY <1>3, <4>1 DEF Ahead
      <4> DEFINE j == next[k]
                 l == M - j
      <4> HIDE DEF j
      <4>3. l \in Nat /\ l < m /\ M - l = j /\ j \in 1 .. M
        BY <1>1, <3>2, <4>1, <4>2 DEF j
      <4> HIDE DEF l
      <4>4. F[j] \in Seq(W)
        BY <2>1, <4>3
      <4> HIDE DEF ch, next
      <4>5. <<ch[k]>> \in Seq(W)
        <5>1. ch[k] \in W
          BY <1>2, <4>1
        <5>2. QED
          BY <5>1
      <4>6. <<ch[k]>> \o F[j] \in Seq(W)
        BY <4>4, <4>5, ConcatProperties
      <4>7. QED
        BY <1>11, <4>1, <4>6 DEF j, k
    <3>5. QED
      BY <3>3, <3>4
  <2>2. Nat \subseteq T
    <3> HIDE DEF T
    <3>1. QED
      BY <2>1, StrongInduction
  <2>3. ASSUME NEW k \in 1 .. M
        PROVE  F[k] \in Seq(W)
    <3>1. M - k \in Nat /\ M - (M - k) = k
      BY <1>1
    <3>2. M - k \in T
      <4> HIDE DEF T
      <4>1. QED
        BY <2>2, <3>1
    <3>3. QED
      BY <3>1, <3>2
  <2>4. QED
    BY <2>3
<1>13. ASSUME NEW k \in 1 .. N
       PROVE  /\ text[k] = "\r" /\ k < N /\ text[k + 1] = "\n" =>
                   F[k] = <<"\n">> \o F[k + 2]
              /\ text[k] = "\r" /\ ~(k < N /\ text[k + 1] = "\n") =>
                   F[k] = <<"\n">> \o F[k + 1]
              /\ text[k] # "\r" => F[k] = <<text[k]>> \o F[k + 1]
  <2>1. F[k] = <<ch[k]>> \o F[next[k]]
    BY <1>11
  <2>2. /\ text[k] = "\r" /\ k < N /\ text[k + 1] = "\n" => ch[k] = "\n" /\ next[k] = k + 2
        /\ text[k] = "\r" /\ ~(k < N /\ text[k + 1] = "\n") => ch[k] = "\n" /\ next[k] = k + 1
        /\ text[k] # "\r" => ch[k] = text[k] /\ next[k] = k + 1
    OBVIOUS
  <2> HIDE DEF ch, next
  <2>3. QED
    BY <2>1, <2>2
<1>14. QED
  BY <1>10, <1>12, <1>13 DEF F, N, W

\* Comments of any length keep their lines and their other characters.
LEMMA LinesStay ==
  ASSUME NEW C, NEW text \in Seq(C)
  PROVE  /\ Len(normalizeEOL(text)) = Cardinality(Kept(text))
         /\ \A k \in Kept(text) :
              normalizeEOL(text)[Cardinality({j \in Kept(text) : j <= k})] =
                IF text[k] = "\r" THEN "\n" ELSE text[k]
<1> DEFINE F == NormalizedFrom(text)
           N == Len(text)
           M == N + 1
           W == C \cup {"\n"}
           K == Kept(text)
           Kind(k) == IF text[k] = "\r" THEN "\n" ELSE text[k]
           From(k) == {j \in K : k <= j}
           Span(k, j) == {i \in K : k <= i /\ i <= j}
           Right(k) == /\ Len(F[k]) = Cardinality(From(k))
                       /\ \A j \in From(k) : F[k][Cardinality(Span(k, j))] = Kind(j)
           Here(k) == k = M \/ k \in K
           T == {m \in Nat : M - m \in 1 .. M /\ Here(M - m) => Right(M - m)}
<1>1. N \in Nat /\ M \in Nat /\ M = N + 1 /\ \A k \in 1 .. N : text[k] \in C
  OBVIOUS
<1>2. /\ \A k \in 1 .. M : F[k] \in Seq(W)
      /\ F[M] = <<>>
      /\ \A k \in 1 .. N :
           /\ text[k] = "\r" /\ k < N /\ text[k + 1] = "\n" => F[k] = <<"\n">> \o F[k + 2]
           /\ text[k] = "\r" /\ ~(k < N /\ text[k + 1] = "\n") => F[k] = <<"\n">> \o F[k + 1]
           /\ text[k] # "\r" => F[k] = <<text[k]>> \o F[k + 1]
  BY NormalizedUnfolds
<1>3. K \subseteq 1 .. N /\ \A k \in 1 .. N :
        k \in K <=> ~(text[k] = "\n" /\ k > 1 /\ text[k - 1] = "\r")
  BY DEF Kept
<1>4. \A k \in 1 .. N : Kind(k) \in W
  BY <1>1
<1> HIDE DEF F, N, M, W, K
<1>5. IsFiniteSet(K)
  <2>1. 1 \in Int /\ N \in Int
    BY <1>1
  <2>2. IsFiniteSet(1 .. N)
    BY <2>1, FS_Interval
  <2>3. QED
    BY <1>3, <2>2, FS_Subset
<1>6. ASSUME NEW k, NEW j
      PROVE  /\ IsFiniteSet(From(k)) /\ IsFiniteSet(Span(k, j))
             /\ Cardinality(From(k)) \in Nat /\ Cardinality(Span(k, j)) \in Nat
             /\ Cardinality(Span(k, j)) <= Cardinality(From(k))
  <2>1. From(k) \in SUBSET K /\ Span(k, j) \in SUBSET From(k)
    OBVIOUS
  <2> HIDE DEF From, Span
  <2>2. IsFiniteSet(From(k))
    BY <1>5, <2>1, FS_Subset
  <2>3. IsFiniteSet(Span(k, j)) /\ Cardinality(Span(k, j)) <= Cardinality(From(k))
    BY <2>1, <2>2, FS_Subset
  <2>4. QED
    BY <2>2, <2>3, FS_CardinalityType
\* The place that the value at a kept place rests on.
<1>7. ASSUME NEW k \in K
      PROVE  \E n \in 1 .. M :
               /\ n > k /\ Here(n)
               /\ \A i \in K : k < i => n <= i
               /\ F[k] = <<Kind(k)>> \o F[n]
  <2>1. k \in 1 .. N
    BY <1>3
  <2>2. CASE text[k] = "\r" /\ k < N /\ text[k + 1] = "\n"
    <3>1. F[k] = <<Kind(k)>> \o F[k + 2]
      BY <1>2, <2>1, <2>2
    <3>2. k + 1 \in 1 .. N /\ k + 2 \in 1 .. M /\ (k + 1) - 1 = k /\ k + 1 > 1 /\ k + 2 > k
      BY <1>1, <2>1, <2>2
    <3>3. k + 1 \notin K
      BY <1>3, <2>2, <3>2
    <3>4. Here(k + 2)
      <4>1. CASE k + 2 = M
        BY <4>1
      <4>2. CASE k + 2 # M
        <5>1. k + 2 \in 1 .. N /\ (k + 2) - 1 = k + 1
          BY <1>1, <3>2, <4>2
        <5>2. text[(k + 2) - 1] # "\r"
          BY <2>2, <5>1
        <5>3. QED
          BY <1>3, <5>1, <5>2
      <4>3. QED
        BY <4>1, <4>2
    <3>5. ASSUME NEW i \in K, k < i
          PROVE  k + 2 <= i
      <4>1. i # k + 1 /\ i \in Int
        BY <1>3, <3>3
      <4>2. QED
        BY <2>1, <3>5, <4>1
    <3>6. QED
      BY <3>1, <3>2, <3>4, <3>5
  <2>3. CASE ~(text[k] = "\r" /\ k < N /\ text[k + 1] = "\n")
    <3>1. F[k] = <<Kind(k)>> \o F[k + 1]
      <4>1. CASE text[k] = "\r"
        BY <1>2, <2>1, <2>3, <4>1
      <4>2. CASE text[k] # "\r"
        BY <1>2, <2>1, <4>2
      <4>3. QED
        BY <4>1, <4>2
    <3>2. k + 1 \in 1 .. M /\ (k + 1) - 1 = k /\ k + 1 > k
      BY <1>1, <2>1
    <3>3. Here(k + 1)
      <4>1. CASE k + 1 = M
        BY <4>1
      <4>2. CASE k + 1 # M
        <5>1. k + 1 \in 1 .. N /\ k < N
          BY <1>1, <3>2, <4>2, <2>1
        <5>2. ~(text[k + 1] = "\n" /\ text[(k + 1) - 1] = "\r")
          BY <2>3, <3>2, <5>1
        <5>3. QED
          BY <1>3, <5>1, <5>2
      <4>3. QED
        BY <4>1, <4>2
    <3>4. ASSUME NEW i \in K, k < i
          PROVE  k + 1 <= i
      <4>1. i \in Int
        BY <1>3
      <4>2. QED
        BY <2>1, <3>4, <4>1
    <3>5. QED
      BY <3>1, <3>2, <3>3, <3>4
  <2>4. QED
    BY <2>2, <2>3
<1>8. ASSUME NEW k \in K, NEW n \in 1 .. M, n > k, Right(n),
             \A i \in K : k < i => n <= i,
             F[k] = <<Kind(k)>> \o F[n]
      PROVE  Right(k)
  <2> DEFINE h == <<Kind(k)>>
             v == F[n]
  <2>1. k \in 1 .. N /\ Kind(k) \in W
    BY <1>3, <1>4
  <2>2. h \in Seq(W) /\ Len(h) = 1 /\ h[1] = Kind(k)
    BY <2>1
  <2>3. v \in Seq(W) /\ Len(v) \in Nat
    BY <1>2
  <2> HIDE DEF h, v, Kind
  <2>4. /\ Len(F[k]) = Len(h) + Len(v)
        /\ \A i \in 1 .. Len(h) + Len(v) : F[k][i] = IF i <= Len(h) THEN h[i] ELSE v[i - Len(h)]
    <3>1. F[k] = h \o v
      BY <1>8 DEF h, v
    <3>2. /\ Len(h \o v) = Len(h) + Len(v)
          /\ \A i \in 1 .. Len(h) + Len(v) :
               (h \o v)[i] = IF i <= Len(h) THEN h[i] ELSE v[i - Len(h)]
      BY <2>2, <2>3, ConcatProperties
    <3>3. QED
      BY <3>1, <3>2
  <2>5. From(k) = From(n) \cup {k} /\ k \notin From(n)
    <3>1. \A i \in K : i \in Int /\ (k <= i <=> n <= i \/ i = k)
      BY <1>3, <1>8, <2>1
    <3>2. ~(n <= k)
      BY <1>8, <2>1
    <3>3. QED
      BY <3>1, <3>2
  <2>6. Cardinality(From(k)) = Cardinality(From(n)) + 1
    <3>1. IsFiniteSet(From(n))
      BY <1>6
    <3> HIDE DEF From
    <3>2. QED
      BY <2>5, <3>1, FS_AddElement
  <2>7. Len(v) = Cardinality(From(n))
    BY <1>8 DEF v
  <2>8. Len(F[k]) = Cardinality(From(k))
    <3> HIDE DEF From
    <3>1. QED
      BY <2>2, <2>3, <2>4, <2>6, <2>7
  <2>9. ASSUME NEW j \in From(k)
        PROVE  F[k][Cardinality(Span(k, j))] = Kind(j)
    <3>1. CASE j = k
      <4>1. Span(k, j) = {k}
        <5>1. \A i \in K : i \in Int /\ (k <= i /\ i <= k <=> i = k)
          BY <1>3, <2>1
        <5>2. QED
          BY <3>1, <5>1
      <4>2. Cardinality(Span(k, j)) = 1
        BY <4>1, FS_Singleton
      <4>3. 1 \in 1 .. Len(h) + Len(v) /\ 1 <= Len(h)
        BY <2>2, <2>3
      <4>4. F[k][1] = Kind(k)
        BY <2>2, <2>4, <4>3
      <4>5. QED
        BY <3>1, <4>2, <4>4
    <3>2. CASE j # k
      <4>1. j \in From(n) /\ j \in K
        BY <2>5, <3>2
      <4> DEFINE c == Cardinality(Span(n, j))
      <4>2. Span(k, j) = Span(n, j) \cup {k} /\ k \notin Span(n, j)
        <5>1. \A i \in K : i \in Int /\ (k <= i <=> n <= i \/ i = k)
          BY <1>3, <1>8, <2>1
        <5>2. ~(n <= k) /\ k <= j
          BY <1>8, <2>1
        <5>3. QED
          BY <5>1, <5>2
      <4>3. IsFiniteSet(Span(n, j)) /\ c \in Nat /\ c <= Cardinality(From(n))
        BY <1>6
      <4>4. c # 0
        <5>1. j \in Span(n, j)
          <6>1. j <= j
            BY <1>3, <4>1
          <6>2. QED
            BY <4>1, <6>1
        <5> HIDE DEF Span
        <5>2. QED
          BY <4>3, <5>1, FS_EmptySet
      <4>5. Cardinality(Span(k, j)) = c + 1
        <5> HIDE DEF Span
        <5>1. QED
          BY <4>2, <4>3, FS_AddElement
      <4>6. F[n][c] = Kind(j)
        BY <1>8, <4>1
      <4> HIDE DEF c, From, Span
      <4>7. /\ c + 1 \in 1 .. Len(h) + Len(v) /\ ~(c + 1 <= Len(h))
            /\ (c + 1) - Len(h) = c
        BY <2>2, <2>3, <2>7, <4>3, <4>4
      <4>8. F[k][c + 1] = v[c]
        BY <2>4, <4>7
      <4>9. QED
        BY <4>5, <4>6, <4>8 DEF v
    <3>3. QED
      BY <3>1, <3>2
  <2>10. QED
    BY <2>8, <2>9 DEF Kind
<1>9. Right(M)
  <2>1. From(M) = {}
    <3>1. \A i \in K : ~(M <= i)
      BY <1>1, <1>3
    <3>2. QED
      BY <3>1
  <2>2. Len(F[M]) = 0
    BY <1>2
  <2>3. Cardinality(From(M)) = 0
    BY <2>1, FS_EmptySet
  <2> HIDE DEF From, Span, Kind
  <2>4. QED
    BY <2>1, <2>2, <2>3
<1> HIDE DEF Right
<1>10. Nat \subseteq T
  <2>1. ASSUME NEW m \in Nat, \A l \in Nat : l < m => l \in T
        PROVE  m \in T
    <3> DEFINE k == M - m
    <3>1. SUFFICES ASSUME k \in 1 .. M, Here(k) PROVE Right(k)
      OBVIOUS
    <3>2. m = M - k
      BY <1>1
    <3> HIDE DEF k
    <3>3. CASE k = M
      BY <1>9, <3>3
    <3>4. CASE k # M
      <4>1. k \in K
        BY <3>1, <3>4
      <4>2. PICK n \in 1 .. M :
              /\ n > k /\ Here(n)
              /\ \A i \in K : k < i => n <= i
              /\ F[k] = <<Kind(k)>> \o F[n]
        BY <1>7, <4>1
      <4>3. M - n \in Nat /\ M - n < m /\ M - (M - n) = n
        BY <1>1, <3>1, <3>2, <4>2
      <4>4. M - n \in T
        <5> HIDE DEF T
        <5>1. QED
          BY <2>1, <4>3
      <4>5. Right(n)
        BY <4>2, <4>3, <4>4
      <4> HIDE DEF Kind
      <4>6. QED
        BY <1>8, <4>1, <4>2, <4>5
    <3>5. QED
      BY <3>3, <3>4
  <2> HIDE DEF T
  <2>2. QED
    BY <2>1, StrongInduction
<1>11. Right(1)
  <2>1. 1 \in 1 .. M /\ M - 1 \in Nat /\ M - (M - 1) = 1
    BY <1>1
  <2>2. Here(1)
    <3>1. CASE N = 0
      BY <1>1, <3>1
    <3>2. CASE N # 0
      <4>1. 1 \in 1 .. N /\ ~(1 > 1)
        BY <1>1, <3>2
      <4>2. QED
        BY <1>3, <4>1
    <3>3. QED
      BY <3>1, <3>2
  <2>3. M - 1 \in T
    <3> HIDE DEF T
    <3>1. QED
      BY <1>10, <2>1
  <2>4. QED
    BY <2>1, <2>2, <2>3
<1>12. From(1) = K /\ \A k : Span(1, k) = {j \in K : j <= k}
  <2>1. \A i \in K : 1 <= i
    BY <1>3
  <2>2. QED
    BY <2>1
<1>13. Len(F[1]) = Cardinality(K) /\ \A k \in K : F[1][Cardinality({j \in K : j <= k})] = Kind(k)
  BY <1>11, <1>12 DEF Right
<1>14. QED
  BY <1>13 DEF normalizeEOL, F, K

-----------------------------------------------------------------------------
(* The argument stays what it was, one of the five kinds. *)

\* A text is a sequence of its characters.
LEMMA TextsAreSequences ==
  ASSUME NEW C, NEW s \in Text(C)
  PROVE  s \in Seq(C)
<1>1. PICK n \in 0 .. MaxText : s \in [1 .. n -> C]
  BY DEF Text
<1>2. n \in Nat
  BY <1>1, ToolAssumption
<1>3. QED
  BY <1>1, <1>2

\* What is said of another kind of argument says nothing.
LEMMA OtherArguments ==
  /\ arg.of # "int" => IntReadsBack
  /\ arg.of # "codepoint" => CodePointReadsBack
  /\ arg.of # "double" => CutKeepsNumber
  /\ arg.of # "string" => QuotedReadsBack
  /\ arg.of # "comment" => LinesKept
<1>1. arg.of # "int" => IntReadsBack
  BY SMT DEF IntReadsBack
<1>2. arg.of # "codepoint" => CodePointReadsBack
  BY SMT DEF CodePointReadsBack
<1>3. arg.of # "double" => CutKeepsNumber
  BY SMT DEF CutKeepsNumber
<1>4. arg.of # "string" => QuotedReadsBack
  BY SMT DEF QuotedReadsBack
<1>5. arg.of # "comment" => LinesKept
  BY SMT DEF LinesKept
<1>6. QED
  BY <1>1, <1>2, <1>3, <1>4, <1>5

\* Each of the five kinds of argument reads back.
LEMMA EveryArgument ==
  ASSUME JsonToolInit
  PROVE  ConversionsReadBack
<1>1. ASSUME NEW v \in LargestInt \cup LargestUInt, arg = [of |-> "int", value |-> v]
      PROVE  ConversionsReadBack
  <2>1. arg.of = "int" /\ arg.value = v
    BY <1>1
  <2>2. IntReadsBack
    BY <2>1, IntsReadBack DEF IntReadsBack
  <2>3. arg.of \notin {"codepoint", "double", "string", "comment"}
    BY <2>1
  <2>4. CodePointReadsBack /\ CutKeepsNumber /\ QuotedReadsBack /\ LinesKept
    BY <2>3, OtherArguments
  <2>5. QED
    BY <2>2, <2>4 DEF ConversionsReadBack
<1>2. ASSUME NEW cp \in CodePoints, arg = [of |-> "codepoint", value |-> cp]
      PROVE  ConversionsReadBack
  <2>1. arg.of = "codepoint" /\ arg.value = cp /\ cp \in Nat
    BY <1>2, ToolAssumption
  <2>2. CodePointReadsBack
    BY <2>1, CodePointsReadBack, SMT DEF CodePointReadsBack
  <2>3. arg.of \notin {"int", "double", "string", "comment"}
    BY <2>1
  <2>4. IntReadsBack /\ CutKeepsNumber /\ QuotedReadsBack /\ LinesKept
    BY <2>3, OtherArguments
  <2>5. QED
    BY <2>2, <2>4 DEF ConversionsReadBack
<1>3. ASSUME NEW d \in [1 .. Precision -> DigitChar], NEW e \in Exponents,
             arg = [of |-> "double", value |-> FormatDouble(d, e)]
      PROVE  ConversionsReadBack
  <2>1. arg.of = "double" /\ arg.value = FormatDouble(d, e)
    BY <1>3
  <2>2. CutKeepsNumber
    BY <2>1, DoublesKeep DEF CutKeepsNumber
  <2>3. arg.of \notin {"int", "codepoint", "string", "comment"}
    BY <2>1
  <2>4. IntReadsBack /\ CodePointReadsBack /\ QuotedReadsBack /\ LinesKept
    BY <2>3, OtherArguments
  <2>5. QED
    BY <2>2, <2>4 DEF ConversionsReadBack
<1>4. ASSUME NEW C, NEW s \in Text(C), arg = [of |-> "string", value |-> s]
      PROVE  ConversionsReadBack
  <2>1. arg.of = "string" /\ arg.value = s /\ s \in Seq(C)
    BY <1>4, TextsAreSequences
  <2>2. QuotedReadsBack
    BY <2>1, QuotedReads DEF QuotedReadsBack
  <2>3. arg.of \notin {"int", "codepoint", "double", "comment"}
    BY <2>1
  <2>4. IntReadsBack /\ CodePointReadsBack /\ CutKeepsNumber /\ LinesKept
    BY <2>3, OtherArguments
  <2>5. QED
    BY <2>2, <2>4 DEF ConversionsReadBack
<1>5. ASSUME NEW C, NEW s \in Text(C), arg = [of |-> "comment", value |-> s]
      PROVE  ConversionsReadBack
  <2>1. arg.of = "comment" /\ arg.value = s /\ s \in Seq(C)
    BY <1>5, TextsAreSequences
  <2>2. LinesKept
    BY <2>1, LinesStay DEF LinesKept
  <2>3. arg.of \notin {"int", "codepoint", "double", "string"}
    BY <2>1
  <2>4. IntReadsBack /\ CodePointReadsBack /\ CutKeepsNumber /\ QuotedReadsBack
    BY <2>3, OtherArguments
  <2>5. QED
    BY <2>2, <2>4 DEF ConversionsReadBack
<1>6. QED
  BY <1>1, <1>2, <1>3, <1>4, <1>5 DEF JsonToolInit

(* What a reader makes of a conversion's result is what was converted: ints *)
(* of any width, but for the smallest, of which every outcome of its        *)
(* undefined negation fits the buffer, code points, doubles of any          *)
(* precision, strings with every control character, and comments of any     *)
(* length (json_tool.h:17-89, json_writer.cpp:24-181 and 526-547).          *)
THEOREM ConversionsReadBackCorrect == JsonToolSpec => []ConversionsReadBack
<1>1. JsonToolInit /\ [UNCHANGED arg]_arg => JsonToolInit'
  BY DEF JsonToolInit
<1>2. JsonToolInit => ConversionsReadBack
  BY EveryArgument
<1>3. QED
  BY <1>1, <1>2, PTL DEF JsonToolSpec

-----------------------------------------------------------------------------
(* The allocator.  Where a page is no whole number of blocks used_ steps   *)
(* over end_, and the batch is never full.                                 *)

WholePages == objectsPerPage_ % objectPerAllocation = 0

Whole(q) == q % objectPerAllocation = 0

Taken ==
  UNION {{<<b, p>> : p \in {q \in 0 .. used_[b] - 1 :
                              q % objectPerAllocation = 0}} : b \in 1 .. batches}

AllocatorTypes ==
  /\ objectsPerPage_ \in Pages
  /\ batches \in 0 .. MaxBatches
  /\ currentBatch_ \in 0 .. batches
  /\ used_ \in [0 .. MaxBatches -> Nat]
  /\ free \in Seq(Block)

\* A batch is taken from in whole blocks, up to its end if that is where a block
\* ends; nothing is taken from the dummy, or a batch not yet allocated.
BatchesOK ==
  \A b \in 0 .. MaxBatches :
    /\ Whole(used_[b])
    /\ WholePages => used_[b] <= end_(b)
    /\ b = 0 \/ b > batches => used_[b] = 0

FreeOnce == \A j, k \in 1 .. Len(free) : free[j] = free[k] => j = k

AllocatorInv ==
  /\ AllocatorTypes
  /\ BatchesOK
  /\ live \cup Freed = Taken
  /\ live \cap Freed = {}
  /\ FreeOnce

-----------------------------------------------------------------------------
(* Whole blocks. *)

LEMMA Quotient ==
  ASSUME NEW m \in Nat \ {0}, NEW c \in Nat
  PROVE  /\ c \div m \in Nat /\ c % m \in 0 .. m - 1
         /\ c = (m * (c \div m)) + (c % m)
  OBVIOUS

\* Two places where blocks begin are at least a block apart.
LEMMA BlocksApart ==
  ASSUME NEW p \in Nat, NEW q \in Nat, Whole(p), Whole(q), p < q
  PROVE  p + objectPerAllocation <= q
<1> DEFINE a == objectPerAllocation
           u == p \div a
           v == q \div a
<1>1. a \in Nat \ {0}
  BY AllocatorAssumption
<1>2. u \in Nat /\ v \in Nat /\ p = a * u /\ q = a * v
  BY <1>1, Quotient DEF Whole
<1> HIDE DEF a, u, v
<1>3. u < v
  <2>1. SUFFICES ASSUME u >= v PROVE FALSE
    BY <1>2
  <2>2. a * u >= a * v
    BY <1>1, <1>2, <2>1
  <2>3. QED
    BY <1>2, <2>2
<1>4. a * (u + 1) <= a * v
  BY <1>1, <1>2, <1>3
<1>5. a * (u + 1) = a * u + a
  BY <1>1, <1>2
<1>6. p + a <= q
  BY <1>1, <1>2, <1>4, <1>5
<1>7. QED
  BY <1>6 DEF a

LEMMA WholeSteps ==
  ASSUME NEW p \in Nat, Whole(p)
  PROVE  Whole(p + objectPerAllocation)
<1> DEFINE a == objectPerAllocation
           u == p \div a
           r == (p + a) % a
           v == (p + a) \div a
<1>1. a \in Nat \ {0} /\ p + a \in Nat
  BY AllocatorAssumption
<1>2. u \in Nat /\ p = a * u
  BY <1>1, Quotient DEF Whole
<1>3. v \in Nat /\ r \in 0 .. a - 1 /\ p + a = (a * v) + r
  BY <1>1, Quotient
<1> HIDE DEF a, u, v, r
<1>4. r = a * ((u + 1) - v)
  <2>1. a * (u + 1) = a * u + a
    BY <1>1, <1>2
  <2>2. a * ((u + 1) - v) = a * (u + 1) - a * v
    BY <1>1, <1>2, <1>3
  <2>3. QED
    BY <1>1, <1>2, <1>3, <2>1, <2>2
<1>5. (u + 1) - v < 1
  <2>1. SUFFICES ASSUME (u + 1) - v >= 1 PROVE FALSE
    BY <1>2, <1>3
  <2>2. a * ((u + 1) - v) >= a
    BY <1>1, <1>2, <1>3, <2>1
  <2>3. QED
    BY <1>1, <1>3, <1>4, <2>2
<1>6. (u + 1) - v > -1
  <2>1. SUFFICES ASSUME (u + 1) - v <= -1 PROVE FALSE
    BY <1>2, <1>3
  <2>2. a * ((u + 1) - v) <= -a
    BY <1>1, <1>2, <1>3, <2>1
  <2>3. QED
    BY <1>1, <1>3, <1>4, <2>2
<1>7. (u + 1) - v = 0
  BY <1>2, <1>3, <1>5, <1>6
<1>8. r = 0
  BY <1>1, <1>4, <1>7
<1>9. QED
  BY <1>8 DEF r, a, Whole

LEMMA WholeZero == Whole(0)
  BY AllocatorAssumption DEF Whole

-----------------------------------------------------------------------------
(* The steps. *)

LEMMA InTaken ==
  ASSUME AllocatorTypes, NEW x
  PROVE  x \in Taken <=>
           \E b \in 1 .. batches, p \in Nat :
             p < used_[b] /\ Whole(p) /\ x = <<b, p>>
<1>1. \A b \in 1 .. batches : used_[b] \in Nat
  BY AllocatorAssumption DEF AllocatorTypes
<1>2. \A b \in 1 .. batches : \A p : p \in 0 .. used_[b] - 1 <=> p \in Nat /\ p < used_[b]
  BY <1>1
<1>3. QED
  BY <1>2 DEF Taken, Whole

\* A batch that is not full has room for a block, if pages are whole.
LEMMA RoomForBlock ==
  ASSUME AllocatorInv, NEW b \in 0 .. MaxBatches, ~Full(b)
  PROVE  /\ b # 0 /\ used_[b] \in Nat
         /\ WholePages => used_[b] + objectPerAllocation <= end_(b)
<1>1. used_[b] \in Nat /\ Whole(used_[b]) /\ (WholePages => used_[b] <= end_(b))
  BY DEF AllocatorInv, AllocatorTypes, BatchesOK
<1>2. end_(b) \in Nat /\ (WholePages => Whole(end_(b)))
  BY AllocatorAssumption, WholeZero DEF AllocatorInv, AllocatorTypes, end_, WholePages, Whole
<1>3. WholePages => used_[b] < end_(b)
  BY <1>1, <1>2 DEF Full
<1>4. b # 0
  BY DEF AllocatorInv, BatchesOK, end_, Full
<1>5. QED
  BY <1>1, <1>2, <1>3, <1>4, BlocksApart

\* The block a batch gives was not given before.
LEMMA TakeKeeps ==
  ASSUME AllocatorInv, free = <<>>, NEW b \in 1 .. batches',
         ~Full(b), Take(b), batches' \in {batches, batches + 1},
         batches' <= MaxBatches
  PROVE  AllocatorInv'
<1> DEFINE a == objectPerAllocation
           x == <<b, used_[b]>>
<1>1. /\ batches \in Nat /\ batches' \in Nat /\ MaxBatches \in Nat /\ a \in Nat \ {0}
      /\ used_ \in [0 .. MaxBatches -> Nat] /\ b \in 0 .. MaxBatches
  BY AllocatorAssumption DEF AllocatorInv, AllocatorTypes
<1>2. /\ used_[b] \in Nat /\ Whole(used_[b])
      /\ WholePages => used_[b] + a <= end_(b)
  BY <1>1, RoomForBlock DEF AllocatorInv, BatchesOK
<1>3. /\ used_' = [used_ EXCEPT ![b] = @ + a]
      /\ live' = live \cup {x} /\ currentBatch_' = b /\ free' = <<>>
      /\ UNCHANGED objectsPerPage_
  BY DEF Take
<1>4. /\ used_'[b] = used_[b] + a
      /\ \A c \in 0 .. MaxBatches : c # b => used_'[c] = used_[c]
  BY <1>1, <1>3
<1>5. AllocatorTypes'
  <2>1. used_' \in [0 .. MaxBatches -> Nat]
    BY <1>1, <1>2, <1>3
  <2>2. batches' \in 0 .. MaxBatches /\ currentBatch_' \in 0 .. batches'
    BY <1>1, <1>3
  <2>3. QED
    BY <1>3, <2>1, <2>2 DEF AllocatorTypes, AllocatorInv
<1>6. BatchesOK'
  <2>1. SUFFICES ASSUME NEW c \in 0 .. MaxBatches
                 PROVE  /\ Whole(used_'[c])
                        /\ WholePages => used_'[c] <= end_(c)
                        /\ c = 0 \/ c > batches' => used_'[c] = 0
    BY <1>3 DEF BatchesOK, Whole, WholePages, end_
  <2>2. CASE c = b
    <3>1. Whole(used_[b] + a)
      BY <1>2, WholeSteps
    <3>2. ~(c = 0 \/ c > batches')
      BY <1>1, <2>2
    <3>3. QED
      BY <1>2, <1>4, <2>2, <3>1, <3>2
  <2>3. CASE c # b
    <3>1. c > batches' => c > batches
      BY <1>1
    <3>2. QED
      BY <1>4, <2>3, <3>1 DEF AllocatorInv, BatchesOK
  <2>4. QED
    BY <2>2, <2>3
<1> HIDE DEF a
<1>7. x \notin Taken
  <2>1. ~\E c \in 1 .. batches, p \in Nat : p < used_[c] /\ Whole(p) /\ x = <<c, p>>
    BY <1>2
  <2>2. QED
    BY <2>1, InTaken DEF AllocatorInv
<1>8. Taken' = Taken \cup {x}
  <2>1. \A y : y \in Taken' <=>
          \E c \in 1 .. batches', p \in Nat :
            p < used_'[c] /\ Whole(p) /\ y = <<c, p>>
    <3>1. \A c \in 1 .. batches' : used_'[c] \in Nat
      BY <1>1, <1>5 DEF AllocatorTypes
    <3>2. \A c \in 1 .. batches' : \A p : p \in 0 .. used_'[c] - 1 <=> p \in Nat /\ p < used_'[c]
      BY <3>1
    <3>3. QED
      BY <3>2 DEF Taken, Whole
  <2>2. \A c \in 1 .. batches' : c \in 1 .. batches \/ used_[c] = 0
    BY <1>1 DEF AllocatorInv, BatchesOK
  <2>3. \A c \in 1 .. batches' : c \in 0 .. MaxBatches
    BY <1>1
  <2>4. \A p \in Nat : Whole(p) => (p < used_'[b] <=> p < used_[b] \/ p = used_[b])
    <3>1. SUFFICES ASSUME NEW p \in Nat, Whole(p), p < used_[b] + a, ~(p < used_[b]),
                          p # used_[b]
                   PROVE  FALSE
      BY <1>1, <1>2, <1>4
    <3>2. used_[b] + a <= p
      BY <1>2, <3>1, BlocksApart DEF a
    <3>3. QED
      BY <1>1, <1>2, <3>1, <3>2
  <2>5. \A c \in 1 .. batches' : \A p \in Nat :
          Whole(p) => (p < used_'[c] <=> (c \in 1 .. batches /\ p < used_[c])
                                           \/ <<c, p>> = x)
    <3>1. SUFFICES ASSUME NEW c \in 1 .. batches', NEW p \in Nat, Whole(p)
                   PROVE  p < used_'[c] <=> (c \in 1 .. batches /\ p < used_[c])
                                              \/ <<c, p>> = x
      OBVIOUS
    <3>2. used_[c] = 0 => ~(p < used_[c])
      OBVIOUS
    <3>3. CASE c = b
      BY <2>2, <2>4, <3>1, <3>2, <3>3
    <3>4. CASE c # b
      BY <1>4, <2>2, <2>3, <3>2, <3>4
    <3>5. QED
      BY <3>3, <3>4
  <2>6. 1 .. batches \subseteq 1 .. batches'
    BY <1>1
  <2>7. \A y : y \in Taken <=>
          \E c \in 1 .. batches, p \in Nat :
            p < used_[c] /\ Whole(p) /\ y = <<c, p>>
    BY InTaken DEF AllocatorInv
  <2> HIDE DEF x
  <2>8. \A y : y \in Taken' <=> y \in Taken \/ y = x
    <3>1. ASSUME NEW y, y \in Taken'
          PROVE  y \in Taken \/ y = x
      BY <2>1, <2>5, <2>7, <3>1
    <3>2. ASSUME NEW y, y \in Taken
          PROVE  y \in Taken'
      BY <2>1, <2>5, <2>6, <2>7, <3>2
    <3>3. x \in Taken'
      <4>1. b \in 1 .. batches' /\ used_[b] \in Nat /\ Whole(used_[b]) /\ x = <<b, used_[b]>>
        BY <1>2 DEF x
      <4>2. used_[b] < used_'[b]
        BY <2>5, <4>1
      <4>3. QED
        BY <2>1, <4>1, <4>2
    <3>4. QED
      BY <3>1, <3>2, <3>3
  <2>9. QED
    BY <2>8
<1>9. Freed = {} /\ Freed' = {}
  BY <1>3 DEF Freed
<1>10. QED
  BY <1>3, <1>5, <1>6, <1>8, <1>9 DEF AllocatorInv, FreeOnce

LEMMA AllocateKeeps ==
  ASSUME AllocatorInv, AllocateBatch \/ AllocateNew
  PROVE  AllocatorInv'
<1>1. /\ batches \in Nat /\ MaxBatches \in Nat /\ batches <= MaxBatches
      /\ currentBatch_ \in Nat /\ currentBatch_ <= batches
  BY AllocatorAssumption DEF AllocatorInv, AllocatorTypes
<1>2. CASE AllocateBatch
  <2>1. PICK b \in 0 .. currentBatch_ : ~Full(b) /\ Take(b)
    BY <1>2 DEF AllocateBatch
  <2>2. free = <<>> /\ batches' = batches
    BY <1>2 DEF AllocateBatch
  <2>3. b \in 0 .. MaxBatches
    BY <1>1, <2>1
  <2>4. b # 0
    BY <2>1, <2>3, RoomForBlock
  <2>5. b \in 1 .. batches'
    BY <1>1, <2>1, <2>2, <2>4
  <2>6. QED
    BY <1>1, <2>1, <2>2, <2>5, TakeKeeps
<1>3. CASE AllocateNew
  <2>1. PICK b : b = batches + 1
    OBVIOUS
  <2>2. /\ free = <<>> /\ batches' = b /\ Take(b) /\ b <= MaxBatches
        /\ b \in 1 .. batches' /\ b \in 0 .. MaxBatches
    BY <1>1, <1>3, <2>1 DEF AllocateNew
  <2>3. ~Full(b)
    <3>1. used_[b] = 0
      BY <1>1, <2>1, <2>2 DEF AllocatorInv, BatchesOK
    <3>2. end_(b) # 0
      BY <1>1, <2>1, AllocatorAssumption DEF end_, AllocatorInv, AllocatorTypes
    <3>3. QED
      BY <3>1, <3>2 DEF Full
  <2>4. QED
    BY <1>1, <2>1, <2>2, <2>3, TakeKeeps
<1>4. QED
  BY <1>2, <1>3

LEMMA FrontOfFree ==
  ASSUME NEW S, NEW q \in Seq(S), q # <<>>
  PROVE  /\ Len(q) \in Nat \ {0} /\ Head(q) = q[1]
         /\ Tail(q) \in Seq(S) /\ Len(Tail(q)) = Len(q) - 1
         /\ \A k \in 1 .. Len(Tail(q)) : Tail(q)[k] = q[k + 1]
  OBVIOUS

LEMMA AllocateFreeKeeps ==
  ASSUME AllocatorInv, AllocateFree
  PROVE  AllocatorInv'
<1>1. /\ free \in Seq(Block) /\ free # <<>> /\ FreeOnce
      /\ free' = Tail(free) /\ live' = live \cup {Head(free)}
      /\ UNCHANGED <<objectsPerPage_, batches, currentBatch_, used_>>
  BY DEF AllocatorInv, AllocatorTypes, AllocateFree
<1>2. /\ Len(free) \in Nat \ {0} /\ Head(free) = free[1]
      /\ free' \in Seq(Block) /\ Len(free') = Len(free) - 1
      /\ \A k \in 1 .. Len(free') : free'[k] = free[k + 1]
  BY <1>1, FrontOfFree
<1>3. /\ 1 \in 1 .. Len(free)
      /\ \A k \in 1 .. Len(free') : k + 1 \in 1 .. Len(free) /\ k + 1 # 1
      /\ \A k \in 1 .. Len(free) : k = 1 \/ (k - 1 \in 1 .. Len(free') /\ (k - 1) + 1 = k)
  BY <1>2
<1>4. Freed' = Freed \ {Head(free)}
  <2>1. Freed' \subseteq Freed \ {Head(free)}
    BY <1>1, <1>2, <1>3 DEF Freed, FreeOnce
  <2>2. ASSUME NEW k \in 1 .. Len(free), free[k] # Head(free)
        PROVE  free[k] \in Freed'
    <3>1. k - 1 \in 1 .. Len(free') /\ (k - 1) + 1 = k
      BY <1>2, <1>3, <2>2
    <3>2. free'[k - 1] = free[k]
      BY <1>2, <3>1
    <3>3. QED
      BY <3>1, <3>2 DEF Freed
  <2>3. QED
    BY <2>1, <2>2 DEF Freed
<1>5. Head(free) \in Freed
  BY <1>2, <1>3 DEF Freed
<1>6. FreeOnce'
  <2>1. ASSUME NEW j \in 1 .. Len(free'), NEW k \in 1 .. Len(free'),
               free'[j] = free'[k]
        PROVE  j = k
    <3>1. j + 1 = k + 1
      BY <1>1, <1>2, <1>3, <2>1 DEF FreeOnce
    <3>2. QED
      BY <3>1
  <2>2. QED
    BY <2>1 DEF FreeOnce
<1>7. Taken' = Taken /\ AllocatorTypes' /\ BatchesOK'
  BY <1>1, <1>2 DEF Taken, AllocatorInv, AllocatorTypes, BatchesOK, Whole, WholePages, end_
<1>8. QED
  BY <1>1, <1>4, <1>5, <1>6, <1>7 DEF AllocatorInv

\* A list with one block more at its front.
LEMMA FreeGrows ==
  ASSUME NEW S, NEW q \in Seq(S), NEW x \in S
  PROVE  /\ <<x>> \o q \in Seq(S) /\ Len(<<x>> \o q) = Len(q) + 1
         /\ (<<x>> \o q)[1] = x
         /\ \A k \in 1 .. Len(q) : (<<x>> \o q)[k + 1] = q[k]
  OBVIOUS

LEMMA ReleaseKeeps ==
  ASSUME AllocatorInv, NEW x \in live, Release(x)
  PROVE  AllocatorInv'
<1>1. /\ free \in Seq(Block) /\ FreeOnce
      /\ free' = <<x>> \o free /\ live' = live \ {x}
      /\ UNCHANGED <<objectsPerPage_, batches, currentBatch_, used_>>
  BY DEF AllocatorInv, AllocatorTypes, Release
<1>2. x \in Block
  <2>1. PICK b \in 1 .. batches, p \in Nat : x = <<b, p>>
    BY InTaken DEF AllocatorInv
  <2>2. b \in 1 .. MaxBatches
    BY AllocatorAssumption DEF AllocatorInv, AllocatorTypes
  <2>3. QED
    BY <2>1, <2>2 DEF Block
<1>3. /\ Len(free) \in Nat /\ free' \in Seq(Block) /\ Len(free') = Len(free) + 1
      /\ free'[1] = x
      /\ \A k \in 1 .. Len(free) : free'[k + 1] = free[k]
  BY <1>1, <1>2, FreeGrows
<1>4. /\ 1 \in 1 .. Len(free')
      /\ \A k \in 1 .. Len(free) : k + 1 \in 1 .. Len(free')
      /\ \A k \in 1 .. Len(free') : k = 1 \/ (k - 1 \in 1 .. Len(free) /\ (k - 1) + 1 = k)
  BY <1>3
<1>5. \A k \in 1 .. Len(free') : free'[k] = IF k = 1 THEN x ELSE free[k - 1]
  BY <1>3, <1>4
<1>6. Freed' = Freed \cup {x}
  <2>1. Freed' \subseteq Freed \cup {x}
    BY <1>4, <1>5 DEF Freed
  <2>2. Freed \cup {x} \subseteq Freed'
    BY <1>3, <1>4 DEF Freed
  <2>3. QED
    BY <2>1, <2>2
<1>7. x \notin Freed
  BY DEF AllocatorInv
<1>8. FreeOnce'
  <2>1. ASSUME NEW j \in 1 .. Len(free'), NEW k \in 1 .. Len(free'),
               free'[j] = free'[k]
        PROVE  j = k
    <3>1. \A m \in 1 .. Len(free) : free[m] # x
      BY <1>7 DEF Freed
    <3>2. j = 1 <=> k = 1
      BY <1>4, <1>5, <2>1, <3>1
    <3>3. CASE j # 1 /\ k # 1
      <4>1. j - 1 = k - 1
        BY <1>1, <1>4, <1>5, <2>1, <3>3 DEF FreeOnce
      <4>2. QED
        BY <4>1
    <3>4. QED
      BY <3>2, <3>3
  <2>2. QED
    BY <2>1 DEF FreeOnce
<1>9. Taken' = Taken /\ AllocatorTypes' /\ BatchesOK'
  BY <1>1, <1>3 DEF Taken, AllocatorInv, AllocatorTypes, BatchesOK, Whole, WholePages, end_
<1>10. QED
  BY <1>1, <1>6, <1>7, <1>8, <1>9 DEF AllocatorInv

-----------------------------------------------------------------------------
(* The invariant. *)

LEMMA AllocatorInvInit == AllocatorInit => AllocatorInv
<1> SUFFICES ASSUME AllocatorInit PROVE AllocatorInv
  OBVIOUS
<1>1. /\ objectsPerPage_ \in Pages
      /\ batches = 0 /\ currentBatch_ = 0 /\ free = <<>> /\ live = {}
      /\ used_ = [b \in 0 .. MaxBatches |-> 0]
      /\ MaxBatches \in Nat
  BY AllocatorAssumption DEF AllocatorInit
<1>2. AllocatorTypes
  BY <1>1 DEF AllocatorTypes
<1>3. \A b : end_(b) \in Nat /\ 0 <= end_(b)
  BY <1>1, AllocatorAssumption DEF end_
<1>4. BatchesOK
  BY <1>1, <1>3, WholeZero DEF BatchesOK
<1>5. Taken = {} /\ Freed = {}
  BY <1>1 DEF Taken, Freed
<1>6. QED
  BY <1>1, <1>2, <1>4, <1>5 DEF AllocatorInv, FreeOnce

LEMMA AllocatorInvStep ==
  ASSUME AllocatorInv, [AllocatorNext]_allocatorVars
  PROVE  AllocatorInv'
<1>1. CASE UNCHANGED allocatorVars
  BY <1>1
  DEF allocatorVars, AllocatorInv, AllocatorTypes, BatchesOK, Taken, Freed, FreeOnce,
      Whole, WholePages, end_
<1>2. QED
  BY <1>1, AllocateFreeKeeps, AllocateKeeps, ReleaseKeeps DEF AllocatorNext

LEMMA AllocatorInvCorrect == AllocatorSpec => []AllocatorInv
<1>1. AllocatorInv /\ [AllocatorNext]_allocatorVars => AllocatorInv'
  BY AllocatorInvStep
<1>2. QED
  BY <1>1, AllocatorInvInit, PTL DEF AllocatorSpec

\* Blocks that were taken share no object, and lie inside their batch if pages
\* are whole.
LEMMA BlocksDisjoint ==
  ASSUME AllocatorInv, NEW x \in Taken
  PROVE  /\ WholePages => x[2] + objectPerAllocation <= Room(x[1])
         /\ \A y \in Taken : x # y /\ x[1] = y[1] => Objects(x) \cap Objects(y) = {}
<1> DEFINE a == objectPerAllocation
<1>1. a \in Nat \ {0}
  BY AllocatorAssumption
<1>2. PICK b \in 1 .. batches, p \in Nat : p < used_[b] /\ Whole(p) /\ x = <<b, p>>
  BY InTaken DEF AllocatorInv
<1>3. /\ b \in 0 .. MaxBatches
      /\ used_[b] \in Nat /\ Whole(used_[b])
      /\ WholePages => used_[b] <= end_(b)
      /\ end_(b) \in Nat
  BY AllocatorAssumption DEF AllocatorInv, AllocatorTypes, BatchesOK, end_
<1>4. WholePages => p + a <= end_(b)
  <2>1. p + a <= used_[b]
    BY <1>2, <1>3, BlocksApart
  <2>2. QED
    BY <1>1, <1>3, <2>1
<1>5. end_(b) <= a * end_(b)
  BY <1>1, <1>3
<1>6. WholePages => x[2] + a <= Room(x[1])
  <2>1. a * end_(b) \in Nat
    BY <1>1, <1>3
  <2>2. WholePages => p + a <= a * end_(b)
    BY <1>1, <1>3, <1>4, <1>5, <2>1
  <2>3. QED
    BY <1>2, <2>2 DEF Room
<1>7. ASSUME NEW y \in Taken, x # y, x[1] = y[1]
      PROVE  Objects(x) \cap Objects(y) = {}
  <2>1. PICK q \in Nat : Whole(q) /\ y = <<y[1], q>>
    BY InTaken DEF AllocatorInv
  <2>2. p # q
    BY <1>2, <1>7, <2>1
  <2>3. p + a <= q \/ q + a <= p
    BY <1>2, <2>1, <2>2, BlocksApart
  <2>4. (p .. p + a - 1) \cap (q .. q + a - 1) = {}
    BY <1>1, <2>3
  <2>5. Objects(x) = p .. p + a - 1 /\ Objects(y) = q .. q + a - 1
    BY <1>2, <2>1 DEF Objects
  <2>6. QED
    BY <2>4, <2>5
<1>8. QED
  BY <1>6, <1>7

(* Whatever is allocated and released, in whatever order, and whatever the *)
(* sizes of blocks and pages: the allocator gives no object of a batch to  *)
(* two callers, and none of a block in its free list; where a page is a    *)
(* whole number of blocks, it gives none outside the memory of a batch.    *)
THEOREM NoObjectTwiceCorrect == AllocatorSpec => []NoObjectTwice
<1>1. AllocatorInv => NoObjectTwice
  BY BlocksDisjoint DEF AllocatorInv, NoObjectTwice, InsideBatch, WholePages
<1>2. QED
  BY <1>1, AllocatorInvCorrect, PTL

(* A block that was taken from a batch is with a caller or in the free     *)
(* list, and there once, whatever the sizes of blocks and pages.           *)
THEOREM NoBlockLostCorrect == AllocatorSpec => []NoBlockLost
<1>1. AllocatorInv => NoBlockLost
  BY DEF AllocatorInv, NoBlockLost, FreeOnce, Taken
<1>2. QED
  BY <1>1, AllocatorInvCorrect, PTL

-----------------------------------------------------------------------------
(* The writers: repeated steps, and functions of a value. *)

AreSteps(step, n, V) == step \in [1 .. n -> [V -> V]]

\* What repeated steps make is the last of what each of them makes.
LEMMA AfterSteps ==
  ASSUME NEW V, NEW x, NEW n, NEW step,
         x \in V, n \in Nat, AreSteps(step, n, V)
  PROVE  \E f : Folds(f, V, x, n, step) /\ After(x, n, step) = f[n]
<1>0. step \in [1 .. n -> [V -> V]]
  BY DEF AreSteps
<1> USE <1>0
<1> DEFINE h == CHOOSE f : f = [k \in 0 .. n |-> IF k = 0 THEN x ELSE step[k][f[k - 1]]]
<1>1. PICK f : Folds(f, V, x, n, step)
  BY PrefixRecursion
<1>2. f = [k \in 0 .. n |-> IF k = 0 THEN x ELSE step[k][f[k - 1]]]
  BY <1>1 DEF Folds
<1>3. h = [k \in 0 .. n |-> IF k = 0 THEN x ELSE step[k][h[k - 1]]]
  BY <1>2
<1>4. After(x, n, step) = h[n]
  BY DEF After
<1> HIDE DEF h
<1> DEFINE T == {k \in Nat : k <= n => h[k] \in V}
<1>5. Nat \subseteq T
  <2>1. 0 \in T
    BY <1>3
  <2>2. ASSUME NEW k \in Nat, k \in T
        PROVE  k + 1 \in T
    <3>1. SUFFICES ASSUME k + 1 <= n PROVE h[k + 1] \in V
      OBVIOUS
    <3>2. k + 1 \in 1 .. n /\ k + 1 \in 0 .. n /\ (k + 1) - 1 = k /\ k + 1 # 0 /\ k <= n
      BY <3>1
    <3>3. h[k + 1] = step[k + 1][h[k]]
      BY <1>3, <3>2
    <3>4. h[k] \in V
      BY <2>2, <3>2
    <3>5. QED
      BY <3>2, <3>3, <3>4
  <2> HIDE DEF T
  <2>3. QED
    BY <2>1, <2>2, SimpleInduction
<1>6. \A k \in 0 .. n : h[k] \in V
  BY <1>5
<1>7. h \in [0 .. n -> V] /\ h[0] = x
  <2>1. 0 \in 0 .. n
    OBVIOUS
  <2>2. QED
    BY <1>3, <1>6, <2>1
<1>8. ASSUME NEW k \in 1 .. n
      PROVE  h[k] = step[k][h[k - 1]]
  <2>1. k \in 0 .. n /\ k # 0
    OBVIOUS
  <2>2. QED
    BY <1>3, <2>1
<1>9. Folds(h, V, x, n, step)
  BY <1>7, <1>8 DEF Folds
<1>10. QED
  BY <1>4, <1>9

\* The steps made one way are the steps made another way, as far as they agree.
LEMMA FoldsAgree ==
  ASSUME NEW V, NEW x, NEW n \in Nat, NEW m \in Nat, NEW f, NEW g, NEW step, NEW go,
         n <= m, Folds(f, V, x, n, step), Folds(g, V, x, m, go),
         \A k \in 1 .. n : step[k] = go[k]
  PROVE  \A k \in 0 .. n : f[k] = g[k]
<1> DEFINE T == {k \in Nat : k <= n => f[k] = g[k]}
<1>1. Nat \subseteq T
  <2>1. 0 \in T
    BY DEF Folds
  <2>2. ASSUME NEW k \in Nat, k \in T
        PROVE  k + 1 \in T
    <3>1. SUFFICES ASSUME k + 1 <= n PROVE f[k + 1] = g[k + 1]
      OBVIOUS
    <3>2. k + 1 \in 1 .. n /\ k + 1 \in 1 .. m /\ (k + 1) - 1 = k /\ k <= n
      BY <3>1
    <3>3. f[k + 1] = step[k + 1][f[k]] /\ g[k + 1] = go[k + 1][g[k]]
      BY <3>2 DEF Folds
    <3>4. QED
      BY <2>2, <3>2, <3>3
  <2> HIDE DEF T
  <2>3. QED
    BY <2>1, <2>2, SimpleInduction
<1>2. QED
  BY <1>1

\* A step for a value looks at less nested values only.
LooksBelow(step, V) ==
  /\ step \in [Value -> [[Value -> V] -> V]]
  /\ \A value \in Value : \A g, h \in [Value -> V] :
       (\A u \in Value : Level[u] < Level[value] => g[u] = h[u])
         => step[value][g] = step[value][h]

\* Functions of a value that are told from those of its elements exist.
LEMMA ValueRecursion ==
  ASSUME NEW V, NEW v0 \in V, NEW step,
         LooksBelow(step, V)
  PROVE  \E f \in [Value -> V] : \A value \in Value : f[value] = step[value][f]
<1>0. Level \in [Value -> Nat] /\ step \in [Value -> [[Value -> V] -> V]]
  BY WriterAssumption DEF LooksBelow
<1> USE <1>0
<1> DEFINE W == [Value -> V]
           first == {0}
           base == [n \in Nat |-> [value \in Value |-> v0]]
           before == [n \in Nat |-> IF n = 0 THEN 0 ELSE n - 1]
           go == [n \in Nat |-> [g \in W |-> [value \in Value |-> step[value][g]]]]
<1>1. /\ first \in SUBSET Nat /\ base \in [Nat -> W]
      /\ before \in [Nat -> Nat] /\ Descends(before, first)
  BY DEF Descends
<1>2. go \in [Nat -> [W -> W]]
  BY <1>0
<1>3. PICK F : Recurs(F, W, first, base, before, go)
  <2> HIDE DEF W, first, base, before, go
  <2>1. QED
    BY <1>1, <1>2, RecursionExists
<1>4. F \in [Nat -> W]
  BY <1>3 DEF Recurs
<1>5. ASSUME NEW n \in Nat
      PROVE  F[n + 1] = [value \in Value |-> step[value][F[n]]]
  <2>1. n + 1 \in Nat /\ n + 1 \notin first /\ before[n + 1] = n
    OBVIOUS
  <2>2. F[n + 1] = go[n + 1][F[n]]
    BY <1>3, <2>1 DEF Recurs
  <2>3. F[n] \in W
    BY <1>4
  <2>4. QED
    BY <2>1, <2>2, <2>3
<1> HIDE DEF first, base, before, go
<1> DEFINE T == {n \in Nat : \A value \in Value : Level[value] < n =>
                               F[n][value] = F[n + 1][value]}
<1>6. Nat \subseteq T
  <2>1. 0 \in T
    OBVIOUS
  <2>2. ASSUME NEW n \in Nat, n \in T
        PROVE  n + 1 \in T
    <3>1. SUFFICES ASSUME NEW value \in Value, Level[value] < n + 1
                   PROVE  F[n + 1][value] = F[(n + 1) + 1][value]
      OBVIOUS
    <3>2. F[n] \in W /\ F[n + 1] \in W /\ n + 1 \in Nat
      BY <1>4
    <3>3. \A u \in Value : Level[u] < Level[value] => F[n][u] = F[n + 1][u]
      BY <2>2, <3>1
    <3>4. step[value][F[n]] = step[value][F[n + 1]]
      BY <3>2, <3>3 DEF LooksBelow
    <3>5. F[n + 1] = [u \in Value |-> step[u][F[n]]]
      BY <1>5
    <3>6. F[(n + 1) + 1] = [u \in Value |-> step[u][F[n + 1]]]
      BY <1>5, <3>2
    <3>7. QED
      BY <3>4, <3>5, <3>6
  <2> HIDE DEF T
  <2>3. QED
    BY <2>1, <2>2, SimpleInduction
<1> DEFINE S == {d \in Nat : \A value \in Value :
                   F[Level[value] + 1][value] = F[(Level[value] + 1) + d][value]}
<1>7. Nat \subseteq S
  <2>1. 0 \in S
    OBVIOUS
  <2>2. ASSUME NEW d \in Nat, d \in S
        PROVE  d + 1 \in S
    <3>1. SUFFICES ASSUME NEW value \in Value
                   PROVE  F[Level[value] + 1][value] = F[(Level[value] + 1) + (d + 1)][value]
      OBVIOUS
    <3> DEFINE n == (Level[value] + 1) + d
    <3>2. n \in Nat /\ Level[value] < n /\ n + 1 = (Level[value] + 1) + (d + 1)
      OBVIOUS
    <3>3. F[n][value] = F[n + 1][value]
      BY <1>6, <3>2
    <3>4. QED
      BY <2>2, <3>2, <3>3
  <2> HIDE DEF S
  <2>3. QED
    BY <2>1, <2>2, SimpleInduction
<1> DEFINE f == [value \in Value |-> F[Level[value] + 1][value]]
<1>8. f \in W
  BY <1>4
<1>9. ASSUME NEW value \in Value
      PROVE  f[value] = step[value][f]
  <2> DEFINE n == Level[value]
  <2>1. n \in Nat /\ F[n] \in W
    BY <1>4
  <2>2. f[value] = step[value][F[n]]
    <3>1. F[n + 1] = [u \in Value |-> step[u][F[n]]]
      BY <1>5, <2>1
    <3>2. f[value] = F[n + 1][value]
      OBVIOUS
    <3>3. QED
      BY <3>1, <3>2
  <2>3. ASSUME NEW u \in Value, Level[u] < n
        PROVE  F[n][u] = f[u]
    <3> DEFINE d == n - (Level[u] + 1)
    <3>1. d \in Nat /\ (Level[u] + 1) + d = n
      BY <2>1, <2>3
    <3>2. d \in S
      BY <1>7, <3>1
    <3>3. QED
      BY <3>1, <3>2
  <2>4. step[value][F[n]] = step[value][f]
    BY <1>8, <2>1, <2>3 DEF LooksBelow
  <2>5. QED
    BY <2>2, <2>4
<1>10. QED
  BY <1>8, <1>9

-----------------------------------------------------------------------------
(* What a reader finds in a document. *)

Plain == Token \ (Blank \cup Comment)

LEMMA ReadTokenFinds ==
  ASSUME NEW hiding \in SUBSET LineComment,
         NEW r \in Found, NEW token \in Token
  PROVE  ReadToken(r, token, hiding) \in Found
<1>1. /\ r.tokens \in Document /\ r.comments \in Document /\ r.hidden \in BOOLEAN
  BY DEF Found
<1>2. Append(r.tokens, token) \in Document /\ Append(r.comments, token) \in Document
  BY <1>1, AppendProperties DEF Document
<1> DEFINE a == IF r.hidden \/ token \in Blank \cup Comment THEN r.tokens
                ELSE Append(r.tokens, token)
           b == IF token \in Comment THEN Append(r.comments, token) ELSE r.comments
           c == (r.hidden /\ token # "\n") \/ token \in hiding
<1>3. a \in Document
  BY <1>1, <1>2
<1>4. b \in Document
  BY <1>1, <1>2
<1>5. c \in BOOLEAN
  OBVIOUS
<1>6. ReadToken(r, token, hiding) = [tokens |-> a, comments |-> b, hidden |-> c]
  BY DEF ReadToken
<1> HIDE DEF a, b, c
<1>7. QED
  BY <1>3, <1>4, <1>5, <1>6 DEF Found

LEMMA ReadingFolds ==
  ASSUME NEW hiding \in SUBSET LineComment,
         NEW doc \in Document
  PROVE  \E f : /\ Folds(f, Found, [tokens |-> <<>>, comments |-> <<>>, hidden |-> FALSE],
                         Len(doc),
                         [k \in 1 .. Len(doc) |-> [r \in Found |-> ReadToken(r, doc[k], hiding)]])
                /\ Reading(doc, hiding) = f[Len(doc)]
<1> DEFINE x == [tokens |-> <<>>, comments |-> <<>>, hidden |-> FALSE]
           step == [k \in 1 .. Len(doc) |-> [r \in Found |-> ReadToken(r, doc[k], hiding)]]
<1>1. x \in Found
  BY DEF Found, Document
<1>2. Len(doc) \in Nat /\ \A k \in 1 .. Len(doc) : doc[k] \in Token
  BY DEF Document
<1>3. AreSteps(step, Len(doc), Found)
  BY <1>2, ReadTokenFinds DEF AreSteps
<1>4. Reading(doc, hiding) = After(x, Len(doc), step)
  BY DEF Reading
<1> HIDE DEF x, step
<1>5. \E f : Folds(f, Found, x, Len(doc), step) /\ After(x, Len(doc), step) = f[Len(doc)]
  BY <1>1, <1>2, <1>3, AfterSteps
<1>6. QED
  BY <1>4, <1>5 DEF x, step

LEMMA ReadingFinds ==
  ASSUME NEW hiding \in SUBSET LineComment,
         NEW doc \in Document
  PROVE  /\ Reading(doc, hiding) \in Found
         /\ Reading(doc, hiding).tokens \in Document
         /\ Reading(doc, hiding).comments \in Document
         /\ Reading(doc, hiding).hidden \in BOOLEAN
<1>1. Len(doc) \in 0 .. Len(doc)
  BY DEF Document
<1>2. Reading(doc, hiding) \in Found
  <2>1. PICK f : /\ Folds(f, Found, [tokens |-> <<>>, comments |-> <<>>, hidden |-> FALSE],
                         Len(doc),
                         [k \in 1 .. Len(doc) |-> [r \in Found |-> ReadToken(r, doc[k], hiding)]])
                 /\ Reading(doc, hiding) = f[Len(doc)]
    BY ReadingFolds
  <2>2. f \in [0 .. Len(doc) -> Found]
    BY <2>1 DEF Folds
  <2>3. QED
    BY <1>1, <2>1, <2>2
<1>3. QED
  BY <1>2 DEF Found

\* Nothing is found in nothing.
LEMMA ReadingNothing ==
  ASSUME NEW hiding \in SUBSET LineComment
  PROVE  Reading(<<>>, hiding) = [tokens |-> <<>>, comments |-> <<>>, hidden |-> FALSE]
<1>1. <<>> \in Document /\ Len(<<>>) = 0
  BY DEF Document
<1>2. QED
  BY <1>1, ReadingFolds DEF Folds

\* One token more is read after the others.
LEMMA ReadingAppend ==
  ASSUME NEW hiding \in SUBSET LineComment,
         NEW doc \in Document, NEW token \in Token
  PROVE  Reading(Append(doc, token), hiding) = ReadToken(Reading(doc, hiding), token, hiding)
<1> DEFINE x == [tokens |-> <<>>, comments |-> <<>>, hidden |-> FALSE]
           n == Len(doc)
           more == Append(doc, token)
           step == [k \in 1 .. Len(doc) |-> [r \in Found |-> ReadToken(r, doc[k], hiding)]]
           go == [k \in 1 .. Len(more) |-> [r \in Found |-> ReadToken(r, more[k], hiding)]]
<1>1. /\ more \in Document /\ n \in Nat /\ Len(more) = n + 1
      /\ \A k \in 1 .. n : more[k] = doc[k]
      /\ more[n + 1] = token
  BY AppendProperties, LenProperties DEF Document
<1>2. PICK f : Folds(f, Found, x, Len(doc), step) /\ Reading(doc, hiding) = f[Len(doc)]
  BY ReadingFolds
<1>3. PICK g : Folds(g, Found, x, Len(more), go) /\ Reading(more, hiding) = g[Len(more)]
  BY <1>1, ReadingFolds
<1>4. \A k \in 1 .. n : step[k] = go[k]
  BY <1>1
<1>5. g[n] = f[n]
  <2> DEFINE m == Len(more)
  <2>1. Folds(f, Found, x, n, step) /\ Folds(g, Found, x, m, go)
    BY <1>2, <1>3
  <2>2. n \in Nat /\ m \in Nat /\ n <= m /\ n \in 0 .. n
    BY <1>1
  <2> HIDE DEF x, step, go, n, more, m
  <2>3. \A k \in 0 .. n : f[k] = g[k]
    BY <1>4, <2>1, <2>2, FoldsAgree
  <2>4. QED
    BY <2>2, <2>3
<1>6. g[n + 1] = go[n + 1][g[n]]
  <2>1. n + 1 \in 1 .. Len(more) /\ (n + 1) - 1 = n
    BY <1>1
  <2>2. QED
    BY <1>3, <2>1 DEF Folds
<1>7. f[n] \in Found
  BY <1>2, ReadingFinds
<1>8. go[n + 1] = [r \in Found |-> ReadToken(r, token, hiding)]
  BY <1>1
<1>9. QED
  BY <1>1, <1>2, <1>3, <1>5, <1>6, <1>7, <1>8

\* A sequence that is not empty is one to which its last element was appended.
LEMMA Apart ==
  ASSUME NEW S, NEW n \in Nat, NEW s \in Seq(S), Len(s) = n + 1
  PROVE  \E front \in Seq(S), last \in S :
           s = Append(front, last) /\ Len(front) = n
<1>1. s # <<>>
  OBVIOUS
<1>2. PICK front \in Seq(S), last \in S : s = Append(front, last)
  BY <1>1, SequenceEmptyOrAppend
<1>3. Len(s) = Len(front) + 1 /\ Len(front) \in Nat
  BY <1>2, AppendProperties, LenProperties
<1>4. QED
  BY <1>2, <1>3

LEMMA ConcatAppend ==
  ASSUME NEW S, NEW s \in Seq(S), NEW t \in Seq(S), NEW e \in S
  PROVE  s \o Append(t, e) = Append(s \o t, e)
<1>1. <<e>> \in Seq(S)
  OBVIOUS
<1>2. Append(t, e) = t \o <<e>>
  BY AppendIsConcat
<1>3. s \o t \in Seq(S)
  BY ConcatProperties
<1>4. Append(s \o t, e) = (s \o t) \o <<e>>
  BY <1>3, AppendIsConcat
<1>5. QED
  BY <1>1, <1>2, <1>4, ConcatAssociative

\* Outside comments, tokens are what a reader finds.
LEMMA ReadingPlain ==
  ASSUME NEW hiding \in SUBSET LineComment,
         NEW doc \in Document, NEW s \in Seq(Plain), ~Reading(doc, hiding).hidden
  PROVE  Reading(doc \o s, hiding) = [tokens   |-> Reading(doc, hiding).tokens \o s,
                              comments |-> Reading(doc, hiding).comments,
                              hidden   |-> FALSE]
<1> DEFINE read(u) == [tokens   |-> Reading(doc, hiding).tokens \o u,
                       comments |-> Reading(doc, hiding).comments,
                       hidden   |-> FALSE]
           T == {n \in Nat : \A u \in Seq(Plain) : Len(u) = n => Reading(doc \o u, hiding) = read(u)}
<1>1. Reading(doc, hiding) \in Found /\ Reading(doc, hiding).tokens \in Document
  BY ReadingFinds
<1>2. Plain \subseteq Token
  BY DEF Plain
<1>3. \A u \in Seq(Plain) : u \in Document
  BY <1>2, SeqMonotonic DEF Document
<1>4. Nat \subseteq T
  <2>1. 0 \in T
    <3>1. SUFFICES ASSUME NEW u \in Seq(Plain), Len(u) = 0 PROVE Reading(doc \o u, hiding) = read(u)
      OBVIOUS
    <3>2. u = <<>>
      BY <3>1
    <3>3. doc \o u = doc /\ Reading(doc, hiding).tokens \o u = Reading(doc, hiding).tokens
      BY <1>1, <3>2, ConcatEmptySeq DEF Document
    <3>4. Reading(doc, hiding) = [tokens |-> Reading(doc, hiding).tokens,
                          comments |-> Reading(doc, hiding).comments, hidden |-> FALSE]
      BY <1>1 DEF Found
    <3>5. QED
      BY <3>3, <3>4
  <2>2. ASSUME NEW n \in Nat, n \in T
        PROVE  n + 1 \in T
    <3>1. SUFFICES ASSUME NEW u \in Seq(Plain), Len(u) = n + 1
                   PROVE  Reading(doc \o u, hiding) = read(u)
      OBVIOUS
    <3>2. PICK front \in Seq(Plain), last \in Plain : u = Append(front, last) /\ Len(front) = n
      BY <3>1, Apart
    <3>3. Reading(doc \o front, hiding) = read(front)
      BY <2>2, <3>2
    <3>4. front \in Document /\ last \in Token /\ doc \o front \in Document
      BY <1>2, <1>3, ConcatProperties DEF Document
    <3>5. doc \o u = Append(doc \o front, last)
      BY <3>2, <3>4, ConcatAppend DEF Document
    <3>6. Reading(doc, hiding).tokens \o u = Append(Reading(doc, hiding).tokens \o front, last)
      <4> DEFINE found == Reading(doc, hiding).tokens
      <4>1. found \in Seq(Token) /\ front \in Seq(Token)
        BY <1>1, <3>4 DEF Document
      <4> HIDE DEF found
      <4>2. found \o Append(front, last) = Append(found \o front, last)
        BY <3>4, <4>1, ConcatAppend
      <4>3. QED
        BY <3>2, <4>2 DEF found
    <3>7. Reading(doc \o u, hiding) = ReadToken(read(front), last, hiding)
      BY <3>3, <3>4, <3>5, ReadingAppend
    <3>8. last \notin Blank \cup Comment /\ last \notin LineComment
      BY <3>2 DEF Plain, Comment
    <3>9. /\ read(front).tokens = Reading(doc, hiding).tokens \o front
          /\ read(front).comments = Reading(doc, hiding).comments /\ ~read(front).hidden
      OBVIOUS
    <3>10. ReadToken(read(front), last, hiding) =
             [tokens |-> Append(Reading(doc, hiding).tokens \o front, last),
              comments |-> Reading(doc, hiding).comments, hidden |-> FALSE]
      <4> DEFINE r == read(front)
      <4>1. ~r.hidden /\ r.tokens = Reading(doc, hiding).tokens \o front
            /\ r.comments = Reading(doc, hiding).comments
        BY <3>9
      <4> HIDE DEF r
      <4>2. ReadToken(r, last, hiding) = [tokens |-> Append(r.tokens, last),
                                  comments |-> r.comments, hidden |-> FALSE]
        BY <3>8, <4>1 DEF ReadToken
      <4>3. QED
        BY <4>1, <4>2 DEF r
    <3>11. QED
      BY <3>6, <3>7, <3>10
  <2> HIDE DEF T
  <2>3. QED
    BY <2>1, <2>2, SimpleInduction
<1>5. Len(s) \in Nat
  OBVIOUS
<1>6. QED
  BY <1>4, <1>5

\* A reader passes over tokens that change nothing.
LEMMA ReadingPassesOver ==
  ASSUME NEW hiding \in SUBSET LineComment,
         NEW doc \in Document, NEW S, S \subseteq Token, NEW s \in Seq(S),
         \A t \in S : ReadToken(Reading(doc, hiding), t, hiding) = Reading(doc, hiding)
  PROVE  Reading(doc \o s, hiding) = Reading(doc, hiding)
<1> DEFINE T == {n \in Nat : \A u \in Seq(S) : Len(u) = n => Reading(doc \o u, hiding) = Reading(doc, hiding)}
<1>1. \A u \in Seq(S) : u \in Document
  BY SeqMonotonic DEF Document
<1>2. Nat \subseteq T
  <2>1. 0 \in T
    <3>1. SUFFICES ASSUME NEW u \in Seq(S), Len(u) = 0
                   PROVE  Reading(doc \o u, hiding) = Reading(doc, hiding)
      OBVIOUS
    <3>2. u = <<>>
      BY <3>1
    <3>3. QED
      BY <3>2, ConcatEmptySeq DEF Document
  <2>2. ASSUME NEW n \in Nat, n \in T
        PROVE  n + 1 \in T
    <3>1. SUFFICES ASSUME NEW u \in Seq(S), Len(u) = n + 1
                   PROVE  Reading(doc \o u, hiding) = Reading(doc, hiding)
      OBVIOUS
    <3>2. PICK front \in Seq(S), last \in S : u = Append(front, last) /\ Len(front) = n
      BY <3>1, Apart
    <3>3. Reading(doc \o front, hiding) = Reading(doc, hiding)
      BY <2>2, <3>2
    <3>4. front \in Document /\ last \in Token /\ doc \o front \in Document
      BY <1>1, ConcatProperties DEF Document
    <3>5. doc \o u = Append(doc \o front, last)
      BY <3>2, <3>4, ConcatAppend DEF Document
    <3>6. Reading(doc \o u, hiding) = ReadToken(Reading(doc, hiding), last, hiding)
      BY <3>3, <3>4, <3>5, ReadingAppend
    <3>7. QED
      BY <3>6
  <2> HIDE DEF T
  <2>3. QED
    BY <2>1, <2>2, SimpleInduction
<1>3. Len(s) \in Nat
  OBVIOUS
<1>4. QED
  BY <1>2, <1>3

\* It does not see indentation.
LEMMA ReadingIndented ==
  ASSUME NEW hiding \in SUBSET LineComment,
         NEW doc \in Document, NEW s \in Seq({Indentation})
  PROVE  Reading(doc \o s, hiding) = Reading(doc, hiding)
<1>1. Reading(doc, hiding) \in Found
  BY ReadingFinds
<1>2. Indentation \in Token
  BY DEF Indentation, Token, Blank
<1>3. /\ Indentation \in Blank /\ Indentation \notin Comment
      /\ Indentation \notin LineComment /\ Indentation # "\n"
  BY DEF Indentation, Blank, Comment, LineComment
<1>4. ReadToken(Reading(doc, hiding), Indentation, hiding) = Reading(doc, hiding)
  BY <1>1, <1>3 DEF ReadToken, Found
<1>5. QED
  BY <1>2, <1>4, ReadingPassesOver

-----------------------------------------------------------------------------
(* Values. *)

LEMMA ValueFacts ==
  ASSUME NEW value \in Value
  PROVE  /\ value.type \in {"scalar", "array", "object"}
         /\ value.token \in DOMAIN Width \cup {None}
         /\ value.kids \in Seq(Value)
         /\ size(value) \in Nat
         /\ \A k \in 1 .. size(value) : value.kids[k] \in Value
         /\ value.before \in Placement /\ value.same \in Placement
         /\ value.after \in Placement
         /\ value.type = "scalar" => value.token \in DOMAIN Width /\ size(value) = 0
<1>1. value \in Node
  BY WriterAssumption
<1>2. value.kids \in Seq(Value)
  BY <1>1 DEF Node
<1>3. size(value) \in Nat /\ \A k \in 1 .. size(value) : value.kids[k] \in Value
  BY <1>2, LenProperties, ElementOfSeq DEF size
<1>4. value.type = "scalar" => value.token \in DOMAIN Width /\ value.kids = <<>>
  BY WriterAssumption
<1>5. value.type = "scalar" => size(value) = 0
  BY <1>4 DEF size
<1>6. QED
  BY <1>1, <1>2, <1>3, <1>4, <1>5 DEF Node

\* What holds of a value if it holds of its elements holds of every value.
LEMMA ValueInduction ==
  ASSUME NEW T,
         \A value \in Value :
           (\A k \in 1 .. size(value) : value.kids[k] \in T) => value \in T
  PROVE  Value \subseteq T
<1>1. Level \in [Value -> Nat]
  BY WriterAssumption
<1> DEFINE S == {n \in Nat : \A value \in Value : Level[value] = n => value \in T}
<1>2. Nat \subseteq S
  <2>1. ASSUME NEW n \in Nat, \A m \in Nat : m < n => m \in S
        PROVE  n \in S
    <3>1. SUFFICES ASSUME NEW value \in Value, Level[value] = n PROVE value \in T
      OBVIOUS
    <3>2. ASSUME NEW k \in 1 .. size(value) PROVE value.kids[k] \in T
      <4>1. value.kids[k] \in Value
        BY ValueFacts
      <4>2. Level[value.kids[k]] < n
        BY <3>1, WriterAssumption
      <4>3. Level[value.kids[k]] \in Nat
        BY <1>1, <4>1
      <4>4. Level[value.kids[k]] \in S
        BY <2>1, <4>2, <4>3
      <4>5. QED
        BY <4>1, <4>4
    <3>3. QED
      BY <3>2
  <2> HIDE DEF S
  <2>2. QED
    BY <2>1, StrongInduction
<1>3. ASSUME NEW value \in Value PROVE value \in T
  <2>1. Level[value] \in S
    BY <1>1, <1>2
  <2>2. QED
    BY <2>1
<1>4. QED
  BY <1>3

\* What a function gives for the elements of a value.
Elements(value, g) == [k \in 1 .. size(value) |-> g[value.kids[k]]]

FromElements(body, V) ==
  \A value \in Value : \A kids \in [1 .. size(value) -> V] : body[value][kids] \in V

\* A function of a value that is told from the list of those of its elements
\* exists.
LEMMA ValueFunctionExists ==
  ASSUME NEW V, NEW v0 \in V, NEW body,
         FromElements(body, V)
  PROVE  \E f \in [Value -> V] : \A value \in Value :
           f[value] = body[value][Elements(value, f)]
<1> DEFINE step == [value \in Value |-> [g \in [Value -> V] |-> body[value][Elements(value, g)]]]
<1>1. Level \in [Value -> Nat]
  BY WriterAssumption
<1>2. ASSUME NEW value \in Value, NEW g \in [Value -> V]
      PROVE  body[value][Elements(value, g)] \in V
  <2>1. Elements(value, g) \in [1 .. size(value) -> V]
    BY ValueFacts DEF Elements
  <2>2. QED
    BY <2>1 DEF FromElements
<1>3. step \in [Value -> [[Value -> V] -> V]]
  BY <1>2
<1>4. ASSUME NEW value \in Value, NEW g \in [Value -> V], NEW h \in [Value -> V],
             \A u \in Value : Level[u] < Level[value] => g[u] = h[u]
      PROVE  step[value][g] = step[value][h]
  <2>1. ASSUME NEW k \in 1 .. size(value) PROVE g[value.kids[k]] = h[value.kids[k]]
    <3>1. value.kids[k] \in Value
      BY ValueFacts
    <3>2. Level[value.kids[k]] < Level[value]
      BY WriterAssumption
    <3>3. QED
      BY <1>4, <3>1, <3>2
  <2>2. Elements(value, g) = Elements(value, h)
    BY <2>1 DEF Elements
  <2>3. QED
    BY <2>2
<1>5. PICK f \in [Value -> V] : \A value \in Value : f[value] = step[value][f]
  <2>1. LooksBelow(step, V)
    BY <1>3, <1>4 DEF LooksBelow
  <2> HIDE DEF step
  <2>2. QED
    BY <2>1, ValueRecursion
<1>6. \A value \in Value : f[value] = body[value][Elements(value, f)]
  <2>1. QED
    BY <1>5
<1>7. QED
  BY <1>6

-----------------------------------------------------------------------------
(* FastWriter, and the comments of a value. *)

LEMMA TokenFacts ==
  /\ \A t \in {"[", "]", "{", "}", ",", ":", "name", "?"} : t \in Token
  /\ " " \in Token /\ Indentation \in Token /\ "\n" \in Token
  /\ Comment \subseteq Token /\ Placed \subseteq Comment /\ DOMAIN Width \subseteq Token
  /\ \A index : Name(index) = "name"
  /\ DOMAIN Width \subseteq Plain
  /\ \A t \in {"[", "]", "{", "}", ",", ":", "name", "?"} : t \in Plain
<1> USE DEF Token
<1>1. DOMAIN Width \cap (Blank \cup Comment) = {} /\ Placed \subseteq Comment
  BY WriterAssumption
<1>2. \A t \in {"[", "]", "{", "}", ",", ":", "name", "?"} :
        t \in Token /\ t \notin Blank \cup Comment
  BY DEF Token, Blank, Comment, LineComment, Indentation
<1>3. QED
  BY <1>1, <1>2 DEF Token, Plain, Blank, Name

LEMMA Tuples ==
  ASSUME NEW a \in Token
  PROVE  /\ <<>> \in Document /\ <<a>> \in Document
         /\ \A b \in Token : <<a, b>> \in Document
         /\ \A b, c \in Token : <<a, b, c>> \in Document
         /\ \A b, c, d \in Token : <<a, b, c, d>> \in Document
BY DEF Document

LEMMA Texts ==
  /\ <<>> \in Document /\ <<"[">> \in Document /\ <<"]">> \in Document
  /\ <<"{">> \in Document /\ <<"}">> \in Document /\ <<",">> \in Document
  /\ <<"?">> \in Document
  /\ <<"[", "]">> \in Document /\ <<"{", "}">> \in Document
  /\ <<"[", " ">> \in Document /\ <<" ", "]">> \in Document /\ <<",", " ">> \in Document
  /\ <<"\n">> \in Document
  /\ \A index : /\ <<Name(index), ":">> \in Document
               /\ <<Name(index), " ", ":", " ">> \in Document
<1>1. /\ "[" \in Token /\ "]" \in Token /\ "{" \in Token /\ "}" \in Token /\ "," \in Token
      /\ ":" \in Token /\ " " \in Token /\ "?" \in Token /\ "name" \in Token
      /\ "\n" \in Token
  BY TokenFacts
<1>2. \A index : Name(index) = "name"
  BY TokenFacts
<1>3. QED
  BY <1>1, <1>2, Tuples

\* What documents make one behind the other, and how far.
LEMMA JoinedSteps ==
  ASSUME NEW n \in Nat, NEW docs \in [1 .. n -> Document]
  PROVE  \E f \in [0 .. n -> Document] :
           /\ f[0] = <<>>
           /\ \A k \in 1 .. n : f[k] = f[k - 1] \o docs[k]
           /\ Joined(docs) = f[n]
<1> DEFINE step == [k \in 1 .. Len(docs) |-> [doc \in Document |-> doc \o docs[k]]]
<1>1. Len(docs) = n /\ docs \in Seq(Document)
  OBVIOUS
<1>2. AreSteps(step, n, Document)
  BY <1>1, ConcatProperties DEF Document, AreSteps
<1>3. <<>> \in Document
  BY DEF Document
<1>4. Joined(docs) = After(<<>>, n, step)
  BY <1>1 DEF Joined
<1> DEFINE x == <<>>
<1> HIDE DEF step, x
<1>5. PICK f : Folds(f, Document, x, n, step) /\ After(x, n, step) = f[n]
  <2>1. x \in Document
    BY <1>3 DEF x
  <2>2. QED
    BY <1>2, <2>1, AfterSteps
<1>6. f \in [0 .. n -> Document] /\ f[0] = <<>>
  BY <1>5 DEF Folds, x
<1>7. ASSUME NEW k \in 1 .. n PROVE f[k] = f[k - 1] \o docs[k]
  <2>1. f[k] = step[k][f[k - 1]]
    BY <1>5 DEF Folds
  <2>2. k - 1 \in 0 .. n
    OBVIOUS
  <2>3. f[k - 1] \in Document
    BY <1>6, <2>2
  <2>4. QED
    BY <1>1, <2>1, <2>3 DEF step
<1>8. QED
  BY <1>4, <1>5, <1>6, <1>7 DEF x

LEMMA JoinedIsDocument ==
  ASSUME NEW n \in Nat, NEW docs \in [1 .. n -> Document]
  PROVE  Joined(docs) \in Document
<1>1. n \in 0 .. n
  OBVIOUS
<1>2. PICK f \in [0 .. n -> Document] : Joined(docs) = f[n]
  BY JoinedSteps
<1>3. QED
  BY <1>1, <1>2

FastItems(value, kids) ==
  [index \in 1 .. size(value) |-> FastItem(value, index, kids[index])]

FastText(value, kids) ==
  CASE value.type = "scalar" -> <<value.token>>
    [] value.type = "array"  -> <<"[">> \o Joined(FastItems(value, kids)) \o <<"]">>
    [] value.type = "object" -> <<"{">> \o Joined(FastItems(value, kids)) \o <<"}">>

LEMMA FastItemIsDocument ==
  ASSUME NEW value \in Value, NEW index \in Nat, NEW written \in Document
  PROVE  FastItem(value, index, written) \in Document
<1> DEFINE a == IF index > 1 THEN <<",">> ELSE <<>>
           b == IF value.type = "object" THEN <<Name(index), ":">> ELSE <<>>
<1>1. a \in Document /\ b \in Document
  BY Texts
<1>2. FastItem(value, index, written) = (a \o b) \o written
  BY DEF FastItem
<1> HIDE DEF a, b
<1>3. QED
  BY <1>1, <1>2, ConcatProperties DEF Document

LEMMA FastTextIsDocument ==
  ASSUME NEW value \in Value, NEW kids \in [1 .. size(value) -> Document]
  PROVE  /\ FastItems(value, kids) \in [1 .. size(value) -> Document]
         /\ FastText(value, kids) \in Document
<1>1. /\ value.type \in {"scalar", "array", "object"} /\ size(value) \in Nat
      /\ value.type = "scalar" => value.token \in DOMAIN Width
  BY ValueFacts
<1>2. FastItems(value, kids) \in [1 .. size(value) -> Document]
  BY FastItemIsDocument DEF FastItems
<1>3. Joined(FastItems(value, kids)) \in Document
  BY <1>1, <1>2, JoinedIsDocument
<1>4. /\ <<"[">> \in Document /\ <<"]">> \in Document /\ <<"{">> \in Document
      /\ <<"}">> \in Document
      /\ value.type = "scalar" => <<value.token>> \in Document
  <2>1. value.type = "scalar" => value.token \in Token
    BY <1>1, TokenFacts
  <2>2. QED
    BY <2>1, Texts, Tuples
<1>5. /\ <<"[">> \o Joined(FastItems(value, kids)) \o <<"]">> \in Document
      /\ <<"{">> \o Joined(FastItems(value, kids)) \o <<"}">> \in Document
  BY <1>3, <1>4, ConcatProperties DEF Document
<1>6. QED
  BY <1>1, <1>2, <1>4, <1>5 DEF FastText

LEMMA FastUnfolds ==
  /\ FastValue \in [Value -> Document]
  /\ \A value \in Value :
       FastValue[value] = FastText(value, Elements(value, FastValue))
<1> DEFINE body == [value \in Value |->
                      [kids \in [1 .. size(value) -> Document] |-> FastText(value, kids)]]
           F == FastValue
<1>1. ASSUME NEW value \in Value, NEW g, \A k \in 1 .. size(value) : g[value.kids[k]] \in Document
      PROVE  Elements(value, g) \in [1 .. size(value) -> Document]
  BY <1>1 DEF Elements
<1>2. PICK f \in [Value -> Document] : \A value \in Value :
        f[value] = body[value][Elements(value, f)]
  <2>1. FromElements(body, Document)
    BY FastTextIsDocument DEF FromElements
  <2>2. <<>> \in Document
    BY Texts
  <2> HIDE DEF body
  <2>3. QED
    BY <2>1, <2>2, ValueFunctionExists
<1>3. ASSUME NEW value \in Value PROVE f[value] = FastText(value, Elements(value, f))
  <2>1. Elements(value, f) \in [1 .. size(value) -> Document]
    BY <1>1, ValueFacts
  <2>2. QED
    BY <1>2, <2>1
<1>4. f = [value \in Value |-> FastText(value, Elements(value, f))]
  BY <1>2, <1>3
<1>5. F = CHOOSE g : g = [value \in Value |-> FastText(value, Elements(value, g))]
  BY DEF FastValue, FastText, FastItems, Elements
<1> HIDE DEF F
<1>6. F = [value \in Value |-> FastText(value, Elements(value, F))]
  BY <1>4, <1>5
<1>7. \A value \in Value : F[value] = FastText(value, Elements(value, F))
  BY <1>6
<1> DEFINE T == {value \in Value : F[value] \in Document}
<1>8. Value \subseteq T
  <2>1. ASSUME NEW value \in Value, \A k \in 1 .. size(value) : value.kids[k] \in T
        PROVE  value \in T
    <3>1. Elements(value, F) \in [1 .. size(value) -> Document]
      BY <1>1, <2>1
    <3>2. QED
      BY <1>7, <3>1, FastTextIsDocument
  <2> HIDE DEF T
  <2>2. QED
    BY <2>1, ValueInduction
<1>9. F \in [Value -> Document]
  BY <1>6, <1>8
<1>10. QED
  BY <1>7, <1>9 DEF F

\* The comments of a value's elements, as far as they are written.
Inside(value, kids) == IF OneLine(value) THEN <<>> ELSE Joined(kids)

CommentsText(value, kids) ==
  Given(value.before) \o Inside(value, kids) \o Given(value.same) \o Given(value.after)

LEMMA GivenIsDocument ==
  ASSUME NEW comment \in Placement
  PROVE  Given(comment) \in Document
<1>1. comment # None => comment \in Token
  BY TokenFacts DEF Placement
<1>2. QED
  BY <1>1, Texts, Tuples DEF Given

LEMMA InsideIsDocument ==
  ASSUME NEW value \in Value, NEW kids \in [1 .. size(value) -> Document]
  PROVE  Inside(value, kids) \in Document
<1>1. size(value) \in Nat
  BY ValueFacts
<1>2. Joined(kids) \in Document
  BY <1>1, JoinedIsDocument
<1>3. QED
  BY <1>2, Texts DEF Inside

LEMMA CommentsTextIsDocument ==
  ASSUME NEW value \in Value, NEW kids \in [1 .. size(value) -> Document]
  PROVE  CommentsText(value, kids) \in Document
<1> DEFINE a == Given(value.before)
           b == Inside(value, kids)
           c == Given(value.same)
           d == Given(value.after)
<1>1. a \in Document /\ b \in Document /\ c \in Document /\ d \in Document
  BY ValueFacts, GivenIsDocument, InsideIsDocument
<1>2. CommentsText(value, kids) = ((a \o b) \o c) \o d
  BY DEF CommentsText
<1> HIDE DEF a, b, c, d
<1>3. a \o b \in Document
  BY <1>1, ConcatProperties DEF Document
<1>4. (a \o b) \o c \in Document
  BY <1>1, <1>3, ConcatProperties DEF Document
<1>5. QED
  BY <1>1, <1>2, <1>4, ConcatProperties DEF Document

LEMMA CommentsUnfold ==
  /\ CommentsOf \in [Value -> Document]
  /\ \A value \in Value :
       CommentsOf[value] = CommentsText(value, Elements(value, CommentsOf))
<1> DEFINE body == [value \in Value |->
                      [kids \in [1 .. size(value) -> Document] |-> CommentsText(value, kids)]]
           F == CommentsOf
<1>1. ASSUME NEW value \in Value, NEW g, \A k \in 1 .. size(value) : g[value.kids[k]] \in Document
      PROVE  Elements(value, g) \in [1 .. size(value) -> Document]
  BY <1>1 DEF Elements
<1>2. PICK f \in [Value -> Document] : \A value \in Value :
        f[value] = body[value][Elements(value, f)]
  <2>1. FromElements(body, Document)
    BY CommentsTextIsDocument DEF FromElements
  <2>2. <<>> \in Document
    BY Texts
  <2> HIDE DEF body
  <2>3. QED
    BY <2>1, <2>2, ValueFunctionExists
<1>3. ASSUME NEW value \in Value PROVE f[value] = CommentsText(value, Elements(value, f))
  <2>1. Elements(value, f) \in [1 .. size(value) -> Document]
    BY <1>1, ValueFacts
  <2>2. QED
    BY <1>2, <2>1
<1>4. f = [value \in Value |-> CommentsText(value, Elements(value, f))]
  BY <1>2, <1>3
<1>5. F = CHOOSE g : g = [value \in Value |-> CommentsText(value, Elements(value, g))]
  BY DEF CommentsOf, CommentsText, Inside, Elements
<1> HIDE DEF F
<1>6. F = [value \in Value |-> CommentsText(value, Elements(value, F))]
  BY <1>4, <1>5
<1>7. \A value \in Value : F[value] = CommentsText(value, Elements(value, F))
  BY <1>6
<1> DEFINE T == {value \in Value : F[value] \in Document}
<1>8. Value \subseteq T
  <2>1. ASSUME NEW value \in Value, \A k \in 1 .. size(value) : value.kids[k] \in T
        PROVE  value \in T
    <3>1. Elements(value, F) \in [1 .. size(value) -> Document]
      BY <1>1, <2>1
    <3>2. QED
      BY <1>7, <3>1, CommentsTextIsDocument
  <2> HIDE DEF T
  <2>2. QED
    BY <2>1, ValueInduction
<1>9. F \in [Value -> Document]
  BY <1>6, <1>8
<1>10. QED
  BY <1>7, <1>9 DEF F

-----------------------------------------------------------------------------
(* What the writer's operations do to its members. *)

LEMMA WriterFacts ==
  ASSUME NEW w \in Writer
  PROVE  /\ w.isStream \in BOOLEAN /\ w.document_ \in Document
         /\ w.addChildValues_ \in BOOLEAN /\ w.indentString_ \in Int
         /\ w.childValues_ \in Seq(Document) /\ w.holds \in BOOLEAN
BY DEF Writer

\* Putting tokens changes the document.
LEMMA PutFacts ==
  ASSUME NEW w \in Writer, NEW tokens \in Document
  PROVE  /\ Put(w, tokens) \in Writer
         /\ Put(w, tokens) = [w EXCEPT !.document_ = w.document_ \o tokens]
         /\ Put(w, tokens).document_ = w.document_ \o tokens
         /\ w.document_ \o tokens \in Document
         /\ Put(w, tokens).isStream = w.isStream
         /\ Put(w, tokens).addChildValues_ = w.addChildValues_
         /\ Put(w, tokens).indentString_ = w.indentString_
         /\ Put(w, tokens).childValues_ = w.childValues_
         /\ Put(w, tokens).holds = w.holds
<1>1. w.document_ \o tokens \in Document
  BY WriterFacts, ConcatProperties DEF Document
<1>2. QED
  BY <1>1 DEF Put, Writer

LEMMA IndentFacts ==
  ASSUME NEW w \in Writer
  PROVE  Indent(w) \in Seq({Indentation}) /\ Indent(w) \in Document
<1>1. w.indentString_ \in Int
  BY WriterFacts
<1>2. Indent(w) \in Seq({Indentation})
  <2>1. CASE w.indentString_ > 0
    <3>1. w.indentString_ \in Nat
      BY <1>1, <2>1
    <3>2. QED
      BY <3>1 DEF Indent
  <2>2. CASE ~(w.indentString_ > 0)
    <3>1. 1 .. w.indentString_ = 1 .. 0
      BY <1>1, <2>2
    <3>2. Indent(w) = [k \in 1 .. 0 |-> Indentation]
      BY <3>1 DEF Indent
    <3>3. QED
      BY <3>2
  <2>3. QED
    BY <2>1, <2>2
<1>3. {Indentation} \subseteq Token
  BY TokenFacts
<1>4. QED
  BY <1>2, <1>3, SeqMonotonic DEF Document

\* writeIndent puts some tokens, told from the kind, the indentation and the
\* document.
IndentTokens(w) ==
  IF w.isStream THEN <<"\n">> \o Indent(w)
  ELSE LET new == w.document_ = <<>> \/ Last(w.document_) = "\n"
       IN  IF ~new /\ EndsInSpace(w.document_) THEN <<>>
           ELSE (IF new THEN <<>> ELSE <<"\n">>) \o Indent(w)

LEMMA WriteIndentPuts ==
  ASSUME NEW w \in Writer
  PROVE  IndentTokens(w) \in Document /\ writeIndent(w) = Put(w, IndentTokens(w))
<1>1. Indent(w) \in Document /\ <<"\n">> \in Document /\ <<>> \in Document
  BY IndentFacts, Texts
<1>2. <<"\n">> \o Indent(w) \in Document /\ <<>> \o Indent(w) \in Document
  BY <1>1, ConcatProperties DEF Document
<1>3. IndentTokens(w) \in Document
  BY <1>1, <1>2 DEF IndentTokens
<1>4. Put(w, <<>>) = w
  <2>1. w.document_ \o <<>> = w.document_
    BY WriterFacts, ConcatEmptySeq DEF Document
  <2>2. QED
    BY <2>1 DEF Put, Writer
<1>5. QED
  BY <1>3, <1>4 DEF IndentTokens, writeIndent, streamIndent, stringIndent

LEMMA WriteWithIndentPuts ==
  ASSUME NEW w \in Writer, NEW tokens \in Document
  PROVE  /\ writeIndent(w) \in Writer
         /\ writeWithIndent(w, tokens) \in Writer
         /\ writeWithIndent(w, tokens) = Put(writeIndent(w), tokens)
<1>1. writeIndent(w) \in Writer
  BY WriteIndentPuts, PutFacts
<1>2. QED
  BY <1>1, PutFacts DEF writeWithIndent

LEMMA IndentingFacts ==
  ASSUME NEW w \in Writer
  PROVE  /\ indent(w) \in Writer /\ unindent(w) \in Writer
         /\ indent(w) = [w EXCEPT !.indentString_ = w.indentString_ + 1]
         /\ unindent(w) = [w EXCEPT !.indentString_ = w.indentString_ - 1,
                                    !.holds = w.holds /\ w.indentString_ > 0]
<1>1. w.indentString_ + 1 \in Int /\ w.indentString_ - 1 \in Int
      /\ (w.holds /\ w.indentString_ > 0) \in BOOLEAN
  BY WriterFacts
<1>2. QED
  BY <1>1 DEF indent, unindent, Writer

\* The tokens around a comment before a value, and after one.
BeforeTokens(value) ==
  IF value.before = None THEN <<>> ELSE <<value.before, "\n">>
AfterTokens(value) ==
  (IF value.same = None THEN <<>> ELSE <<" ", value.same>>) \o
    (IF value.after = None THEN <<>> ELSE <<"\n", value.after, "\n">>)

LEMMA CommentTokens ==
  ASSUME NEW value \in Value
  PROVE  BeforeTokens(value) \in Document /\ AfterTokens(value) \in Document
<1>1. \A c \in Placement : c # None => c \in Token
  BY TokenFacts DEF Placement
<1>2. value.before \in Placement /\ value.same \in Placement /\ value.after \in Placement
  BY ValueFacts
<1>3. "\n" \in Token /\ " " \in Token
  BY TokenFacts
<1>4. BeforeTokens(value) \in Document
  BY <1>1, <1>2, <1>3, Tuples DEF BeforeTokens
<1>5. value.same # None => <<" ", value.same>> \in Document
  BY <1>1, <1>2, <1>3, Tuples
<1>6. value.after # None => <<"\n", value.after, "\n">> \in Document
  <2>1. value.after # None => value.after \in Token
    BY <1>1, <1>2
  <2>2. QED
    BY <1>3, <2>1, Tuples
<1>7. QED
  BY <1>4, <1>5, <1>6, Texts, ConcatProperties DEF AfterTokens, Document

LEMMA WriteCommentsPut ==
  ASSUME NEW w \in Writer, NEW value \in Value
  PROVE  /\ writeCommentBeforeValue(w, value) = Put(w, BeforeTokens(value))
         /\ writeCommentBeforeValue(w, value) \in Writer
         /\ writeCommentAfterValueOnSameLine(w, value) = Put(w, AfterTokens(value))
         /\ writeCommentAfterValueOnSameLine(w, value) \in Writer
<1>1. Put(w, <<>>) = w
  <2>1. w.document_ \o <<>> = w.document_
    BY WriterFacts, ConcatEmptySeq DEF Document
  <2>2. QED
    BY <2>1 DEF Put, Writer
<1>2. writeCommentBeforeValue(w, value) = Put(w, BeforeTokens(value))
  BY <1>1 DEF writeCommentBeforeValue, BeforeTokens
<1>3. writeCommentAfterValueOnSameLine(w, value) = Put(w, AfterTokens(value))
  BY DEF writeCommentAfterValueOnSameLine, AfterTokens
<1>4. QED
  BY <1>2, <1>3, CommentTokens, PutFacts

LEMMA PushIsWriter ==
  ASSUME NEW w \in Writer, NEW tokens \in Document
  PROVE  pushValue(w, tokens) \in Writer
<1>1. Put(w, tokens) \in Writer
  BY PutFacts
<1>2. [w EXCEPT !.childValues_ = Append(w.childValues_, tokens)] \in Writer
  <2>1. Append(w.childValues_, tokens) \in Seq(Document)
    BY WriterFacts, AppendProperties
  <2>2. QED
    BY <2>1 DEF Writer
<1>3. QED
  BY <1>1, <1>2 DEF pushValue

LEMMA ChildValueIsDocument ==
  ASSUME NEW w \in Writer, NEW index \in Nat \ {0}
  PROVE  childValue(w, index) \in Document
<1>1. w.childValues_ \in Seq(Document)
  BY WriterFacts
<1>2. index <= Len(w.childValues_) => index \in 1 .. Len(w.childValues_)
  BY <1>1
<1>3. index <= Len(w.childValues_) => w.childValues_[index] \in Document
  BY <1>1, <1>2, ElementOfSeq
<1>4. QED
  BY <1>3, Texts DEF childValue

AreWriters(writeKid, n) == writeKid \in [1 .. n -> [Writer -> Writer]]

LEMMA MeasuredIsWriter ==
  ASSUME NEW w \in Writer, NEW value \in Value, NEW writeKid,
         AreWriters(writeKid, size(value))
  PROVE  /\ isMultineArray(w, value, writeKid).writer \in Writer
         /\ Measured(w, value, writeKid).writer \in Writer
<1> DEFINE walked(u) == After([u EXCEPT !.addChildValues_ = TRUE], size(value), writeKid)
<1>1. ASSUME NEW u \in Writer
      PROVE  walked(u) \in Writer
  <2> DEFINE x == [u EXCEPT !.addChildValues_ = TRUE]
             n == size(value)
  <2>1. x \in Writer
    BY DEF Writer
  <2>2. n \in Nat /\ AreSteps(writeKid, n, Writer) /\ n \in 0 .. n
    BY ValueFacts DEF AreWriters, AreSteps
  <2> HIDE DEF x, n
  <2>3. PICK f : Folds(f, Writer, x, n, writeKid) /\ After(x, n, writeKid) = f[n]
    BY <2>1, <2>2, AfterSteps
  <2>4. f[n] \in Writer
    BY <2>2, <2>3 DEF Folds
  <2>5. QED
    BY <2>3, <2>4 DEF x, n
<1>2. ASSUME NEW u \in Writer
      PROVE  Measured(u, value, writeKid).writer \in Writer
  <2>1. [walked(u) EXCEPT !.addChildValues_ = FALSE] \in Writer
    <3>1. walked(u) \in Writer
      BY <1>1
    <3> HIDE DEF walked
    <3>2. QED
      BY <3>1 DEF Writer
  <2> DEFINE v == [walked(u) EXCEPT !.addChildValues_ = FALSE]
  <2>2. Measured(u, value, writeKid).writer \in {u, v}
    BY DEF Measured
  <2> HIDE DEF v
  <2>3. QED
    BY <2>1, <2>2 DEF v
<1>3. [w EXCEPT !.childValues_ = <<>>] \in Writer
  <2>1. <<>> \in Seq(Document)
    OBVIOUS
  <2>2. QED
    BY <2>1 DEF Writer
<1>4. QED
  BY <1>2, <1>3 DEF isMultineArray

LEMMA LineIsWriter ==
  ASSUME NEW w \in Writer, NEW value \in Value, NEW index \in 1 .. size(value),
         NEW has \in BOOLEAN, NEW writeKid, AreWriters(writeKid, size(value))
  PROVE  /\ Item(w, value, index, has, writeKid) \in Writer
         /\ Line(w, value, index, has, writeKid) \in Writer
<1>1. size(value) \in Nat /\ index \in Nat \ {0} /\ value.kids[index] \in Value
  BY ValueFacts
<1>2. \A u \in Writer : writeKid[index][u] \in Writer
  BY DEF AreWriters
<1>3. ASSUME NEW u \in Writer PROVE Item(u, value, index, has, writeKid) \in Writer
  <2> DEFINE a == writeKid[index][writeWithIndent(u, <<Name(index), " ", ":", " ">>)]
             x == writeWithIndent(u, childValue(u, index))
             b == [x EXCEPT !.holds = x.holds /\ index <= Len(u.childValues_)]
             c == writeKid[index][writeIndent(u)]
  <2>1. a \in Writer /\ c \in Writer
    BY <1>2, Texts, WriteWithIndentPuts
  <2>2. x \in Writer
    BY <1>1, ChildValueIsDocument, WriteWithIndentPuts
  <2> HIDE DEF x
  <2>3. b \in Writer
    BY <2>2 DEF Writer
  <2>4. Item(u, value, index, has, writeKid) \in {a, b, c}
    <3>1. CASE value.type = "object"
      BY <3>1 DEF Item
    <3>2. CASE value.type # "object" /\ has
      BY <3>2 DEF Item, x
    <3>3. CASE value.type # "object" /\ ~has
      BY <3>3 DEF Item
    <3>4. QED
      BY <3>1, <3>2, <3>3
  <2> HIDE DEF a, b, c
  <2>5. QED
    BY <2>1, <2>3, <2>4
<1> DEFINE kid == value.kids[index]
           before == writeCommentBeforeValue(w, kid)
           written == Item(before, value, index, has, writeKid)
           more == IF index = size(value) THEN written ELSE Put(written, <<",">>)
<1>4. before \in Writer
  BY <1>1, WriteCommentsPut
<1>5. written \in Writer
  BY <1>3, <1>4
<1>6. more \in Writer
  BY <1>5, Texts, PutFacts
<1>7. writeCommentAfterValueOnSameLine(more, kid) \in Writer
  <2> HIDE DEF more
  <2>1. QED
    BY <1>1, <1>6, WriteCommentsPut
<1>8. QED
  BY <1>3, <1>7 DEF Line

LEMMA LineSteps ==
  ASSUME NEW w \in Writer, NEW value \in Value, NEW has \in BOOLEAN, NEW writeKid,
         AreWriters(writeKid, size(value))
  PROVE  \E f \in [0 .. size(value) -> Writer] :
           /\ f[0] = w
           /\ \A k \in 1 .. size(value) : f[k] = Line(f[k - 1], value, k, has, writeKid)
           /\ Lines(w, value, has, writeKid) = f[size(value)]
<1> DEFINE n == size(value)
           step == [index \in 1 .. n |->
                      [acc \in Writer |-> Line(acc, value, index, has, writeKid)]]
<1>1. n \in Nat /\ AreSteps(step, n, Writer)
  BY ValueFacts, LineIsWriter DEF AreSteps
<1>2. Lines(w, value, has, writeKid) = After(w, n, step)
  BY DEF Lines
<1>3. \A k \in 1 .. n : \A acc \in Writer :
        step[k][acc] = Line(acc, value, k, has, writeKid)
  OBVIOUS
<1> HIDE DEF n, step
<1>4. PICK f : Folds(f, Writer, w, n, step) /\ After(w, n, step) = f[n]
  BY <1>1, AfterSteps
<1>5. f \in [0 .. n -> Writer] /\ f[0] = w
  BY <1>4 DEF Folds
<1>6. ASSUME NEW k \in 1 .. n PROVE f[k] = Line(f[k - 1], value, k, has, writeKid)
  <2>1. f[k] = step[k][f[k - 1]]
    BY <1>4 DEF Folds
  <2>2. k - 1 \in 0 .. n
    BY <1>1
  <2>3. f[k - 1] \in Writer
    BY <1>5, <2>2
  <2>4. QED
    BY <1>3, <2>1, <2>3
<1>7. QED
  BY <1>2, <1>4, <1>5, <1>6 DEF n

LEMMA BracketedIsWriter ==
  ASSUME NEW w \in Writer, NEW value \in Value, NEW has \in BOOLEAN, NEW writeKid,
         NEW open, NEW close, <<open>> \in Document, <<close>> \in Document,
         AreWriters(writeKid, size(value))
  PROVE  Bracketed(w, value, has, writeKid, open, close) \in Writer
<1> DEFINE a == indent(writeWithIndent(w, <<open>>))
           b == Lines(a, value, has, writeKid)
<1>1. a \in Writer
  BY WriteWithIndentPuts, IndentingFacts
<1>2. b \in Writer
  <2>1. size(value) \in 0 .. size(value)
    BY ValueFacts
  <2> HIDE DEF a
  <2>2. PICK f \in [0 .. size(value) -> Writer] : b = f[size(value)]
    BY <1>1, LineSteps
  <2>3. QED
    BY <2>1, <2>2
<1>3. Bracketed(w, value, has, writeKid, open, close) = writeWithIndent(unindent(b), <<close>>)
  BY DEF Bracketed
<1> HIDE DEF b
<1> DEFINE c == unindent(b)
<1>4. c \in Writer
  BY <1>2, IndentingFacts
<1> HIDE DEF c
<1>5. writeWithIndent(c, <<close>>) \in Writer
  BY <1>4, WriteWithIndentPuts
<1>6. QED
  BY <1>3, <1>5 DEF c

\* The elements of an array on a single line.
SingleItems(w, value) ==
  [index \in 1 .. size(value) |->
     (IF index > 1 THEN <<",", " ">> ELSE <<>>) \o childValue(w, index)]

LEMMA SingleLineIsWriter ==
  ASSUME NEW w \in Writer, NEW value \in Value
  PROVE  /\ SingleItems(w, value) \in [1 .. size(value) -> Document]
         /\ <<"[", " ">> \o Joined(SingleItems(w, value)) \o <<" ", "]">> \in Document
         /\ SingleLine(w, value) \in Writer
         /\ SingleLine(w, value) =
              [w EXCEPT !.document_ = w.document_ \o
                 (<<"[", " ">> \o Joined(SingleItems(w, value)) \o <<" ", "]">>),
                        !.holds = w.holds /\ Len(w.childValues_) = size(value)]
<1> DEFINE items == Joined(SingleItems(w, value))
           tokens == <<"[", " ">> \o items \o <<" ", "]">>
<1>1. ASSUME NEW index \in 1 .. size(value)
      PROVE  (IF index > 1 THEN <<",", " ">> ELSE <<>>) \o childValue(w, index) \in Document
  <2> DEFINE a == IF index > 1 THEN <<",", " ">> ELSE <<>>
             b == childValue(w, index)
  <2>1. a \in Document
    BY Texts
  <2>2. index \in Nat \ {0}
    BY ValueFacts
  <2>3. b \in Document
    BY <2>2, ChildValueIsDocument
  <2> HIDE DEF a, b
  <2>4. a \o b \in Document
    BY <2>1, <2>3, ConcatProperties DEF Document
  <2>5. QED
    BY <2>4 DEF a, b
<1>2. SingleItems(w, value) \in [1 .. size(value) -> Document]
  BY <1>1 DEF SingleItems
<1>3. items \in Document
  BY <1>2, ValueFacts, JoinedIsDocument
<1>4. tokens \in Document
  <2> HIDE DEF items
  <2>1. QED
    BY <1>3, Texts, ConcatProperties DEF Document
<1>5. SingleLine(w, value) = [Put(w, tokens) EXCEPT !.holds =
                                Put(w, tokens).holds /\ Len(w.childValues_) = size(value)]
  BY DEF SingleLine, SingleItems
<1> HIDE DEF tokens
<1>6. /\ Put(w, tokens).holds = w.holds
      /\ Put(w, tokens) = [w EXCEPT !.document_ = w.document_ \o tokens]
      /\ Put(w, tokens) \in Writer
  BY <1>4, PutFacts
<1>7. SingleLine(w, value) = [w EXCEPT !.document_ = w.document_ \o tokens,
                                       !.holds = w.holds /\ Len(w.childValues_) = size(value)]
  BY <1>5, <1>6 DEF Writer
<1>8. SingleLine(w, value) \in Writer
  BY <1>5, <1>6 DEF Writer
<1>9. QED
  BY <1>2, <1>4, <1>7, <1>8 DEF tokens

\* What writing a value does to a writer, from what writing its elements does.
WriteBody(value, kids) ==
  [w \in Writer |->
     CASE value.type = "scalar" -> pushValue(w, <<value.token>>)
       [] value.type = "array"  -> writeArrayValue(w, value, kids)
       [] value.type = "object" -> writeObjectValue(w, value, kids)]

LEMMA WriteBodyIsWriter ==
  ASSUME NEW value \in Value, NEW kids, AreWriters(kids, size(value))
  PROVE  WriteBody(value, kids) \in [Writer -> Writer]
<1>1. /\ value.type \in {"scalar", "array", "object"}
      /\ value.type = "scalar" => value.token \in Token
  BY ValueFacts, TokenFacts
<1>2. ASSUME NEW w \in Writer PROVE writeArrayValue(w, value, kids) \in Writer
  <2> DEFINE is == isMultineArray(w, value, kids)
             u == is.writer
  <2>1. u \in Writer
    BY MeasuredIsWriter
  <2>2. pushValue(w, <<"[", "]">>) \in Writer
    BY Texts, PushIsWriter
  <2> HIDE DEF u
  <2>3. Bracketed(u, value, u.childValues_ # <<>>, kids, "[", "]") \in Writer
    BY <2>1, Texts, BracketedIsWriter
  <2>4. SingleLine(u, value) \in Writer
    BY <2>1, SingleLineIsWriter
  <2>5. QED
    BY <2>2, <2>3, <2>4 DEF writeArrayValue, u
<1>3. ASSUME NEW w \in Writer PROVE writeObjectValue(w, value, kids) \in Writer
  BY Texts, PushIsWriter, BracketedIsWriter DEF writeObjectValue
<1>4. ASSUME NEW w \in Writer, value.type = "scalar"
      PROVE  pushValue(w, <<value.token>>) \in Writer
  BY <1>1, <1>4, Tuples, PushIsWriter
<1>5. QED
  BY <1>1, <1>2, <1>3, <1>4 DEF WriteBody

LEMMA WriteUnfolds ==
  /\ writeValue \in [Value -> [Writer -> Writer]]
  /\ \A value \in Value :
       /\ AreWriters(Elements(value, writeValue), size(value))
       /\ writeValue[value] = WriteBody(value, Elements(value, writeValue))
<1> DEFINE V == [Writer -> Writer]
           body == [value \in Value |-> [kids \in [1 .. size(value) -> V] |->
                                           WriteBody(value, kids)]]
           F == writeValue
<1>1. ASSUME NEW value \in Value, NEW g, \A k \in 1 .. size(value) : g[value.kids[k]] \in V
      PROVE  /\ Elements(value, g) \in [1 .. size(value) -> V]
             /\ AreWriters(Elements(value, g), size(value))
  BY <1>1 DEF Elements, AreWriters
<1>2. PICK f \in [Value -> V] : \A value \in Value :
        f[value] = body[value][Elements(value, f)]
  <2>1. FromElements(body, V)
    BY WriteBodyIsWriter DEF FromElements, AreWriters
  <2>2. [w \in Writer |-> w] \in V
    OBVIOUS
  <2> HIDE DEF body, V
  <2>3. QED
    BY <2>1, <2>2, ValueFunctionExists
<1>3. ASSUME NEW value \in Value PROVE f[value] = WriteBody(value, Elements(value, f))
  <2>1. Elements(value, f) \in [1 .. size(value) -> V]
    BY <1>1, ValueFacts
  <2> HIDE DEF V
  <2>2. QED
    BY <1>2, <2>1
<1>4. f = [value \in Value |-> WriteBody(value, Elements(value, f))]
  <2> HIDE DEF V
  <2>1. QED
    BY <1>2, <1>3
<1>5. F = CHOOSE g : g = [value \in Value |-> WriteBody(value, Elements(value, g))]
  BY DEF writeValue, WriteBody, Elements
<1> HIDE DEF F
<1>6. F = [value \in Value |-> WriteBody(value, Elements(value, F))]
  BY <1>4, <1>5
<1>7. \A value \in Value : F[value] = WriteBody(value, Elements(value, F))
  BY <1>6
<1> DEFINE T == {value \in Value : F[value] \in V}
<1>8. Value \subseteq T
  <2>1. ASSUME NEW value \in Value, \A k \in 1 .. size(value) : value.kids[k] \in T
        PROVE  value \in T
    <3>1. AreWriters(Elements(value, F), size(value))
      BY <1>1, <2>1
    <3>2. QED
      BY <1>7, <3>1, WriteBodyIsWriter
  <2> HIDE DEF T
  <2>2. QED
    BY <2>1, ValueInduction
<1>9. F \in [Value -> V]
  <2>1. \A value \in Value : F[value] \in V
    BY <1>8
  <2> HIDE DEF V
  <2>2. QED
    BY <1>6, <2>1
<1>10. \A value \in Value : AreWriters(Elements(value, F), size(value))
  BY <1>1, <1>9, ValueFacts
<1>11. QED
  BY <1>7, <1>9, <1>10 DEF F

-----------------------------------------------------------------------------
(* What the writer's operations add to what a reader finds. *)

Hidden(hiding, doc) == Reading(doc, hiding).hidden

\* A comment that hides what follows does not end in a space, or the writer begins
\* a line whatever was there, so the next writeIndent ends its line.
Open(hiding, doc) ==
  "//c " \notin hiding /\ Hidden(hiding, doc) => doc # <<>> /\ ~EndsInSpace(doc)

Adds(hiding, doc, more, tokens, comments) ==
  /\ Reading(more, hiding).tokens = Reading(doc, hiding).tokens \o tokens
  /\ Reading(more, hiding).comments = Reading(doc, hiding).comments \o comments

\* The same of a writer.
HidingOf(w) == Hiding(w.isStream)

Hides(w) == Hidden(HidingOf(w), w.document_)

Lets(w) == Open(HidingOf(w), w.document_)

LEMMA SameHiding ==
  ASSUME NEW w, NEW u, u.document_ = w.document_, u.isStream = w.isStream
  PROVE  /\ HidingOf(u) = HidingOf(w)
         /\ Hides(u) <=> Hides(w)
         /\ Lets(u) <=> Lets(w)
BY DEF HidingOf, Hides, Lets

LEMMA HidingFacts ==
  ASSUME NEW w \in Writer
  PROVE  /\ HidingOf(w) \in SUBSET LineComment
         /\ "//c " \in HidingOf(w) <=> w.isStream
<1>1. w.isStream \in BOOLEAN
  BY DEF Writer
<1>2. QED
  BY <1>1 DEF HidingOf, Hiding, LineComment

Grouped(a, b, c) == (a \o b) \o c = a \o (b \o c)

LEMMA DocumentsAssociate ==
  ASSUME NEW a \in Document, NEW b \in Document, NEW c \in Document
  PROVE  Grouped(a, b, c)
BY ConcatAssociative DEF Document, Grouped

LEMMA DocumentAppend ==
  ASSUME NEW s \in Document, NEW t \in Token
  PROVE  /\ Append(s, t) \in Document
         /\ Len(Append(s, t)) = Len(s) + 1
         /\ \A k \in 1 .. Len(s) : Append(s, t)[k] = s[k]
         /\ Append(s, t)[Len(s) + 1] = t
         /\ Append(s, t) = s \o <<t>>
BY AppendProperties, AppendIsConcat DEF Document

\* A text of some tokens, token by token.
Apart2(a, b) == <<a, b>> = <<a>> \o <<b>>
Apart3(a, b, c) == <<a, b, c>> = <<a, b>> \o <<c>>
Apart4(a, b, c, d) == <<a, b, c, d>> = <<a, b, c>> \o <<d>>

LEMMA TwoApart ==
  ASSUME NEW a \in Token, NEW b \in Token
  PROVE  Apart2(a, b)
<1> DEFINE s == <<a>>
           t == <<a, b>>
<1>1. /\ s \in Document /\ t \in Document /\ Len(s) = 1 /\ Len(t) = 2
      /\ s[1] = a
      /\ t[1] = a /\ t[2] = b
  BY Tuples
<1> HIDE DEF s, t
<1>2. /\ Append(s, b) \in Document /\ Len(Append(s, b)) = Len(s) + 1
      /\ \A k \in 1 .. Len(s) : Append(s, b)[k] = s[k]
      /\ Append(s, b)[Len(s) + 1] = b
      /\ Append(s, b) = s \o <<b>>
  BY <1>1, DocumentAppend
<1>3. Len(Append(s, b)) = 2 /\ \A k \in 1 .. 2 : Append(s, b)[k] = t[k]
  BY <1>1, <1>2
<1>4. Append(s, b) = t
  BY <1>1, <1>2, <1>3, SeqEqual DEF Document
<1>5. QED
  BY <1>2, <1>4 DEF s, t, Apart2

LEMMA ThreeApart ==
  ASSUME NEW a \in Token, NEW b \in Token, NEW c \in Token
  PROVE  Apart3(a, b, c)
<1> DEFINE s == <<a, b>>
           t == <<a, b, c>>
<1>1. /\ s \in Document /\ t \in Document /\ Len(s) = 2 /\ Len(t) = 3
      /\ s[1] = a /\ s[2] = b
      /\ t[1] = a /\ t[2] = b /\ t[3] = c
  BY Tuples
<1> HIDE DEF s, t
<1>2. /\ Append(s, c) \in Document /\ Len(Append(s, c)) = Len(s) + 1
      /\ \A k \in 1 .. Len(s) : Append(s, c)[k] = s[k]
      /\ Append(s, c)[Len(s) + 1] = c
      /\ Append(s, c) = s \o <<c>>
  BY <1>1, DocumentAppend
<1>3. Len(Append(s, c)) = 3 /\ \A k \in 1 .. 3 : Append(s, c)[k] = t[k]
  BY <1>1, <1>2
<1>4. Append(s, c) = t
  BY <1>1, <1>2, <1>3, SeqEqual DEF Document
<1>5. QED
  BY <1>2, <1>4 DEF s, t, Apart3

LEMMA FourApart ==
  ASSUME NEW a \in Token, NEW b \in Token, NEW c \in Token, NEW d \in Token
  PROVE  Apart4(a, b, c, d)
<1> DEFINE s == <<a, b, c>>
           t == <<a, b, c, d>>
<1>1. /\ s \in Document /\ t \in Document /\ Len(s) = 3 /\ Len(t) = 4
      /\ s[1] = a /\ s[2] = b /\ s[3] = c
      /\ t[1] = a /\ t[2] = b /\ t[3] = c /\ t[4] = d
  BY Tuples
<1> HIDE DEF s, t
<1>2. /\ Append(s, d) \in Document /\ Len(Append(s, d)) = Len(s) + 1
      /\ \A k \in 1 .. Len(s) : Append(s, d)[k] = s[k]
      /\ Append(s, d)[Len(s) + 1] = d
      /\ Append(s, d) = s \o <<d>>
  BY <1>1, DocumentAppend
<1>3. Len(Append(s, d)) = 4 /\ \A k \in 1 .. 4 : Append(s, d)[k] = t[k]
  BY <1>1, <1>2
<1>4. Append(s, d) = t
  BY <1>1, <1>2, <1>3, SeqEqual DEF Document
<1>5. QED
  BY <1>2, <1>4 DEF s, t, Apart4

\* The same behind another document.
Behind2(doc, a, b) == doc \o <<a, b>> = (doc \o <<a>>) \o <<b>>
Behind3(doc, a, b, c) == doc \o <<a, b, c>> = (doc \o <<a, b>>) \o <<c>>
Behind4(doc, a, b, c, d) == doc \o <<a, b, c, d>> = (doc \o <<a, b, c>>) \o <<d>>

LEMMA TwoBehind ==
  ASSUME NEW doc \in Document, NEW a \in Token, NEW b \in Token
  PROVE  Behind2(doc, a, b)
<1> DEFINE s == <<a>>
           t == <<b>>
<1>1. s \in Document /\ t \in Document
  BY Tuples
<1>2. Apart2(a, b)
  BY TwoApart
<1>3. <<a, b>> = s \o t
  BY <1>2 DEF Apart2
<1> HIDE DEF s, t
<1>4. Grouped(doc, s, t)
  BY <1>1, DocumentsAssociate
<1>5. (doc \o s) \o t = doc \o <<a, b>>
  BY <1>3, <1>4 DEF Grouped
<1>6. QED
  BY <1>5 DEF s, t, Behind2

LEMMA ThreeBehind ==
  ASSUME NEW doc \in Document, NEW a \in Token, NEW b \in Token, NEW c \in Token
  PROVE  Behind3(doc, a, b, c)
<1> DEFINE s == <<a, b>>
           t == <<c>>
<1>1. s \in Document /\ t \in Document
  BY Tuples
<1>2. Apart3(a, b, c)
  BY ThreeApart
<1>3. <<a, b, c>> = s \o t
  BY <1>2 DEF Apart3
<1> HIDE DEF s, t
<1>4. Grouped(doc, s, t)
  BY <1>1, DocumentsAssociate
<1>5. (doc \o s) \o t = doc \o <<a, b, c>>
  BY <1>3, <1>4 DEF Grouped
<1>6. QED
  BY <1>5 DEF s, t, Behind3

LEMMA FourBehind ==
  ASSUME NEW doc \in Document,
         NEW a \in Token, NEW b \in Token, NEW c \in Token, NEW d \in Token
  PROVE  Behind4(doc, a, b, c, d)
<1> DEFINE s == <<a, b, c>>
           t == <<d>>
<1>1. s \in Document /\ t \in Document
  BY Tuples
<1>2. Apart4(a, b, c, d)
  BY FourApart
<1>3. <<a, b, c, d>> = s \o t
  BY <1>2 DEF Apart4
<1> HIDE DEF s, t
<1>4. Grouped(doc, s, t)
  BY <1>1, DocumentsAssociate
<1>5. (doc \o s) \o t = doc \o <<a, b, c, d>>
  BY <1>3, <1>4 DEF Grouped
<1>6. QED
  BY <1>5 DEF s, t, Behind4

LEMMA AddsNothing ==
  ASSUME NEW hiding \in SUBSET LineComment,
         NEW doc \in Document
  PROVE  Adds(hiding, doc, doc, <<>>, <<>>)
BY ReadingFinds, ConcatEmptySeq DEF Adds, Document

LEMMA AddsMore ==
  ASSUME NEW hiding \in SUBSET LineComment,
         NEW a \in Document, NEW b, NEW c,
         NEW t \in Document, NEW u \in Document, NEW x \in Document, NEW y \in Document,
         Adds(hiding, a, b, t, x), Adds(hiding, b, c, u, y)
  PROVE  Adds(hiding, a, c, t \o u, x \o y)
<1> DEFINE found == Reading(a, hiding).tokens
           seen == Reading(a, hiding).comments
<1>1. found \in Document /\ seen \in Document
  BY ReadingFinds
<1>2. /\ Reading(c, hiding).tokens = (found \o t) \o u
      /\ Reading(c, hiding).comments = (seen \o x) \o y
  BY DEF Adds
<1> HIDE DEF found, seen
<1>3. Grouped(found, t, u)
  BY <1>1, DocumentsAssociate
<1>4. Grouped(seen, x, y)
  BY <1>1, DocumentsAssociate
<1>5. QED
  <2>1. /\ Reading(c, hiding).tokens = found \o (t \o u)
        /\ Reading(c, hiding).comments = seen \o (x \o y)
    BY <1>2, <1>3, <1>4 DEF Grouped
  <2>2. QED
    BY <2>1 DEF Adds, found, seen

\* The same, where one of the two adds nothing.
LEMMA AddsAfterNothing ==
  ASSUME NEW hiding \in SUBSET LineComment,
         NEW a \in Document, NEW b, NEW c, NEW t \in Document, NEW x \in Document,
         \/ Adds(hiding, a, b, <<>>, <<>>) /\ Adds(hiding, b, c, t, x)
         \/ Adds(hiding, a, b, t, x) /\ Adds(hiding, b, c, <<>>, <<>>)
  PROVE  Adds(hiding, a, c, t, x)
<1>1. <<>> \o t = t /\ t \o <<>> = t /\ <<>> \o x = x /\ x \o <<>> = x
  BY ConcatEmptySeq DEF Document
<1>2. <<>> \in Document
  BY Texts
<1>3. CASE Adds(hiding, a, b, <<>>, <<>>) /\ Adds(hiding, b, c, t, x)
  <2>1. Adds(hiding, a, c, <<>> \o t, <<>> \o x)
    BY <1>2, <1>3, AddsMore
  <2>2. QED
    BY <1>1, <2>1
<1>4. CASE Adds(hiding, a, b, t, x) /\ Adds(hiding, b, c, <<>>, <<>>)
  <2>1. Adds(hiding, a, c, t \o <<>>, x \o <<>>)
    BY <1>2, <1>4, AddsMore
  <2>2. QED
    BY <1>1, <2>1
<1>5. QED
  BY <1>3, <1>4

\* One token more.
LEMMA OneMore ==
  ASSUME NEW hiding \in SUBSET LineComment,
         NEW doc \in Document, NEW t \in Token
  PROVE  /\ doc \o <<t>> \in Document
         /\ doc \o <<t>> # <<>>
         /\ Last(doc \o <<t>>) = t
         /\ Reading(doc \o <<t>>, hiding) = ReadToken(Reading(doc, hiding), t, hiding)
<1>1. doc \o <<t>> = Append(doc, t)
  BY AppendIsConcat DEF Document
<1>2. /\ Append(doc, t) \in Document /\ Append(doc, t) # <<>>
      /\ Len(Append(doc, t)) = Len(doc) + 1
      /\ Append(doc, t)[Len(doc) + 1] = t
  BY AppendProperties DEF Document
<1>3. QED
  BY <1>1, <1>2, ReadingAppend DEF Last

LEMMA BlankAdds ==
  ASSUME NEW hiding \in SUBSET LineComment,
         NEW doc \in Document, NEW t \in Blank
  PROVE  /\ doc \o <<t>> \in Document
         /\ Adds(hiding, doc, doc \o <<t>>, <<>>, <<>>)
         /\ Hidden(hiding, doc \o <<t>>) <=> Hidden(hiding, doc) /\ t # "\n"
<1>1. t \in Token /\ t \notin Comment /\ t \notin LineComment
  BY DEF Token, Blank, Comment, LineComment, Indentation
<1> DEFINE r == Reading(doc, hiding)
           s == Reading(doc \o <<t>>, hiding)
<1>2. doc \o <<t>> \in Document /\ s = ReadToken(r, t, hiding)
  BY <1>1, OneMore
<1>3. r.tokens \in Document /\ r.comments \in Document /\ r.hidden \in BOOLEAN
  BY ReadingFinds
<1> HIDE DEF r, s
<1>4. s.tokens = r.tokens /\ s.comments = r.comments
  BY <1>1, <1>2 DEF ReadToken
<1>5. s.hidden = ((r.hidden /\ t # "\n") \/ t \in hiding)
  BY <1>2 DEF ReadToken
<1>6. s.hidden <=> r.hidden /\ t # "\n"
  BY <1>1, <1>5
<1>7. r.tokens \o <<>> = r.tokens /\ r.comments \o <<>> = r.comments
  BY <1>3, ConcatEmptySeq DEF Document
<1>8. QED
  BY <1>2, <1>4, <1>6, <1>7 DEF Adds, Hidden, r, s

LEMMA CommentAdds ==
  ASSUME NEW hiding \in SUBSET LineComment, NEW doc \in Document, NEW t \in Placed
  PROVE  /\ doc \o <<t>> \in Document /\ doc \o <<t>> # <<>>
         /\ Adds(hiding, doc, doc \o <<t>>, <<>>, <<t>>)
         /\ ~Hidden(hiding, doc) => Open(hiding, doc \o <<t>>)
<1>1. t \in Token /\ t \in Comment
  BY TokenFacts
<1>2. t # "//c " => t \notin {" ", Indentation, "//c "}
  BY <1>1 DEF Comment, LineComment, Indentation
<1> DEFINE r == Reading(doc, hiding)
           s == Reading(doc \o <<t>>, hiding)
<1>3. /\ doc \o <<t>> \in Document /\ doc \o <<t>> # <<>>
      /\ Last(doc \o <<t>>) = t /\ s = ReadToken(r, t, hiding)
  BY <1>1, OneMore
<1>4. r.tokens \in Document /\ r.comments \in Document
  BY ReadingFinds
<1> HIDE DEF r, s
<1>5. s.tokens = r.tokens /\ s.comments = Append(r.comments, t)
  BY <1>1, <1>3 DEF ReadToken
<1>6. r.tokens \o <<>> = r.tokens /\ Append(r.comments, t) = r.comments \o <<t>>
  BY <1>1, <1>4, ConcatEmptySeq, AppendIsConcat DEF Document
<1>7. s.hidden => r.hidden \/ t \in hiding
  BY <1>3 DEF ReadToken
<1>8. QED
  <2>1. Adds(hiding, doc, doc \o <<t>>, <<>>, <<t>>)
    BY <1>5, <1>6 DEF Adds, r, s
  <2>2. ASSUME ~Hidden(hiding, doc)
        PROVE  Open(hiding, doc \o <<t>>)
    BY <1>2, <1>3, <1>7, <2>2 DEF Open, Hidden, EndsInSpace, r, s
  <2>3. QED
    BY <1>3, <2>1, <2>2

LEMMA PlainAdds ==
  ASSUME NEW hiding \in SUBSET LineComment,
         NEW doc \in Document, NEW s \in Seq(Plain), ~Hidden(hiding, doc)
  PROVE  /\ s \in Document /\ doc \o s \in Document
         /\ Adds(hiding, doc, doc \o s, s, <<>>)
         /\ ~Hidden(hiding, doc \o s)
<1>1. s \in Document
  <2>1. Plain \subseteq Token
    BY DEF Plain
  <2>2. QED
    BY <2>1, SeqMonotonic DEF Document
<1>2. doc \o s \in Document
  BY <1>1, ConcatProperties DEF Document
<1>3. Reading(doc, hiding).comments \o <<>> = Reading(doc, hiding).comments
  BY ReadingFinds, ConcatEmptySeq DEF Document
<1>4. CASE ~Reading(doc, hiding).hidden
  <2>1. Reading(doc \o s, hiding) = [tokens   |-> Reading(doc, hiding).tokens \o s,
                             comments |-> Reading(doc, hiding).comments,
                             hidden   |-> FALSE]
    BY <1>4, ReadingPlain
  <2>2. QED
    BY <1>1, <1>2, <1>3, <2>1 DEF Adds, Hidden
<1>5. QED
  BY <1>4 DEF Hidden

\* A line that has begun hides nothing.
LEMMA NewLineOpens ==
  ASSUME NEW hiding \in SUBSET LineComment,
         NEW doc \in Document, doc # <<>>, Last(doc) = "\n"
  PROVE  ~Hidden(hiding, doc)
<1>1. PICK front \in Document, t \in Token : doc = Append(front, t)
  BY SequenceEmptyOrAppend DEF Document
<1>2. doc = front \o <<t>>
  BY <1>1, AppendIsConcat DEF Document
<1>3. t = "\n"
  BY <1>2, OneMore
<1>4. QED
  BY <1>2, <1>3, BlankAdds DEF Blank

LEMMA LineEnds ==
  ASSUME NEW hiding \in SUBSET LineComment,
         NEW doc \in Document, NEW s \in Seq({Indentation})
  PROVE  /\ Adds(hiding, doc, doc \o (<<"\n">> \o s), <<>>, <<>>)
         /\ ~Hidden(hiding, doc \o (<<"\n">> \o s))
<1>1. s \in Document /\ <<"\n">> \in Document
  BY TokenFacts, Texts, SeqMonotonic DEF Document
<1>2. doc \o (<<"\n">> \o s) = (doc \o <<"\n">>) \o s
  <2>1. Grouped(doc, <<"\n">>, s)
    BY <1>1, DocumentsAssociate
  <2>2. QED
    BY <2>1 DEF Grouped
<1>3. /\ doc \o <<"\n">> \in Document
      /\ Adds(hiding, doc, doc \o <<"\n">>, <<>>, <<>>) /\ ~Hidden(hiding, doc \o <<"\n">>)
  BY BlankAdds DEF Blank
<1>4. Reading((doc \o <<"\n">>) \o s, hiding) = Reading(doc \o <<"\n">>, hiding)
  BY <1>3, ReadingIndented
<1>5. QED
  BY <1>2, <1>3, <1>4 DEF Adds, Hidden

\* writeIndent adds nothing, and what follows is not hidden.
LEMMA IndentAdds ==
  ASSUME NEW w \in Writer, Lets(w)
  PROVE  /\ Adds(HidingOf(w), w.document_, writeIndent(w).document_, <<>>, <<>>)
         /\ ~Hidden(HidingOf(w), writeIndent(w).document_)
<1> DEFINE hiding == HidingOf(w)
           doc == w.document_
           new == doc = <<>> \/ Last(doc) = "\n"
<1>0. /\ hiding \in SUBSET LineComment /\ ("//c " \in hiding <=> w.isStream)
      /\ Open(hiding, doc)
  BY HidingFacts DEF Lets
<1> HIDE DEF hiding
<1>1. doc \in Document /\ Indent(w) \in Seq({Indentation}) /\ Indent(w) \in Document
  BY WriterFacts, IndentFacts
<1>2. writeIndent(w).document_ = doc \o IndentTokens(w)
  BY WriteIndentPuts, PutFacts
<1>3. CASE IndentTokens(w) = <<"\n">> \o Indent(w)
  BY <1>0, <1>1, <1>2, <1>3, LineEnds DEF hiding
<1>4. CASE ~w.isStream /\ ~new /\ EndsInSpace(doc)
  <2>1. IndentTokens(w) = <<>>
    BY <1>4 DEF IndentTokens
  <2>2. doc \o <<>> = doc
    BY <1>1, ConcatEmptySeq DEF Document
  <2>3. ~Hidden(hiding, doc)
    BY <1>0, <1>4 DEF Open
  <2>4. QED
    BY <1>0, <1>1, <1>2, <2>1, <2>2, <2>3, AddsNothing DEF hiding
<1>5. CASE ~w.isStream /\ new
  <2>1. IndentTokens(w) = <<>> \o Indent(w)
    BY <1>5 DEF IndentTokens
  <2>2. <<>> \o Indent(w) = Indent(w)
    BY <1>1, ConcatEmptySeq DEF Document
  <2>3. Reading(doc \o Indent(w), hiding) = Reading(doc, hiding)
    BY <1>0, <1>1, ReadingIndented
  <2>4. ~Hidden(hiding, doc)
    <3>1. CASE doc = <<>>
      <4>1. Reading(doc, hiding) = [tokens |-> <<>>, comments |-> <<>>, hidden |-> FALSE]
        BY <1>0, <3>1, ReadingNothing
      <4>2. QED
        BY <4>1 DEF Hidden
    <3>2. CASE doc # <<>>
      BY <1>0, <1>1, <1>5, <3>2, NewLineOpens
    <3>3. QED
      BY <3>1, <3>2
  <2>5. QED
    BY <1>0, <1>1, <1>2, <2>1, <2>2, <2>3, <2>4, AddsNothing DEF Adds, Hidden, hiding
<1>6. QED
  BY <1>3, <1>4, <1>5 DEF IndentTokens

-----------------------------------------------------------------------------
(* What the writer's operations leave, and what they write. *)

\* u is w after some text was written to it.
Wrote(w, u, tokens, comments) ==
  /\ u \in Writer
  /\ u.isStream = w.isStream
  /\ u.addChildValues_ = w.addChildValues_
  /\ u.indentString_ = w.indentString_
  /\ u.holds = w.holds
  /\ Adds(HidingOf(w), w.document_, u.document_, tokens, comments)

LEMMA WroteMore ==
  ASSUME NEW w \in Writer, NEW u, NEW v,
         NEW t \in Document, NEW s \in Document, NEW x \in Document, NEW y \in Document,
         Wrote(w, u, t, x), Wrote(u, v, s, y)
  PROVE  Wrote(w, v, t \o s, x \o y)
<1>1. w.document_ \in Document /\ HidingOf(w) \in SUBSET LineComment
  BY WriterFacts, HidingFacts
<1>2. HidingOf(u) = HidingOf(w)
  BY DEF Wrote, HidingOf
<1>3. Adds(HidingOf(w), w.document_, v.document_, t \o s, x \o y)
  BY <1>1, <1>2, AddsMore DEF Wrote
<1>4. QED
  BY <1>3 DEF Wrote

LEMMA WroteNothing ==
  ASSUME NEW w \in Writer, NEW u, NEW v, NEW t \in Document, NEW x \in Document,
         \/ Wrote(w, u, <<>>, <<>>) /\ Wrote(u, v, t, x)
         \/ Wrote(w, u, t, x) /\ Wrote(u, v, <<>>, <<>>)
  PROVE  Wrote(w, v, t, x)
<1>1. w.document_ \in Document /\ HidingOf(w) \in SUBSET LineComment
  BY WriterFacts, HidingFacts
<1>2. u.isStream = w.isStream => HidingOf(u) = HidingOf(w)
  BY DEF HidingOf
<1>3. Adds(HidingOf(w), w.document_, v.document_, t, x)
  BY <1>1, <1>2, AddsAfterNothing DEF Wrote
<1>4. QED
  BY <1>3 DEF Wrote

LEMMA PutWrote ==
  ASSUME NEW w \in Writer, NEW tokens \in Document, NEW t, NEW x,
         Adds(HidingOf(w), w.document_, w.document_ \o tokens, t, x)
  PROVE  /\ Wrote(w, Put(w, tokens), t, x)
         /\ Put(w, tokens).document_ = w.document_ \o tokens
         /\ Put(w, tokens).childValues_ = w.childValues_
         /\ Hides(Put(w, tokens)) <=> Hidden(HidingOf(w), w.document_ \o tokens)
         /\ Lets(Put(w, tokens)) <=> Open(HidingOf(w), w.document_ \o tokens)
BY PutFacts DEF Wrote, Hides, Lets, HidingOf

LEMMA HidesNothing ==
  ASSUME NEW hiding, NEW doc, ~Hidden(hiding, doc)
  PROVE  Open(hiding, doc)
BY DEF Open

LEMMA WriterHidesNothing ==
  ASSUME NEW w, ~Hides(w)
  PROVE  Lets(w)
BY HidesNothing DEF Hides, Lets

LEMMA PlainWrote ==
  ASSUME NEW w \in Writer, NEW s \in Seq(Plain), ~Hides(w)
  PROVE  /\ s \in Document
         /\ Wrote(w, Put(w, s), s, <<>>) /\ ~Hides(Put(w, s))
         /\ Put(w, s).childValues_ = w.childValues_
<1>1. w.document_ \in Document /\ HidingOf(w) \in SUBSET LineComment
  BY WriterFacts, HidingFacts
<1>2. /\ s \in Document
      /\ Adds(HidingOf(w), w.document_, w.document_ \o s, s, <<>>)
      /\ ~Hidden(HidingOf(w), w.document_ \o s)
  BY <1>1, PlainAdds DEF Hides
<1>3. QED
  BY <1>2, PutWrote

LEMMA IndentWrote ==
  ASSUME NEW w \in Writer, Lets(w)
  PROVE  /\ Wrote(w, writeIndent(w), <<>>, <<>>) /\ ~Hides(writeIndent(w))
         /\ writeIndent(w).childValues_ = w.childValues_
<1>1. IndentTokens(w) \in Document /\ writeIndent(w) = Put(w, IndentTokens(w))
  BY WriteIndentPuts
<1>2. Put(w, IndentTokens(w)).document_ = w.document_ \o IndentTokens(w)
  BY <1>1, PutFacts
<1>3. /\ Adds(HidingOf(w), w.document_, writeIndent(w).document_, <<>>, <<>>)
      /\ ~Hidden(HidingOf(w), writeIndent(w).document_)
  BY IndentAdds
<1>4. QED
  BY <1>1, <1>2, <1>3, PutWrote

LEMMA WithIndentWrote ==
  ASSUME NEW w \in Writer, NEW s \in Seq(Plain), Lets(w)
  PROVE  /\ Wrote(w, writeWithIndent(w, s), s, <<>>)
         /\ ~Hides(writeWithIndent(w, s))
         /\ writeWithIndent(w, s).childValues_ = w.childValues_
<1> DEFINE u == writeIndent(w)
<1>1. /\ Wrote(w, u, <<>>, <<>>) /\ ~Hides(u) /\ u.childValues_ = w.childValues_
  BY IndentWrote
<1>2. u \in Writer /\ writeWithIndent(w, s) = Put(u, s)
  BY <1>1 DEF Wrote, writeWithIndent
<1> HIDE DEF u
<1>3. /\ s \in Document
      /\ Wrote(u, Put(u, s), s, <<>>) /\ ~Hides(Put(u, s))
      /\ Put(u, s).childValues_ = u.childValues_
  BY <1>1, <1>2, PlainWrote
<1>4. Wrote(w, Put(u, s), s, <<>>)
  BY <1>1, <1>3, Texts, WroteNothing
<1>5. QED
  BY <1>1, <1>2, <1>3, <1>4

\* The name of a member, with its colon.
LEMMA NameWrote ==
  ASSUME NEW w \in Writer, NEW index, Lets(w)
  PROVE  LET u == writeWithIndent(w, <<Name(index), " ", ":", " ">>)
         IN  /\ Wrote(w, u, <<Name(index), ":">>, <<>>)
             /\ ~Hides(u) /\ u.childValues_ = w.childValues_
<1> DEFINE u == writeIndent(w)
           hiding == HidingOf(u)
           doc == u.document_
           tokens == <<Name(index), " ", ":", " ">>
<1>1. /\ Wrote(w, u, <<>>, <<>>) /\ ~Hidden(hiding, doc) /\ u.childValues_ = w.childValues_
  BY IndentWrote DEF Hides
<1>2. u \in Writer /\ writeWithIndent(w, tokens) = Put(u, tokens)
  BY <1>1 DEF Wrote, writeWithIndent
<1>3. doc \in Document /\ hiding \in SUBSET LineComment
  BY <1>2, WriterFacts, HidingFacts
<1>4. <<Name(index)>> \in Seq(Plain) /\ <<":">> \in Seq(Plain) /\ " " \in Blank
  <2>1. Name(index) \in Plain /\ ":" \in Plain
    BY TokenFacts
  <2>2. QED
    BY <2>1 DEF Blank
<1>5. tokens \in Document /\ <<Name(index)>> \in Document /\ <<":">> \in Document
      /\ <<" ">> \in Document /\ <<>> \in Document
  BY Texts, TokenFacts, Tuples
<1> DEFINE a == doc \o <<Name(index)>>
           b == a \o <<" ">>
           c == b \o <<":">>
           d == c \o <<" ">>
<1>6. d = doc \o tokens
  <2> DEFINE n == Name(index)
             p == " "
             q == ":"
  <2>1. n \in Token /\ p \in Token /\ q \in Token
    BY TokenFacts
  <2> HIDE DEF doc, n, p, q
  <2>2. Behind2(doc, n, p)
    BY <1>3, <2>1, TwoBehind
  <2>3. Behind3(doc, n, p, q)
    BY <1>3, <2>1, ThreeBehind
  <2>4. Behind4(doc, n, p, q, p)
    BY <1>3, <2>1, FourBehind
  <2>5. (((doc \o <<n>>) \o <<p>>) \o <<q>>) \o <<p>> = doc \o <<n, p, q, p>>
    BY <2>2, <2>3, <2>4 DEF Behind2, Behind3, Behind4
  <2>6. QED
    BY <2>5 DEF n, p, q
<1> HIDE DEF u, doc, hiding
<1>7. a \in Document /\ Adds(hiding, doc, a, <<Name(index)>>, <<>>) /\ ~Hidden(hiding, a)
  BY <1>1, <1>3, <1>4, PlainAdds
<1> HIDE DEF a
<1>8. b \in Document /\ Adds(hiding, a, b, <<>>, <<>>) /\ ~Hidden(hiding, b)
  BY <1>3, <1>4, <1>7, BlankAdds
<1> HIDE DEF b
<1>9. c \in Document /\ Adds(hiding, b, c, <<":">>, <<>>) /\ ~Hidden(hiding, c)
  BY <1>3, <1>4, <1>8, PlainAdds
<1> HIDE DEF c
<1>10. d \in Document /\ Adds(hiding, c, d, <<>>, <<>>) /\ ~Hidden(hiding, d)
  BY <1>3, <1>4, <1>9, BlankAdds
<1> HIDE DEF d, tokens
<1>11. Adds(hiding, doc, b, <<Name(index)>>, <<>>)
  BY <1>3, <1>5, <1>7, <1>8, AddsAfterNothing
<1>12. Adds(hiding, b, d, <<":">>, <<>>)
  BY <1>3, <1>5, <1>8, <1>9, <1>10, AddsAfterNothing
<1>13. Adds(hiding, doc, d, <<Name(index)>> \o <<":">>, <<>> \o <<>>)
  BY <1>3, <1>5, <1>11, <1>12, AddsMore
<1>14. <<Name(index)>> \o <<":">> = <<Name(index), ":">> /\ <<>> \o <<>> = <<>>
  <2>1. Apart2(Name(index), ":")
    BY TokenFacts, TwoApart
  <2>2. <<>> \o <<>> = <<>>
    BY Texts, ConcatEmptySeq DEF Document
  <2>3. QED
    BY <2>1, <2>2 DEF Apart2
<1>15. Adds(hiding, doc, doc \o tokens, <<Name(index), ":">>, <<>>)
  BY <1>6, <1>13, <1>14
<1>16. /\ Wrote(u, Put(u, tokens), <<Name(index), ":">>, <<>>)
       /\ ~Hides(Put(u, tokens))
       /\ Put(u, tokens).childValues_ = u.childValues_
  BY <1>2, <1>5, <1>6, <1>10, <1>15, PutWrote DEF doc, hiding
<1>17. Wrote(w, Put(u, tokens), <<Name(index), ":">>, <<>>)
  BY <1>1, <1>5, <1>16, Texts, WroteNothing
<1>18. QED
  BY <1>1, <1>2, <1>10, <1>16, <1>17 DEF tokens

LEMMA BeforeWrote ==
  ASSUME NEW w \in Writer, NEW value \in Value, Lets(w)
  PROVE  LET u == writeCommentBeforeValue(w, value)
         IN  /\ Wrote(w, u, <<>>, Given(value.before))
             /\ Lets(u) /\ (~Hides(w) => ~Hides(u))
             /\ u.childValues_ = w.childValues_
<1> DEFINE hiding == HidingOf(w)
           doc == w.document_
           c == value.before
<1>1. doc \in Document /\ BeforeTokens(value) \in Document
      /\ writeCommentBeforeValue(w, value) = Put(w, BeforeTokens(value))
      /\ hiding \in SUBSET LineComment
  BY WriterFacts, HidingFacts, CommentTokens, WriteCommentsPut
<1> HIDE DEF hiding
<1>2. CASE c = None
  <2>1. BeforeTokens(value) = <<>> /\ Given(c) = <<>>
    BY <1>2 DEF BeforeTokens, Given
  <2>2. doc \o <<>> = doc
    BY <1>1, ConcatEmptySeq DEF Document
  <2>3. Adds(hiding, doc, doc \o BeforeTokens(value), <<>>, Given(c))
    BY <1>1, <2>1, <2>2, AddsNothing
  <2>4. /\ Wrote(w, Put(w, BeforeTokens(value)), <<>>, Given(c))
        /\ Hides(Put(w, BeforeTokens(value))) <=> Hidden(hiding, doc)
        /\ Lets(Put(w, BeforeTokens(value))) <=> Open(hiding, doc)
        /\ Put(w, BeforeTokens(value)).childValues_ = w.childValues_
    BY <1>1, <2>1, <2>2, <2>3, PutWrote DEF hiding
  <2>5. QED
    BY <1>1, <2>4 DEF Hides, Lets, hiding
<1>3. CASE c # None
  <2>1. c \in Placed
    BY <1>3, ValueFacts DEF Placement
  <2>2. BeforeTokens(value) = <<c, "\n">> /\ Given(c) = <<c>>
    BY <1>3 DEF BeforeTokens, Given
  <2>3. <<c>> \in Document /\ <<"\n">> \in Document /\ "\n" \in Blank
    BY <2>1, TokenFacts, Tuples DEF Blank
  <2>4. doc \o <<c>> \in Document /\ Adds(hiding, doc, doc \o <<c>>, <<>>, <<c>>)
    BY <1>1, <2>1, CommentAdds
  <2>5. doc \o <<c, "\n">> = (doc \o <<c>>) \o <<"\n">>
    <3>1. c \in Token /\ "\n" \in Token
      BY <2>1, TokenFacts
    <3>2. Behind2(doc, c, "\n")
      BY <1>1, <3>1, TwoBehind
    <3>3. QED
      BY <3>2 DEF Behind2
  <2>6. /\ Adds(hiding, doc \o <<c>>, (doc \o <<c>>) \o <<"\n">>, <<>>, <<>>)
        /\ ~Hidden(hiding, (doc \o <<c>>) \o <<"\n">>)
    BY <1>1, <2>3, <2>4, BlankAdds
  <2>7. Adds(hiding, doc, doc \o <<c, "\n">>, <<>>, <<c>>)
    <3> DEFINE a == doc \o <<c>>
               b == a \o <<"\n">>
    <3>1. a \in Document /\ Adds(hiding, doc, a, <<>>, <<c>>) /\ Adds(hiding, a, b, <<>>, <<>>)
      BY <2>4, <2>6
    <3> HIDE DEF a, b
    <3>2. Adds(hiding, doc, b, <<>>, <<c>>)
      BY <1>1, <2>3, <3>1, Texts, AddsAfterNothing
    <3>3. QED
      BY <2>5, <3>2 DEF a, b
  <2> DEFINE u == Put(w, <<c, "\n">>)
  <2>8. <<c, "\n">> \in Document
    BY <1>1, <2>2
  <2>9. /\ Wrote(w, u, <<>>, <<c>>) /\ u.childValues_ = w.childValues_
        /\ Hides(u) <=> Hidden(hiding, doc \o <<c, "\n">>)
    BY <2>7, <2>8, PutWrote DEF hiding
  <2>10. ~Hides(u)
    BY <2>5, <2>6, <2>9
  <2>11. Lets(u)
    BY <2>10, WriterHidesNothing
  <2> HIDE DEF u
  <2>12. writeCommentBeforeValue(w, value) = u /\ Given(value.before) = <<c>>
    BY <1>1, <2>2 DEF u
  <2>13. QED
    BY <2>9, <2>10, <2>11, <2>12
<1>4. QED
  BY <1>2, <1>3

LEMMA AfterWrote ==
  ASSUME NEW w \in Writer, NEW value \in Value, ~Hides(w)
  PROVE  LET u == writeCommentAfterValueOnSameLine(w, value)
         IN  /\ Wrote(w, u, <<>>, Given(value.same) \o Given(value.after))
             /\ Lets(u)
             /\ u.childValues_ = w.childValues_
<1> DEFINE hiding == HidingOf(w)
           doc == w.document_
           c == value.same
           e == value.after
           s == IF c = None THEN <<>> ELSE <<" ", c>>
           t == IF e = None THEN <<>> ELSE <<"\n", e, "\n">>
<1>1. doc \in Document /\ AfterTokens(value) \in Document
      /\ writeCommentAfterValueOnSameLine(w, value) = Put(w, AfterTokens(value))
      /\ AfterTokens(value) = s \o t
      /\ hiding \in SUBSET LineComment
  BY WriterFacts, HidingFacts, CommentTokens, WriteCommentsPut DEF AfterTokens
<1>2. c \in Placed \cup {None} /\ e \in Placed \cup {None}
  BY ValueFacts DEF Placement
<1>3. Given(c) \in Document /\ Given(e) \in Document /\ <<>> \in Document
      /\ " " \in Blank /\ "\n" \in Blank /\ <<" ">> \in Document /\ <<"\n">> \in Document
  BY ValueFacts, GivenIsDocument, Texts, TokenFacts, Tuples DEF Blank
<1> HIDE DEF c, e
<1>4. ~Hidden(hiding, doc)
  BY DEF Hides
<1> HIDE DEF doc, hiding
<1>5. s \in Document /\ doc \o s \in Document
      /\ Adds(hiding, doc, doc \o s, <<>>, Given(c)) /\ Open(hiding, doc \o s)
  <2>1. CASE c = None
    <3>1. doc \o <<>> = doc
      BY <1>1, ConcatEmptySeq DEF Document
    <3>2. QED
      BY <1>1, <1>3, <1>4, <2>1, <3>1, AddsNothing, HidesNothing DEF Given
  <2>2. CASE c # None
    <3>1. c \in Placed /\ Given(c) = <<c>> /\ s = <<" ", c>>
      BY <1>2, <2>2 DEF Given
    <3>2. c \in Token /\ <<c>> \in Document /\ s \in Document
      BY <3>1, TokenFacts, Tuples
    <3>3. doc \o <<" ">> \in Document /\ Adds(hiding, doc, doc \o <<" ">>, <<>>, <<>>)
          /\ ~Hidden(hiding, doc \o <<" ">>)
      BY <1>1, <1>3, <1>4, BlankAdds
    <3>4. Behind2(doc, " ", c)
      BY <1>1, <3>2, TokenFacts, TwoBehind
    <3>5. doc \o s = (doc \o <<" ">>) \o <<c>>
      BY <3>1, <3>4 DEF Behind2
    <3> HIDE DEF s
    <3> DEFINE d == doc \o <<" ">>
    <3> HIDE DEF d
    <3>6. /\ d \o <<c>> \in Document /\ Open(hiding, d \o <<c>>)
          /\ Adds(hiding, d, d \o <<c>>, <<>>, <<c>>)
      BY <1>1, <3>1, <3>3, CommentAdds DEF d
    <3>7. Adds(hiding, doc, d \o <<c>>, <<>>, <<c>>)
      BY <1>1, <1>3, <3>2, <3>3, <3>6, AddsAfterNothing DEF d
    <3>8. QED
      BY <3>1, <3>2, <3>5, <3>6, <3>7 DEF d
  <2>3. QED
    BY <2>1, <2>2
<1> DEFINE d == doc \o s
<1> HIDE DEF d
<1>6. t \in Document /\ d \o t \in Document
      /\ Adds(hiding, d, d \o t, <<>>, Given(e)) /\ Open(hiding, d \o t)
  <2>1. CASE e = None
    <3>1. d \o <<>> = d
      BY <1>5, ConcatEmptySeq DEF Document, d
    <3>2. QED
      BY <1>1, <1>3, <1>5, <2>1, <3>1, AddsNothing DEF Given, d
  <2>2. CASE e # None
    <3>1. e \in Placed /\ Given(e) = <<e>> /\ t = <<"\n", e, "\n">>
      BY <1>2, <2>2 DEF Given
    <3>2. e \in Token /\ "\n" \in Token
      BY <3>1, TokenFacts
    <3>3. <<e>> \in Document /\ t \in Document
      BY <3>1, <3>2, Tuples
    <3> DEFINE a == d \o <<"\n">>
               b == a \o <<e>>
    <3>4. b \o <<"\n">> = d \o t
      <4>1. d \in Document
        BY <1>5 DEF d
      <4>2. Behind2(d, "\n", e)
        BY <3>2, <4>1, TwoBehind
      <4>3. Behind3(d, "\n", e, "\n")
        BY <3>2, <4>1, ThreeBehind
      <4>4. QED
        BY <3>1, <4>2, <4>3 DEF Behind2, Behind3
    <3>5. a \in Document /\ Adds(hiding, d, a, <<>>, <<>>)
      BY <1>1, <1>3, <1>5, BlankAdds DEF d
    <3> HIDE DEF a
    <3>6. b \in Document /\ Adds(hiding, a, b, <<>>, <<e>>)
      BY <1>1, <3>1, <3>5, CommentAdds
    <3> HIDE DEF b
    <3>7. b \o <<"\n">> \in Document /\ Adds(hiding, b, b \o <<"\n">>, <<>>, <<>>)
          /\ ~Hidden(hiding, b \o <<"\n">>)
      BY <1>1, <1>3, <3>6, BlankAdds
    <3>8. Adds(hiding, d, b, <<>>, <<e>>)
      BY <1>1, <1>3, <1>5, <3>3, <3>5, <3>6, AddsAfterNothing DEF d
    <3>9. Adds(hiding, d, b \o <<"\n">>, <<>>, <<e>>)
      BY <1>1, <1>3, <1>5, <3>3, <3>7, <3>8, AddsAfterNothing DEF d
    <3>10. QED
      BY <3>1, <3>3, <3>4, <3>7, <3>9, HidesNothing
  <2>3. QED
    BY <2>1, <2>2
<1>7. d \o t = doc \o AfterTokens(value)
  <2> HIDE DEF s, t
  <2>1. Grouped(doc, s, t)
    BY <1>1, <1>5, <1>6, DocumentsAssociate
  <2>2. QED
    BY <1>1, <2>1 DEF Grouped, d
<1>8. Adds(hiding, doc, d \o t, <<>> \o <<>>, Given(c) \o Given(e))
  BY <1>1, <1>3, <1>5, <1>6, AddsMore DEF d
<1>9. <<>> \o <<>> = <<>>
  OBVIOUS
<1>10. Adds(hiding, doc, doc \o AfterTokens(value), <<>>, Given(c) \o Given(e))
  BY <1>7, <1>8, <1>9
<1>11. QED
  BY <1>1, <1>6, <1>7, <1>10, PutWrote DEF doc, hiding, c, e

-----------------------------------------------------------------------------
(* Measuring the elements of an array. *)

LEMMA KidTexts ==
  ASSUME NEW value \in Value
  PROVE  /\ Elements(value, FastValue) \in [1 .. size(value) -> Document]
         /\ Elements(value, CommentsOf) \in [1 .. size(value) -> Document]
         /\ \A k \in 1 .. size(value) :
              /\ Elements(value, FastValue)[k] = FastValue[value.kids[k]]
              /\ Elements(value, CommentsOf)[k] = CommentsOf[value.kids[k]]
              /\ Elements(value, writeValue)[k] = writeValue[value.kids[k]]
         /\ FastValue[value] \in Document /\ CommentsOf[value] \in Document
<1>1. \A v \in Value : FastValue[v] \in Document /\ CommentsOf[v] \in Document
  BY FastUnfolds, CommentsUnfold
<1>2. QED
  BY <1>1, ValueFacts DEF Elements

LEMMA PlainTexts ==
  ASSUME NEW a \in Plain, NEW b \in Plain
  PROVE  <<a>> \in Seq(Plain) /\ <<a, b>> \in Seq(Plain)
<1> HIDE DEF Plain
<1>1. QED
  OBVIOUS

LEMMA JoinedNothing ==
  ASSUME NEW docs \in [1 .. 0 -> Document]
  PROVE  Joined(docs) = <<>>
<1>1. PICK f \in [0 .. 0 -> Document] : f[0] = <<>> /\ Joined(docs) = f[0]
  BY JoinedSteps
<1>2. QED
  BY <1>1

\* A scalar, or an empty array or object, is pushed as FastWriter writes it.
LEMMA NotCompound ==
  ASSUME NEW value \in Value, ~isCompound(value)
  PROVE  /\ FastValue[value] \in Seq(Plain) /\ FastValue[value] \in Document
         /\ Inside(value, Elements(value, CommentsOf)) = <<>>
         /\ \A w \in Writer : writeValue[value][w] = pushValue(w, FastValue[value])
<1> DEFINE kids == Elements(value, FastValue)
           texts == FastItems(value, kids)
<1>1. /\ value.type \in {"scalar", "array", "object"}
      /\ value.type = "scalar" => value.token \in DOMAIN Width
      /\ size(value) = 0
  BY ValueFacts DEF isCompound
<1>2. Joined(texts) = <<>> /\ Joined(Elements(value, CommentsOf)) = <<>>
  <2>1. kids \in [1 .. 0 -> Document] /\ Elements(value, CommentsOf) \in [1 .. 0 -> Document]
    BY <1>1, KidTexts
  <2>2. texts \in [1 .. 0 -> Document]
    BY <1>1, KidTexts, FastTextIsDocument
  <2> HIDE DEF texts
  <2>3. QED
    BY <2>1, <2>2, JoinedNothing
<1>3. FastValue[value] = FastText(value, kids)
  BY FastUnfolds
<1>4. FastText(value, kids) = CASE value.type = "scalar" -> <<value.token>>
                               [] value.type = "array"  -> <<"[">> \o <<>> \o <<"]">>
                               [] value.type = "object" -> <<"{">> \o <<>> \o <<"}">>
  BY <1>2 DEF FastText
<1>5. <<"[">> \o <<>> \o <<"]">> = <<"[", "]">> /\ <<"{">> \o <<>> \o <<"}">> = <<"{", "}">>
  <2>1. <<"[">> \o <<>> = <<"[">> /\ <<"{">> \o <<>> = <<"{">>
    BY Texts, ConcatEmptySeq DEF Document
  <2>2. Apart2("[", "]") /\ Apart2("{", "}")
    BY TokenFacts, TwoApart
  <2>3. QED
    BY <2>1, <2>2 DEF Apart2
<1>6. FastValue[value] = CASE value.type = "scalar" -> <<value.token>>
                          [] value.type = "array"  -> <<"[", "]">>
                          [] value.type = "object" -> <<"{", "}">>
  BY <1>1, <1>3, <1>4, <1>5
<1>7. FastValue[value] \in Seq(Plain)
  <2>1. /\ value.type = "scalar" => value.token \in Plain
        /\ "[" \in Plain /\ "]" \in Plain /\ "{" \in Plain /\ "}" \in Plain
    BY <1>1, TokenFacts
  <2>2. <<"[", "]">> \in Seq(Plain) /\ <<"{", "}">> \in Seq(Plain)
    BY <2>1, PlainTexts
  <2>3. value.type = "scalar" => <<value.token>> \in Seq(Plain)
    BY <2>1, PlainTexts
  <2>4. QED
    BY <1>1, <1>6, <2>2, <2>3
<1>8. Inside(value, Elements(value, CommentsOf)) = <<>>
  BY <1>2 DEF Inside
<1>9. ASSUME NEW w \in Writer
      PROVE  writeValue[value][w] = pushValue(w, FastValue[value])
  <2> DEFINE go == Elements(value, writeValue)
  <2>1. writeValue[value] = WriteBody(value, go)
    BY WriteUnfolds
  <2> HIDE DEF go
  <2>2. writeValue[value][w] =
          CASE value.type = "scalar" -> pushValue(w, <<value.token>>)
            [] value.type = "array"  -> writeArrayValue(w, value, go)
            [] value.type = "object" -> writeObjectValue(w, value, go)
    BY <2>1 DEF WriteBody
  <2>3. /\ writeArrayValue(w, value, go) = pushValue(w, <<"[", "]">>)
        /\ writeObjectValue(w, value, go) = pushValue(w, <<"{", "}">>)
    BY <1>1 DEF writeArrayValue, writeObjectValue
  <2>4. QED
    BY <1>1, <1>6, <2>2, <2>3
<1>10. QED
  BY <1>7, <1>8, <1>9, KidTexts

LEMMA TotalLengthIsNat ==
  ASSUME NEW n \in Nat, NEW texts \in [1 .. n -> Document]
  PROVE  TotalLength(texts) \in Nat
<1> DEFINE step == [k \in 1 .. Len(texts) |-> [sum \in Nat |-> sum + Length(texts[k])]]
<1>1. Len(texts) = n /\ n \in 0 .. n
  OBVIOUS
<1>2. ASSUME NEW k \in 1 .. n PROVE Length(texts[k]) \in Nat
  <2>1. Len(texts[k]) \in Nat
    BY LenProperties DEF Document
  <2>2. Width \in [DOMAIN Width -> Nat]
    BY WriterAssumption
  <2>3. QED
    BY <2>1, <2>2 DEF Length
<1>3. AreSteps(step, n, Nat)
  BY <1>1, <1>2 DEF AreSteps
<1>4. TotalLength(texts) = After(0, n, step)
  BY <1>1 DEF TotalLength
<1> HIDE DEF step
<1>5. PICK f : Folds(f, Nat, 0, n, step) /\ After(0, n, step) = f[n]
  BY <1>3, AfterSteps
<1>6. f[n] \in Nat
  BY <1>1, <1>5 DEF Folds
<1>7. QED
  BY <1>4, <1>5, <1>6

\* The texts of the first k elements.
FirstTexts(value, k) == [j \in 1 .. k |-> FastValue[value.kids[j]]]

\* Measuring elements that are not compound leaves their texts.
LEMMA WalkedTexts ==
  ASSUME NEW w \in Writer, NEW value \in Value,
         w.addChildValues_, w.childValues_ = <<>>,
         \A k \in 1 .. size(value) : ~isCompound(value.kids[k])
  PROVE  After(w, size(value), Elements(value, writeValue)) =
           [w EXCEPT !.childValues_ = Elements(value, FastValue)]
<1> DEFINE n == size(value)
           step == Elements(value, writeValue)
           left(k) == [w EXCEPT !.childValues_ = FirstTexts(value, k)]
<1>1. n \in Nat /\ AreSteps(step, n, Writer)
  BY ValueFacts, WriteUnfolds DEF AreSteps, AreWriters
<1>2. ASSUME NEW k \in 0 .. n - 1
      PROVE  /\ left(k) \in Writer
             /\ step[k + 1][left(k)] = left(k + 1)
  <2> DEFINE kid == value.kids[k + 1]
             s == FirstTexts(value, k)
  <2>1. k \in Nat /\ k + 1 \in 1 .. n /\ 1 .. k \subseteq 1 .. n
    BY <1>1
  <2>2. kid \in Value /\ ~isCompound(kid) /\ FastValue[kid] \in Document
    BY <2>1, ValueFacts, KidTexts
  <2>3. s \in Seq(Document) /\ Len(s) = k
    <3>1. \A j \in 1 .. k : FastValue[value.kids[j]] \in Document
      BY <2>1, ValueFacts, KidTexts
    <3>2. QED
      BY <2>1, <3>1 DEF FirstTexts
  <2>4. Append(s, FastValue[kid]) = FirstTexts(value, k + 1)
    <3>1. \A j \in 1 .. k + 1 : FastValue[value.kids[j]] \in Document
      BY <2>1, ValueFacts, KidTexts
    <3>2. FirstTexts(value, k + 1) \in Seq(Document) /\ Len(FirstTexts(value, k + 1)) = k + 1
      BY <2>1, <3>1 DEF FirstTexts
    <3>3. /\ Append(s, FastValue[kid]) \in Seq(Document)
          /\ Len(Append(s, FastValue[kid])) = k + 1
          /\ \A j \in 1 .. k : Append(s, FastValue[kid])[j] = s[j]
          /\ Append(s, FastValue[kid])[k + 1] = FastValue[kid]
      BY <2>2, <2>3, AppendProperties
    <3>4. \A j \in 1 .. k + 1 : Append(s, FastValue[kid])[j] = FirstTexts(value, k + 1)[j]
      <4>1. \A j \in 1 .. k : s[j] = FastValue[value.kids[j]]
        BY DEF FirstTexts
      <4>2. \A j \in 1 .. k + 1 : FirstTexts(value, k + 1)[j] = FastValue[value.kids[j]]
        BY DEF FirstTexts
      <4>3. \A j \in 1 .. k + 1 : j \in 1 .. k \/ j = k + 1
        BY <2>1
      <4> HIDE DEF s
      <4>4. QED
        BY <3>3, <4>1, <4>2, <4>3
    <3> HIDE DEF s, kid
    <3>5. QED
      BY <3>2, <3>3, <3>4, SeqEqual
  <2>5. left(k) \in Writer /\ left(k).addChildValues_ /\ left(k).childValues_ = s
    <3> HIDE DEF s
    <3>1. left(k) = [w EXCEPT !.childValues_ = s]
      BY DEF s
    <3>2. QED
      BY <2>3, <3>1 DEF Writer
  <2>6. step[k + 1][left(k)] = pushValue(left(k), FastValue[kid])
    <3>1. step[k + 1] = writeValue[kid]
      BY <2>1, KidTexts
    <3> HIDE DEF step, left, kid
    <3>2. QED
      BY <2>2, <2>5, <3>1, NotCompound
  <2>7. pushValue(left(k), FastValue[kid]) =
          [left(k) EXCEPT !.childValues_ = Append(s, FastValue[kid])]
    BY <2>5 DEF pushValue
  <2>8. [left(k) EXCEPT !.childValues_ = Append(s, FastValue[kid])] = left(k + 1)
    <3> DEFINE t == FirstTexts(value, k + 1)
    <3> HIDE DEF s, t
    <3>1. left(k) = [w EXCEPT !.childValues_ = s] /\ left(k + 1) = [w EXCEPT !.childValues_ = t]
      BY DEF s, t
    <3> HIDE DEF left
    <3>2. QED
      BY <2>4, <3>1 DEF Writer, t
  <2>9. QED
    BY <2>5, <2>6, <2>7, <2>8
<1>3. left(0) = w
  <2>1. FirstTexts(value, 0) = <<>>
    BY DEF FirstTexts
  <2>2. QED
    BY <2>1 DEF Writer
<1>4. left(n) = [w EXCEPT !.childValues_ = Elements(value, FastValue)]
  BY DEF FirstTexts, Elements
<1> HIDE DEF left, step, n
<1>5. PICK f : Folds(f, Writer, w, n, step) /\ After(w, n, step) = f[n]
  BY <1>1, AfterSteps
<1> DEFINE T == {k \in Nat : k <= n => f[k] = left(k)}
<1>6. Nat \subseteq T
  <2>1. 0 \in T
    BY <1>3, <1>5 DEF Folds
  <2>2. ASSUME NEW k \in Nat, k \in T
        PROVE  k + 1 \in T
    <3>1. SUFFICES ASSUME k + 1 <= n PROVE f[k + 1] = left(k + 1)
      OBVIOUS
    <3>2. k + 1 \in 1 .. n /\ k \in 0 .. n - 1 /\ (k + 1) - 1 = k /\ k <= n
      BY <1>1, <3>1
    <3>3. f[k + 1] = step[k + 1][f[k]]
      BY <1>5, <3>2 DEF Folds
    <3>4. QED
      BY <1>2, <2>2, <3>2, <3>3
  <2> HIDE DEF T
  <2>3. QED
    BY <2>1, <2>2, SimpleInduction
<1>7. f[n] = left(n)
  BY <1>1, <1>6
<1>8. QED
  BY <1>4, <1>5, <1>7 DEF n, step

\* Elements are measured when there are few and none is compound.
Measurable(value) ==
  /\ size(value) * 3 < rightMargin_
  /\ \A k \in 1 .. size(value) : ~isCompound(value.kids[k])

MeasuredTexts(value) == IF Measurable(value) THEN Elements(value, FastValue) ELSE <<>>

LEMMA MeasuredArray ==
  ASSUME NEW w \in Writer, NEW value \in Value, value.type = "array", ~w.addChildValues_
  PROVE  LET is == isMultineArray(w, value, Elements(value, writeValue))
         IN  /\ is.writer = [w EXCEPT !.childValues_ = MeasuredTexts(value)]
             /\ is.multi <=> ~OneLine(value)
             /\ MeasuredTexts(value) \in Seq(Document)
<1> DEFINE n == size(value)
           kids == Elements(value, writeValue)
           texts == Elements(value, FastValue)
           u == [w EXCEPT !.childValues_ = <<>>]
           v == [u EXCEPT !.addChildValues_ = TRUE]
           long == n * 3 >= rightMargin_
           nested == \E index \in 1 .. n : isCompound(value.kids[index])
           walked == After(v, n, kids)
           width == 4 + (n - 1) * 2 + TotalLength(walked.childValues_)
<1>1. n \in Nat /\ rightMargin_ \in Nat /\ texts \in [1 .. n -> Document]
  BY ValueFacts, WriterAssumption, KidTexts
<1>0. texts \in Seq(Document)
  <2> HIDE DEF texts, n
  <2>1. QED
    BY <1>1
<1>2. isMultineArray(w, value, kids) =
        IF long \/ nested THEN [writer |-> u, multi |-> TRUE]
        ELSE [writer |-> [walked EXCEPT !.addChildValues_ = FALSE],
              multi  |-> width >= rightMargin_]
  BY DEF isMultineArray, Measured
<1>3. Measurable(value) <=> ~(long \/ nested)
  BY <1>1 DEF Measurable
<1>4. CASE ~Measurable(value)
  <2>1. isMultineArray(w, value, kids) = [writer |-> u, multi |-> TRUE]
    BY <1>2, <1>3, <1>4
  <2>2. ~OneLine(value)
    BY <1>4 DEF OneLine, Measurable
  <2>3. MeasuredTexts(value) = <<>>
    BY <1>4 DEF MeasuredTexts
  <2>4. QED
    BY <2>1, <2>2, <2>3
<1>5. CASE Measurable(value)
  <2>1. v \in Writer /\ v.addChildValues_ /\ v.childValues_ = <<>>
    <3>1. <<>> \in Seq(Document)
      OBVIOUS
    <3>2. u \in Writer /\ u.childValues_ = <<>>
      BY <3>1 DEF Writer
    <3> HIDE DEF u
    <3>3. QED
      BY <3>2 DEF Writer
  <2>2. walked = [v EXCEPT !.childValues_ = texts]
    <3> HIDE DEF v
    <3>1. QED
      BY <1>5, <2>1, WalkedTexts DEF Measurable
  <2>3. walked.childValues_ = texts
        /\ [walked EXCEPT !.addChildValues_ = FALSE] = [w EXCEPT !.childValues_ = texts]
    <3> HIDE DEF walked, texts
    <3>1. QED
      BY <2>2 DEF Writer
  <2> DEFINE total == TotalLength(texts)
  <2>4. total \in Nat
    <3> HIDE DEF texts, n
    <3>1. QED
      BY <1>1, TotalLengthIsNat
  <2>5. OneLine(value) <=> total + 2 * n + 2 < rightMargin_
    BY <1>5 DEF OneLine, Measurable, Elements
  <2>6. width = 4 + (n - 1) * 2 + total
    BY <2>3
  <2>7. isMultineArray(w, value, kids) =
          [writer |-> [w EXCEPT !.childValues_ = texts], multi |-> width >= rightMargin_]
    <3> HIDE DEF walked, width, long, nested
    <3>1. QED
      BY <1>2, <1>3, <1>5, <2>3
  <2> HIDE DEF total, n, width
  <2>8. (width >= rightMargin_) <=> ~OneLine(value)
    BY <1>1, <2>4, <2>5, <2>6
  <2>9. MeasuredTexts(value) = texts
    BY <1>5 DEF MeasuredTexts
  <2> DEFINE x == [w EXCEPT !.childValues_ = texts]
  <2> HIDE DEF x, texts, kids
  <2>10. /\ isMultineArray(w, value, kids).writer = x
         /\ isMultineArray(w, value, kids).multi = (width >= rightMargin_)
    BY <2>7 DEF x
  <2>11. QED
    BY <1>0, <2>8, <2>9, <2>10 DEF x, kids
<1>6. QED
  BY <1>4, <1>5

-----------------------------------------------------------------------------
(* What writing the elements of a value writes. *)

\* The comments among the elements of a value.
InsideOf(value) == Inside(value, Elements(value, CommentsOf))

\* A writer that writes to its document, and where.
Writing(w) == w \in Writer /\ ~w.addChildValues_ /\ w.indentString_ >= 0

\* Writing the value writes what FastWriter writes, and the comments.
WritesValue(value) ==
  \A w \in Writer : Writing(w) /\ ~Hides(w) =>
    /\ Wrote(w, writeValue[value][w], FastValue[value], InsideOf(value))
    /\ ~Hides(writeValue[value][w])

LEMMA WroteSelf ==
  ASSUME NEW w \in Writer
  PROVE  Wrote(w, w, <<>>, <<>>)
BY WriterFacts, HidingFacts, AddsNothing DEF Wrote

LEMMA WroteWriting ==
  ASSUME NEW w, NEW u, NEW t, NEW x, Writing(w), Wrote(w, u, t, x)
  PROVE  Writing(u)
BY DEF Writing, Wrote

LEMMA InsideOfIsDocument ==
  ASSUME NEW value \in Value
  PROVE  InsideOf(value) \in Document
BY KidTexts, InsideIsDocument DEF InsideOf

\* The texts that measuring left are there if they are used.
TextsLeft(w, value, has) ==
  has => value.type # "object" /\ Measurable(value)
           /\ w.childValues_ = Elements(value, FastValue)

NameTokens(value, index) ==
  IF value.type = "object" THEN <<Name(index), ":">> ELSE <<>>

LEMMA ItemWrote ==
  ASSUME NEW w, NEW value \in Value, NEW index \in 1 .. size(value), NEW has \in BOOLEAN,
         Writing(w), Lets(w), TextsLeft(w, value, has),
         WritesValue(value.kids[index])
  PROVE  LET kid == value.kids[index]
             u == Item(w, value, index, has, Elements(value, writeValue))
         IN  /\ Wrote(w, u, NameTokens(value, index) \o FastValue[kid], InsideOf(kid))
             /\ ~Hides(u)
             /\ has => u.childValues_ = w.childValues_
<1> DEFINE kid == value.kids[index]
           fast == FastValue[kid]
           go == Elements(value, writeValue)
<1>1. /\ kid \in Value /\ fast \in Document /\ InsideOf(kid) \in Document
      /\ go[index] = writeValue[kid] /\ size(value) \in Nat
  BY ValueFacts, KidTexts, InsideOfIsDocument
<1>2. w \in Writer /\ <<>> \in Document
  BY Texts DEF Writing
<1>3. /\ <<>> \o fast = fast /\ <<>> \o InsideOf(kid) = InsideOf(kid)
      /\ InsideOf(kid) \o <<>> = InsideOf(kid)
  BY <1>1, ConcatEmptySeq DEF Document
<1>4. CASE value.type = "object"
  <2> DEFINE u == writeWithIndent(w, <<Name(index), " ", ":", " ">>)
             named == <<Name(index), ":">>
  <2>1. Wrote(w, u, named, <<>>) /\ ~Hides(u)
    BY <1>2, NameWrote
  <2>2. Item(w, value, index, has, go) = writeValue[kid][u]
    BY <1>1, <1>4 DEF Item
  <2>3. named \in Document /\ NameTokens(value, index) = named
    BY <1>4, Texts DEF NameTokens
  <2> HIDE DEF u, named, kid, fast
  <2>4. Writing(u) /\ u \in Writer
    BY <2>1, WroteWriting DEF Wrote
  <2>5. Wrote(u, writeValue[kid][u], fast, InsideOf(kid)) /\ ~Hides(writeValue[kid][u])
    BY <2>1, <2>4 DEF WritesValue, kid, fast
  <2>6. Wrote(w, writeValue[kid][u], named \o fast, <<>> \o InsideOf(kid))
    BY <1>1, <1>2, <2>1, <2>3, <2>5, WroteMore
  <2>7. ~has
    BY <1>4 DEF TextsLeft
  <2>8. QED
    BY <1>3, <2>2, <2>3, <2>5, <2>6, <2>7 DEF kid, fast
<1>5. CASE value.type # "object" /\ has
  <2> DEFINE u == writeWithIndent(w, childValue(w, index))
  <2>1. w.childValues_ = Elements(value, FastValue) /\ ~isCompound(kid)
    BY <1>5 DEF TextsLeft, Measurable
  <2>2. Len(w.childValues_) = size(value) /\ w.childValues_[index] = fast
    BY <1>1, <2>1 DEF Elements
  <2>3. index <= Len(w.childValues_) /\ childValue(w, index) = fast
    BY <1>1, <2>2 DEF childValue
  <2>4. fast \in Seq(Plain) /\ InsideOf(kid) = <<>>
    BY <1>1, <2>1, NotCompound DEF InsideOf
  <2>5. /\ Wrote(w, u, fast, <<>>) /\ ~Hides(u)
        /\ u.childValues_ = w.childValues_
    BY <1>2, <2>3, <2>4, WithIndentWrote
  <2>6. Item(w, value, index, has, go) =
          [u EXCEPT !.holds = u.holds /\ index <= Len(w.childValues_)]
    BY <1>5 DEF Item
  <2>7. u \in Writer
    BY <2>5 DEF Wrote
  <2> HIDE DEF u
  <2>8. [u EXCEPT !.holds = u.holds /\ index <= Len(w.childValues_)] = u
    <3>1. (u.holds /\ index <= Len(w.childValues_)) = u.holds
      BY <2>3, <2>7, WriterFacts
    <3>2. QED
      BY <2>7, <3>1 DEF Writer
  <2>9. NameTokens(value, index) = <<>>
    BY <1>5 DEF NameTokens
  <2>10. QED
    BY <1>3, <2>4, <2>5, <2>6, <2>8, <2>9
<1>6. CASE value.type # "object" /\ ~has
  <2> DEFINE u == writeIndent(w)
  <2>1. Wrote(w, u, <<>>, <<>>) /\ ~Hides(u)
    BY <1>2, IndentWrote
  <2>2. Item(w, value, index, has, go) = writeValue[kid][u]
    BY <1>1, <1>6 DEF Item
  <2> HIDE DEF u, kid, fast
  <2>3. Writing(u) /\ u \in Writer
    BY <2>1, WroteWriting DEF Wrote
  <2>4. Wrote(u, writeValue[kid][u], fast, InsideOf(kid)) /\ ~Hides(writeValue[kid][u])
    BY <2>1, <2>3 DEF WritesValue, kid, fast
  <2>5. Wrote(w, writeValue[kid][u], fast, InsideOf(kid))
    BY <1>1, <1>2, <2>1, <2>4, WroteNothing
  <2>6. NameTokens(value, index) = <<>>
    BY <1>6 DEF NameTokens
  <2>7. QED
    BY <1>3, <1>6, <2>2, <2>4, <2>5, <2>6 DEF kid, fast
<1>7. QED
  BY <1>4, <1>5, <1>6

CommaTokens(value, index) == IF index = size(value) THEN <<>> ELSE <<",">>

LineTokens(value, index) ==
  (NameTokens(value, index) \o FastValue[value.kids[index]]) \o CommaTokens(value, index)

LEMMA LineTokensAreDocuments ==
  ASSUME NEW value \in Value, NEW index \in 1 .. size(value)
  PROVE  /\ NameTokens(value, index) \in Document
         /\ CommaTokens(value, index) \in Document
         /\ NameTokens(value, index) \o FastValue[value.kids[index]] \in Document
         /\ LineTokens(value, index) \in Document
<1>1. NameTokens(value, index) \in Document /\ CommaTokens(value, index) \in Document
  BY Texts DEF NameTokens, CommaTokens
<1>2. FastValue[value.kids[index]] \in Document
  BY ValueFacts, KidTexts
<1>3. NameTokens(value, index) \o FastValue[value.kids[index]] \in Document
  BY <1>1, <1>2, ConcatProperties DEF Document
<1>4. QED
  BY <1>1, <1>3, ConcatProperties DEF LineTokens, Document

LEMMA LineWrote ==
  ASSUME NEW w, NEW value \in Value, NEW index \in 1 .. size(value), NEW has \in BOOLEAN,
         Writing(w), Lets(w), TextsLeft(w, value, has),
         WritesValue(value.kids[index])
  PROVE  LET u == Line(w, value, index, has, Elements(value, writeValue))
         IN  /\ Wrote(w, u, LineTokens(value, index), CommentsOf[value.kids[index]])
             /\ Lets(u)
             /\ has => u.childValues_ = w.childValues_
<1> DEFINE kid == value.kids[index]
           go == Elements(value, writeValue)
           before == writeCommentBeforeValue(w, kid)
           written == Item(before, value, index, has, go)
           more == IF index = size(value) THEN written ELSE Put(written, <<",">>)
           line == writeCommentAfterValueOnSameLine(more, kid)
           tokens == NameTokens(value, index) \o FastValue[kid]
           comma == CommaTokens(value, index)
           p == Given(kid.before)
           q == InsideOf(kid)
           r == Given(kid.same)
           s == Given(kid.after)
<1>1. /\ kid \in Value /\ w \in Writer /\ <<>> \in Document
      /\ tokens \in Document /\ comma \in Document /\ tokens \o comma \in Document
      /\ LineTokens(value, index) = tokens \o comma
  BY ValueFacts, Texts, LineTokensAreDocuments DEF Writing, LineTokens
<1>2. p \in Document /\ q \in Document /\ r \in Document /\ s \in Document
  BY <1>1, ValueFacts, GivenIsDocument, InsideOfIsDocument
<1>3. CommentsOf[kid] = ((p \o q) \o r) \o s
  BY <1>1, CommentsUnfold DEF CommentsText, InsideOf
<1>4. Line(w, value, index, has, go) = line
  BY DEF Line
<1>5. /\ Wrote(w, before, <<>>, p) /\ Lets(before)
      /\ before.childValues_ = w.childValues_
  BY <1>1, BeforeWrote
<1>6. Writing(before) /\ TextsLeft(before, value, has)
  BY <1>5, WroteWriting DEF TextsLeft
<1>7. /\ Wrote(before, written, tokens, q) /\ ~Hides(written)
      /\ has => written.childValues_ = before.childValues_
  <2> HIDE DEF before
  <2>1. QED
    BY <1>5, <1>6, ItemWrote
<1> HIDE DEF written
<1>8. /\ Wrote(written, more, comma, <<>>) /\ ~Hides(more)
      /\ more.childValues_ = written.childValues_
  <2>1. written \in Writer
    BY <1>7 DEF Wrote
  <2>2. CASE index = size(value)
    BY <1>7, <2>1, <2>2, WroteSelf DEF CommaTokens
  <2>3. CASE index # size(value)
    <3>1. <<",">> \in Seq(Plain)
      BY TokenFacts, PlainTexts
    <3>2. QED
      BY <1>7, <2>1, <2>3, <3>1, PlainWrote DEF CommaTokens
  <2>4. QED
    BY <2>2, <2>3
<1> HIDE DEF more
<1>9. /\ Wrote(more, line, <<>>, r \o s) /\ Lets(line)
      /\ line.childValues_ = more.childValues_
  <2>1. more \in Writer
    BY <1>8 DEF Wrote
  <2>2. QED
    BY <1>1, <1>8, <2>1, AfterWrote
<1> HIDE DEF before, line, tokens, comma, p, q, r, s
<1>10. p \o q \in Document /\ r \o s \in Document
  BY <1>2, ConcatProperties DEF Document
<1>11. /\ <<>> \o tokens = tokens /\ (tokens \o comma) \o <<>> = tokens \o comma
       /\ (p \o q) \o <<>> = p \o q
  BY <1>1, <1>10, ConcatEmptySeq DEF Document
<1>12. Wrote(w, written, tokens, p \o q)
  <2>1. Wrote(w, written, <<>> \o tokens, p \o q)
    BY <1>1, <1>2, <1>5, <1>7, WroteMore
  <2>2. QED
    BY <1>11, <2>1
<1>13. Wrote(w, more, tokens \o comma, p \o q)
  <2>1. Wrote(w, more, tokens \o comma, (p \o q) \o <<>>)
    BY <1>1, <1>8, <1>10, <1>12, WroteMore
  <2>2. QED
    BY <1>11, <2>1
<1>14. Wrote(w, line, tokens \o comma, (p \o q) \o (r \o s))
  <2>1. Wrote(w, line, (tokens \o comma) \o <<>>, (p \o q) \o (r \o s))
    BY <1>1, <1>9, <1>10, <1>13, WroteMore
  <2>2. QED
    BY <1>11, <2>1
<1>15. (p \o q) \o (r \o s) = ((p \o q) \o r) \o s
  <2> DEFINE m == p \o q
  <2>1. m \in Document
    BY <1>10
  <2> HIDE DEF m
  <2>2. Grouped(m, r, s)
    BY <1>2, <2>1, DocumentsAssociate
  <2>3. QED
    BY <2>2 DEF Grouped, m
<1>16. Wrote(w, line, LineTokens(value, index), CommentsOf[kid])
  BY <1>1, <1>3, <1>14, <1>15
<1>17. has => line.childValues_ = w.childValues_
  BY <1>5, <1>7, <1>8, <1>9
<1>18. QED
  BY <1>4, <1>9, <1>16, <1>17

Regroups(a, b, c, d, e) ==
  (a \o b) \o ((c \o d) \o e) = (a \o ((b \o c) \o d)) \o e

LEMMA FiveTexts ==
  ASSUME NEW a \in Document, NEW b \in Document, NEW c \in Document, NEW d \in Document,
         NEW e \in Document
  PROVE  Regroups(a, b, c, d, e)
<1> DEFINE ab == a \o b
           bc == b \o c
           cd == c \o d
<1>1. ab \in Document /\ bc \in Document /\ cd \in Document
  BY ConcatProperties DEF Document
<1>2. bc \o d = b \o cd
  <2>1. Grouped(b, c, d)
    BY DocumentsAssociate
  <2>2. QED
    BY <2>1 DEF Grouped
<1>3. ab \o cd = a \o (b \o cd)
  <2> HIDE DEF cd
  <2>1. Grouped(a, b, cd)
    BY <1>1, DocumentsAssociate
  <2>2. QED
    BY <2>1 DEF Grouped
<1> HIDE DEF ab, bc, cd
<1>4. Grouped(ab, cd, e)
  BY <1>1, DocumentsAssociate
<1>5. (ab \o cd) \o e = ab \o (cd \o e)
  BY <1>4 DEF Grouped
<1>6. ab \o (cd \o e) = (a \o (bc \o d)) \o e
  BY <1>2, <1>3, <1>5
<1>7. QED
  BY <1>6 DEF ab, bc, cd, Regroups

\* The items that FastWriter writes, one behind the other.
ItemsOf(value) == Joined(FastItems(value, Elements(value, FastValue)))

LEMMA LinesWrote ==
  ASSUME NEW w, NEW value \in Value, NEW has \in BOOLEAN,
         Writing(w), Lets(w), TextsLeft(w, value, has),
         \A k \in 1 .. size(value) : WritesValue(value.kids[k])
  PROVE  LET u == Lines(w, value, has, Elements(value, writeValue))
         IN  /\ Wrote(w, u, ItemsOf(value), Joined(Elements(value, CommentsOf)))
             /\ Lets(u)
<1> DEFINE n == size(value)
           go == Elements(value, writeValue)
           items == FastItems(value, Elements(value, FastValue))
           comments == Elements(value, CommentsOf)
           comma(k) == IF 0 < k /\ k < n THEN <<",">> ELSE <<>>
<1>1. /\ n \in Nat /\ items \in [1 .. n -> Document] /\ comments \in [1 .. n -> Document]
      /\ AreWriters(go, n) /\ w \in Writer
  BY ValueFacts, KidTexts, FastTextIsDocument, WriteUnfolds DEF Writing
<1>2. PICK f \in [0 .. n -> Writer] :
        /\ f[0] = w
        /\ \A k \in 1 .. n : f[k] = Line(f[k - 1], value, k, has, go)
        /\ Lines(w, value, has, go) = f[n]
  BY <1>1, LineSteps
<1>3. PICK g \in [0 .. n -> Document] :
        /\ g[0] = <<>>
        /\ \A k \in 1 .. n : g[k] = g[k - 1] \o items[k]
        /\ Joined(items) = g[n]
  <2> HIDE DEF items, n
  <2>1. QED
    BY <1>1, JoinedSteps
<1>4. PICK h \in [0 .. n -> Document] :
        /\ h[0] = <<>>
        /\ \A k \in 1 .. n : h[k] = h[k - 1] \o comments[k]
        /\ Joined(comments) = h[n]
  <2> HIDE DEF comments, n
  <2>1. QED
    BY <1>1, JoinedSteps
<1> DEFINE so(k) == /\ Wrote(w, f[k], g[k] \o comma(k), h[k])
                    /\ Lets(f[k])
                    /\ has => f[k].childValues_ = w.childValues_
           T == {k \in Nat : k <= n => so(k)}
<1>5. so(0)
  <2>1. comma(0) = <<>>
    OBVIOUS
  <2>2. <<>> \o <<>> = <<>>
    BY Texts, ConcatEmptySeq DEF Document
  <2>3. QED
    BY <1>1, <1>2, <1>3, <1>4, <2>1, <2>2, WroteSelf
<1> HIDE DEF so
<1>6. ASSUME NEW k \in Nat, k < n, so(k)
      PROVE  so(k + 1)
  <2> DEFINE kid == value.kids[k + 1]
             a == g[k]
             b == comma(k)
             c == NameTokens(value, k + 1)
             d == FastValue[kid]
             e == comma(k + 1)
  <2>1. /\ k \in 0 .. n /\ k + 1 \in 1 .. n /\ k + 1 \in 0 .. n /\ (k + 1) - 1 = k
    BY <1>1, <1>6
  <2>2. /\ f[k + 1] = Line(f[k], value, k + 1, has, go)
        /\ g[k + 1] = a \o items[k + 1] /\ h[k + 1] = h[k] \o comments[k + 1]
        /\ a \in Document /\ h[k] \in Document
    BY <1>2, <1>3, <1>4, <2>1
  <2>3. kid \in Value /\ d \in Document /\ CommentsOf[kid] \in Document
        /\ comments[k + 1] = CommentsOf[kid]
    BY <2>1, ValueFacts, KidTexts
  <2>4. /\ b \in Document /\ e \in Document /\ c \in Document
        /\ LineTokens(value, k + 1) \in Document
    BY <2>1, Texts, LineTokensAreDocuments
  <2>5. LineTokens(value, k + 1) = (c \o d) \o e
    <3>1. CommaTokens(value, k + 1) = e
      <4>1. (k + 1 = n) <=> ~(0 < k + 1 /\ k + 1 < n)
        BY <1>1, <2>1
      <4>2. QED
        BY <4>1 DEF CommaTokens
    <3> HIDE DEF e
    <3>2. QED
      BY <3>1 DEF LineTokens
  <2>6. items[k + 1] = (b \o c) \o d
    <3>1. items[k + 1] = FastItem(value, k + 1, d)
      BY <2>1, KidTexts DEF FastItems
    <3>2. b = IF k + 1 > 1 THEN <<",">> ELSE <<>>
      <4>1. (k + 1 > 1) <=> (0 < k /\ k < n)
        BY <1>1, <1>6
      <4>2. QED
        BY <4>1
    <3> HIDE DEF b
    <3>3. QED
      BY <3>1, <3>2 DEF FastItem, NameTokens
  <2>7. Writing(f[k]) /\ TextsLeft(f[k], value, has)
    BY <1>6, WroteWriting DEF TextsLeft, so
  <2>8. /\ Wrote(f[k], f[k + 1], LineTokens(value, k + 1), CommentsOf[kid])
        /\ Lets(f[k + 1])
        /\ has => f[k + 1].childValues_ = f[k].childValues_
    <3> HIDE DEF kid, n
    <3>1. WritesValue(value.kids[k + 1]) /\ Lets(f[k]) /\ k + 1 \in 1 .. size(value)
      BY <1>6, <2>1 DEF so, n
    <3>2. QED
      BY <2>2, <2>7, <3>1, LineWrote DEF kid
  <2>9. a \o b \in Document
    <3> HIDE DEF a, b
    <3>1. QED
      BY <2>2, <2>4, ConcatProperties DEF Document
  <2>10. Wrote(w, f[k + 1], (a \o b) \o LineTokens(value, k + 1), h[k] \o CommentsOf[kid])
    BY <1>1, <1>6, <2>2, <2>3, <2>4, <2>8, <2>9, WroteMore DEF so
  <2> HIDE DEF a, b, c, d, e, items, comma, kid
  <2>11. (a \o b) \o ((c \o d) \o e) = (a \o ((b \o c) \o d)) \o e
    <3>1. a \in Document /\ b \in Document /\ c \in Document /\ d \in Document
          /\ e \in Document
      BY <2>2, <2>3, <2>4
    <3>2. Regroups(a, b, c, d, e)
      BY <3>1, FiveTexts
    <3>3. QED
      BY <3>2 DEF Regroups
  <2>12. (a \o b) \o LineTokens(value, k + 1) = g[k + 1] \o e
    BY <2>2, <2>5, <2>6, <2>11
  <2>13. Wrote(w, f[k + 1], g[k + 1] \o e, h[k + 1])
    BY <2>2, <2>3, <2>10, <2>12
  <2>14. QED
    BY <1>6, <2>8, <2>13 DEF e, so
<1>7. Nat \subseteq T
  <2>1. 0 \in T
    BY <1>5
  <2>2. ASSUME NEW k \in Nat, k \in T PROVE k + 1 \in T
    <3>1. SUFFICES ASSUME k + 1 <= n PROVE so(k + 1)
      OBVIOUS
    <3>2. k < n /\ k <= n
      BY <1>1, <3>1
    <3>3. QED
      BY <1>6, <2>2, <3>2
  <2> HIDE DEF T
  <2>3. QED
    BY <2>1, <2>2, SimpleInduction
<1>8. so(n)
  BY <1>1, <1>7
<1>9. comma(n) = <<>> /\ g[n] \o <<>> = g[n]
  <2>1. comma(n) = <<>> /\ g[n] \in Document
    BY <1>1, <1>3
  <2>2. QED
    BY <2>1, ConcatEmptySeq DEF Document
<1>10. QED
  BY <1>2, <1>3, <1>4, <1>8, <1>9 DEF so, ItemsOf

-----------------------------------------------------------------------------
(* What writing a value writes. *)

LEMMA IndentingMembers ==
  ASSUME NEW w \in Writer
  PROVE  /\ LET u == indent(w)
            IN  /\ u.document_ = w.document_ /\ u.childValues_ = w.childValues_
                /\ u.isStream = w.isStream /\ u.addChildValues_ = w.addChildValues_
                /\ u.indentString_ = w.indentString_ + 1 /\ u.holds = w.holds
         /\ LET u == unindent(w)
            IN  /\ u.document_ = w.document_ /\ u.childValues_ = w.childValues_
                /\ u.isStream = w.isStream /\ u.addChildValues_ = w.addChildValues_
                /\ u.indentString_ = w.indentString_ - 1
                /\ u.holds = (w.holds /\ w.indentString_ > 0)
BY DEF Writer, indent, unindent

LEMMA BracketedWrote ==
  ASSUME NEW w, NEW value \in Value, NEW has \in BOOLEAN, NEW open \in Plain, NEW close \in Plain,
         Writing(w), ~Hides(w), TextsLeft(w, value, has),
         \A k \in 1 .. size(value) : WritesValue(value.kids[k])
  PROVE  LET u == Bracketed(w, value, has, Elements(value, writeValue), open, close)
         IN  /\ Wrote(w, u, <<open>> \o ItemsOf(value) \o <<close>>,
                      Joined(Elements(value, CommentsOf)))
             /\ ~Hides(u)
<1> DEFINE go == Elements(value, writeValue)
           a == writeWithIndent(w, <<open>>)
           b == indent(a)
           c == Lines(b, value, has, go)
           d == unindent(c)
           e == writeWithIndent(d, <<close>>)
           items == ItemsOf(value)
           comments == Joined(Elements(value, CommentsOf))
<1>1. w \in Writer /\ <<open>> \in Seq(Plain) /\ <<close>> \in Seq(Plain)
  BY PlainTexts DEF Writing
<1>2. <<open>> \in Document /\ <<close>> \in Document /\ <<>> \in Document
  <2>1. open \in Token /\ close \in Token
    BY DEF Plain
  <2>2. QED
    BY <2>1, Tuples
<1>3. items \in Document /\ comments \in Document
  BY ValueFacts, KidTexts, FastTextIsDocument, JoinedIsDocument DEF ItemsOf
<1>4. /\ Wrote(w, a, <<open>>, <<>>) /\ ~Hides(a)
      /\ a.childValues_ = w.childValues_
  BY <1>1, WriterHidesNothing, WithIndentWrote
<1>5. Writing(a) /\ a \in Writer /\ a.indentString_ \in Int /\ a.indentString_ >= 0
  BY <1>4, WroteWriting, WriterFacts DEF Wrote, Writing
<1> HIDE DEF a
<1>6. /\ b \in Writer
      /\ b.document_ = a.document_ /\ b.childValues_ = a.childValues_
      /\ b.isStream = a.isStream /\ b.addChildValues_ = a.addChildValues_
      /\ b.indentString_ = a.indentString_ + 1 /\ b.holds = a.holds
  BY <1>5, IndentingFacts, IndentingMembers
<1> HIDE DEF b
<1>7. Writing(b) /\ Lets(b) /\ TextsLeft(b, value, has)
  <2>1. Lets(b)
    BY <1>4, <1>6, SameHiding, WriterHidesNothing
  <2>2. QED
    BY <1>4, <1>5, <1>6, <2>1 DEF Writing, TextsLeft
<1>8. Wrote(b, c, items, comments) /\ Lets(c)
  BY <1>7, LinesWrote
<1>9. c \in Writer /\ c.indentString_ = a.indentString_ + 1 /\ c.holds = a.holds
      /\ c.isStream = a.isStream /\ c.addChildValues_ = a.addChildValues_
  BY <1>6, <1>8 DEF Wrote
<1> HIDE DEF c
<1>10. /\ d \in Writer
       /\ d.document_ = c.document_ /\ d.isStream = a.isStream
       /\ d.addChildValues_ = a.addChildValues_
       /\ d.indentString_ = c.indentString_ - 1
       /\ d.holds = (c.holds /\ c.indentString_ > 0)
  BY <1>9, IndentingFacts, IndentingMembers
<1>11. d.indentString_ = a.indentString_ /\ c.indentString_ > 0
  BY <1>5, <1>9, <1>10
<1>12. d.holds = a.holds
  BY <1>5, <1>9, <1>10, <1>11, WriterFacts
<1>13. Wrote(a, d, items, comments)
  <2>1. HidingOf(b) = HidingOf(a)
    BY <1>6, SameHiding
  <2>2. QED
    BY <1>6, <1>8, <1>10, <1>11, <1>12, <2>1 DEF Wrote
<1>14. Lets(d)
  BY <1>8, <1>9, <1>10, SameHiding
<1> HIDE DEF d
<1>15. Wrote(d, e, <<close>>, <<>>) /\ ~Hides(e)
  BY <1>1, <1>10, <1>14, WithIndentWrote
<1>16. Bracketed(w, value, has, go, open, close) = e
  BY DEF Bracketed, a, b, c, d
<1> DEFINE s == <<open>>
           t == <<close>>
<1> HIDE DEF e, items, comments, s, t
<1>17. s \o items \in Document
  BY <1>2, <1>3, ConcatProperties DEF Document, s
<1>18. <<>> \o comments = comments /\ comments \o <<>> = comments
  BY <1>3, ConcatEmptySeq DEF Document
<1>19. Wrote(w, d, s \o items, comments)
  <2>1. Wrote(w, d, s \o items, <<>> \o comments)
    BY <1>1, <1>2, <1>3, <1>4, <1>13, WroteMore DEF s
  <2>2. QED
    BY <1>18, <2>1
<1>20. Wrote(w, e, (s \o items) \o t, comments)
  <2>1. Wrote(w, e, (s \o items) \o t, comments \o <<>>)
    BY <1>1, <1>2, <1>3, <1>15, <1>17, <1>19, WroteMore DEF t
  <2>2. QED
    BY <1>18, <2>1
<1>21. QED
  BY <1>15, <1>16, <1>20 DEF s, t, items, comments

LEMMA SingleItemsAdd ==
  ASSUME NEW hiding \in SUBSET LineComment,
         NEW w \in Writer, NEW value \in Value, NEW doc \in Document,
         ~Hidden(hiding, doc), value.type = "array",
         Measurable(value), w.childValues_ = Elements(value, FastValue)
  PROVE  /\ doc \o Joined(SingleItems(w, value)) \in Document
         /\ Adds(hiding, doc, doc \o Joined(SingleItems(w, value)), ItemsOf(value), <<>>)
         /\ ~Hidden(hiding, doc \o Joined(SingleItems(w, value)))
<1> DEFINE n == size(value)
           items == FastItems(value, Elements(value, FastValue))
           shown == SingleItems(w, value)
<1>1. /\ n \in Nat /\ items \in [1 .. n -> Document] /\ shown \in [1 .. n -> Document]
  BY ValueFacts, KidTexts, FastTextIsDocument, SingleLineIsWriter
<1>2. PICK f \in [0 .. n -> Document] :
        /\ f[0] = <<>>
        /\ \A k \in 1 .. n : f[k] = f[k - 1] \o shown[k]
        /\ Joined(shown) = f[n]
  <2> HIDE DEF shown, n
  <2>1. QED
    BY <1>1, JoinedSteps
<1>3. PICK g \in [0 .. n -> Document] :
        /\ g[0] = <<>>
        /\ \A k \in 1 .. n : g[k] = g[k - 1] \o items[k]
        /\ Joined(items) = g[n]
  <2> HIDE DEF items, n
  <2>1. QED
    BY <1>1, JoinedSteps
<1> DEFINE so(k) == /\ doc \o f[k] \in Document
                    /\ Adds(hiding, doc, doc \o f[k], g[k], <<>>)
                    /\ ~Hidden(hiding, doc \o f[k])
           T == {k \in Nat : k <= n => so(k)}
<1>4. so(0)
  <2>1. doc \o <<>> = doc
    BY ConcatEmptySeq DEF Document
  <2>2. QED
    BY <1>2, <1>3, <2>1, AddsNothing
<1> HIDE DEF so
<1>5. ASSUME NEW k \in Nat, k < n, so(k)
      PROVE  so(k + 1)
  <2> DEFINE kid == value.kids[k + 1]
             text == FastValue[kid]
             sep == IF k + 1 > 1 THEN <<",">> ELSE <<>>
             wide == IF k + 1 > 1 THEN <<",", " ">> ELSE <<>>
             a == doc \o f[k]
             b == a \o wide
             c == b \o text
  <2>1. k \in 0 .. n /\ k + 1 \in 1 .. n /\ (k + 1) - 1 = k
    BY <1>1, <1>5
  <2>2. /\ f[k + 1] = f[k] \o shown[k + 1] /\ f[k] \in Document
        /\ g[k + 1] = g[k] \o items[k + 1] /\ g[k] \in Document
    BY <1>2, <1>3, <2>1
  <2>3. kid \in Value /\ text \in Document /\ text \in Seq(Plain)
        /\ w.childValues_[k + 1] = text /\ Len(w.childValues_) = n
    <3>1. kid \in Value /\ ~isCompound(kid)
      BY <2>1, ValueFacts DEF Measurable
    <3>2. w.childValues_[k + 1] = text /\ Len(w.childValues_) = n
      BY <1>1, <2>1 DEF Elements
    <3> HIDE DEF kid
    <3>3. QED
      BY <3>1, <3>2, NotCompound
  <2>4. childValue(w, k + 1) = text
    BY <2>1, <2>3 DEF childValue
  <2>5. shown[k + 1] = wide \o text
    BY <2>1, <2>4 DEF SingleItems
  <2>6. sep \in Document /\ wide \in Document /\ <<>> \in Document
    BY Texts
  <2>7. items[k + 1] = sep \o text
    <3>1. items[k + 1] = FastItem(value, k + 1, text)
      BY <2>1, KidTexts DEF FastItems
    <3>2. FastItem(value, k + 1, text) = (sep \o <<>>) \o text
      BY DEF FastItem
    <3> HIDE DEF sep
    <3>3. sep \o <<>> = sep
      BY <2>6, ConcatEmptySeq DEF Document
    <3>4. QED
      BY <3>1, <3>2, <3>3
  <2>8. a \in Document /\ Adds(hiding, doc, a, g[k], <<>>) /\ ~Hidden(hiding, a)
    BY <1>5 DEF so
  <2> HIDE DEF a, kid, text
  <2>9. b \in Document /\ Adds(hiding, a, b, sep, <<>>) /\ ~Hidden(hiding, b)
    <3>1. CASE k + 1 > 1
      <4> DEFINE x == a \o <<",">>
      <4>1. <<",">> \in Seq(Plain) /\ <<",">> \in Document /\ " " \in Blank
            /\ "," \in Token /\ " " \in Token
        BY TokenFacts, PlainTexts, Tuples DEF Blank
      <4>2. x \in Document /\ Adds(hiding, a, x, <<",">>, <<>>) /\ ~Hidden(hiding, x)
        BY <2>8, <4>1, PlainAdds
      <4>3. a \o <<",", " ">> = x \o <<" ">>
        <5>1. Behind2(a, ",", " ")
          BY <2>8, <4>1, TwoBehind
        <5>2. QED
          BY <5>1 DEF Behind2
      <4> HIDE DEF x
      <4>4. /\ x \o <<" ">> \in Document /\ Adds(hiding, x, x \o <<" ">>, <<>>, <<>>)
            /\ ~Hidden(hiding, x \o <<" ">>)
        BY <4>1, <4>2, BlankAdds
      <4>5. Adds(hiding, a, x \o <<" ">>, <<",">>, <<>>)
        BY <2>6, <2>8, <4>1, <4>2, <4>4, AddsAfterNothing
      <4>6. QED
        BY <3>1, <4>3, <4>4, <4>5
    <3>2. CASE ~(k + 1 > 1)
      <4>1. a \o <<>> = a
        BY <2>8, ConcatEmptySeq DEF Document
      <4>2. QED
        BY <2>8, <3>2, <4>1, AddsNothing
    <3>3. QED
      BY <3>1, <3>2
  <2> HIDE DEF b, sep, wide
  <2>10. c \in Document /\ Adds(hiding, b, c, text, <<>>) /\ ~Hidden(hiding, c)
    BY <2>3, <2>9, PlainAdds
  <2>11. Adds(hiding, a, c, sep \o text, <<>>)
    <3>1. Adds(hiding, a, c, sep \o text, <<>> \o <<>>)
      BY <2>3, <2>6, <2>8, <2>9, <2>10, AddsMore
    <3>2. <<>> \o <<>> = <<>>
      BY <2>6, ConcatEmptySeq DEF Document
    <3>3. QED
      BY <3>1, <3>2
  <2>12. Adds(hiding, doc, c, g[k] \o (sep \o text), <<>>)
    <3>1. sep \o text \in Document
      BY <2>3, <2>6, ConcatProperties DEF Document
    <3>2. Adds(hiding, doc, c, g[k] \o (sep \o text), <<>> \o <<>>)
      BY <2>2, <2>6, <2>8, <2>11, <3>1, AddsMore
    <3>3. <<>> \o <<>> = <<>>
      BY <2>6, ConcatEmptySeq DEF Document
    <3>4. QED
      BY <3>2, <3>3
  <2>13. c = doc \o f[k + 1]
    <3> DEFINE q == f[k]
               r == wide \o text
    <3>1. q \in Document /\ r \in Document /\ f[k + 1] = q \o r
      BY <2>2, <2>3, <2>5, <2>6, ConcatProperties DEF Document
    <3> HIDE DEF q
    <3>2. (a \o wide) \o text = a \o r
      <4>1. Grouped(a, wide, text)
        BY <2>3, <2>6, <2>8, DocumentsAssociate
      <4>2. QED
        BY <4>1 DEF Grouped
    <3> HIDE DEF r
    <3>3. (doc \o q) \o r = doc \o (q \o r)
      <4>1. Grouped(doc, q, r)
        BY <3>1, DocumentsAssociate
      <4>2. QED
        BY <4>1 DEF Grouped
    <3>4. QED
      BY <3>1, <3>2, <3>3 DEF a, b, q
  <2>14. QED
    BY <2>2, <2>7, <2>10, <2>12, <2>13 DEF so
<1>6. Nat \subseteq T
  <2>1. 0 \in T
    BY <1>4
  <2>2. ASSUME NEW k \in Nat, k \in T PROVE k + 1 \in T
    <3>1. SUFFICES ASSUME k + 1 <= n PROVE so(k + 1)
      OBVIOUS
    <3>2. k < n /\ k <= n
      BY <1>1, <3>1
    <3>3. QED
      BY <1>5, <2>2, <3>2
  <2> HIDE DEF T
  <2>3. QED
    BY <2>1, <2>2, SimpleInduction
<1>7. so(n)
  BY <1>1, <1>6
<1>8. QED
  BY <1>2, <1>3, <1>7 DEF so, ItemsOf

LEMMA SingleLineWrote ==
  ASSUME NEW w, NEW value \in Value, Writing(w), ~Hides(w),
         value.type = "array", Measurable(value),
         w.childValues_ = Elements(value, FastValue)
  PROVE  /\ Wrote(w, SingleLine(w, value), <<"[">> \o ItemsOf(value) \o <<"]">>, <<>>)
         /\ ~Hides(SingleLine(w, value))
<1> DEFINE hiding == HidingOf(w)
           doc == w.document_
           shown == Joined(SingleItems(w, value))
           items == ItemsOf(value)
           tokens == <<"[", " ">> \o shown \o <<" ", "]">>
           a == doc \o <<"[">>
           b == a \o <<" ">>
           c == b \o shown
           d == c \o <<" ">>
           e == d \o <<"]">>
<1>1. w \in Writer /\ doc \in Document /\ size(value) \in Nat
      /\ hiding \in SUBSET LineComment
  BY WriterFacts, HidingFacts, ValueFacts DEF Writing
<1>2. /\ tokens \in Document /\ SingleLine(w, value) \in Writer
      /\ SingleLine(w, value) =
           [w EXCEPT !.document_ = doc \o tokens,
                     !.holds = w.holds /\ Len(w.childValues_) = size(value)]
  BY <1>1, SingleLineIsWriter
<1>3. shown \in Document /\ items \in Document
  BY <1>1, SingleLineIsWriter, KidTexts, FastTextIsDocument, JoinedIsDocument DEF ItemsOf
<1>4. Len(w.childValues_) = size(value)
  BY <1>1 DEF Elements
<1>5. /\ "[" \in Token /\ "]" \in Token /\ " " \in Token /\ " " \in Blank /\ <<>> \in Document
      /\ <<"[">> \in Seq(Plain) /\ <<"]">> \in Seq(Plain)
      /\ <<"[">> \in Document /\ <<"]">> \in Document /\ <<" ">> \in Document
      /\ <<"[", " ">> \in Document /\ <<" ", "]">> \in Document
  BY TokenFacts, PlainTexts, Tuples DEF Blank
<1>6. ~Hidden(hiding, doc)
  BY DEF Hides
<1> HIDE DEF hiding, doc, shown, items
<1>7. a \in Document /\ Adds(hiding, doc, a, <<"[">>, <<>>) /\ ~Hidden(hiding, a)
  BY <1>1, <1>5, <1>6, PlainAdds
<1>8. doc \o <<"[", " ">> = b
  <2>1. Behind2(doc, "[", " ")
    BY <1>1, <1>5, TwoBehind
  <2>2. QED
    BY <2>1 DEF Behind2
<1> HIDE DEF a
<1>9. b \in Document /\ Adds(hiding, a, b, <<>>, <<>>) /\ ~Hidden(hiding, b)
  BY <1>1, <1>5, <1>7, BlankAdds
<1> HIDE DEF b
<1>10. c \in Document /\ Adds(hiding, b, c, items, <<>>) /\ ~Hidden(hiding, c)
  BY <1>1, <1>9, SingleItemsAdd DEF shown, items
<1>11. c \o <<" ", "]">> = e
  <2> DEFINE p == " "
             q == "]"
  <2>1. p \in Token /\ q \in Token
    BY <1>5
  <2> HIDE DEF c, p, q
  <2>2. Behind2(c, p, q)
    BY <1>10, <2>1, TwoBehind
  <2>3. QED
    BY <2>2 DEF p, q, Behind2
<1>12. doc \o tokens = c \o <<" ", "]">>
  <2> DEFINE s == <<"[", " ">>
             t == <<" ", "]">>
             m == s \o shown
  <2>1. s \in Document /\ t \in Document /\ b = doc \o s
    BY <1>5, <1>8
  <2> HIDE DEF s, t
  <2>2. m \in Document /\ doc \o m = c
    <3>1. m \in Document
      BY <1>3, <2>1, ConcatProperties DEF Document
    <3>2. Grouped(doc, s, shown)
      BY <1>1, <1>3, <2>1, DocumentsAssociate
    <3>3. QED
      BY <2>1, <3>1, <3>2 DEF Grouped
  <2> HIDE DEF m
  <2>3. Grouped(doc, m, t)
    BY <1>1, <2>1, <2>2, DocumentsAssociate
  <2>4. QED
    BY <2>2, <2>3 DEF Grouped, m, s, t
<1> HIDE DEF c
<1>13. d \in Document /\ Adds(hiding, c, d, <<>>, <<>>) /\ ~Hidden(hiding, d)
  BY <1>1, <1>5, <1>10, BlankAdds
<1> HIDE DEF d
<1>14. Adds(hiding, d, e, <<"]">>, <<>>) /\ ~Hidden(hiding, e)
  BY <1>1, <1>5, <1>13, PlainAdds
<1> DEFINE s == <<"[">>
           t == <<"]">>
<1> HIDE DEF e, tokens, s, t
<1>15. Adds(hiding, doc, b, s, <<>>)
  BY <1>1, <1>5, <1>7, <1>9, AddsAfterNothing DEF s
<1>16. <<>> \o <<>> = <<>>
  BY <1>5, ConcatEmptySeq DEF Document
<1>17. Adds(hiding, doc, c, s \o items, <<>>)
  <2>1. Adds(hiding, doc, c, s \o items, <<>> \o <<>>)
    BY <1>1, <1>3, <1>5, <1>10, <1>15, AddsMore DEF s
  <2>2. QED
    BY <1>16, <2>1
<1>18. Adds(hiding, c, e, t, <<>>)
  BY <1>1, <1>5, <1>10, <1>13, <1>14, AddsAfterNothing DEF t
<1>19. Adds(hiding, doc, e, (s \o items) \o t, <<>>)
  <2>1. s \o items \in Document
    BY <1>3, <1>5, ConcatProperties DEF Document, s
  <2>2. Adds(hiding, doc, e, (s \o items) \o t, <<>> \o <<>>)
    BY <1>1, <1>5, <1>17, <1>18, <2>1, AddsMore DEF t
  <2>3. QED
    BY <1>16, <2>2
<1> DEFINE u == SingleLine(w, value)
<1>20. /\ u \in Writer /\ u.document_ = e /\ u.isStream = w.isStream
       /\ u.addChildValues_ = w.addChildValues_ /\ u.indentString_ = w.indentString_
       /\ u.holds = (w.holds /\ Len(w.childValues_) = size(value))
  <2> DEFINE more == doc \o tokens
             h == w.holds /\ Len(w.childValues_) = size(value)
  <2>1. more = e
    BY <1>11, <1>12
  <2>2. u = [w EXCEPT !.document_ = more, !.holds = h] /\ u \in Writer
    BY <1>2 DEF tokens
  <2> HIDE DEF u, more, h
  <2>3. /\ u.document_ = more /\ u.holds = h /\ u.isStream = w.isStream
        /\ u.addChildValues_ = w.addChildValues_ /\ u.indentString_ = w.indentString_
    BY <1>1, <2>2 DEF Writer
  <2>4. QED
    BY <2>1, <2>2, <2>3 DEF h
<1> HIDE DEF u
<1>21. u.holds = w.holds
  BY <1>1, <1>4, <1>20, WriterFacts
<1>22. Wrote(w, u, (s \o items) \o t, <<>>)
  BY <1>19, <1>20, <1>21 DEF Wrote, doc, hiding
<1>23. ~Hides(u)
  BY <1>14, <1>20 DEF Hides, HidingOf, hiding
<1>24. QED
  BY <1>22, <1>23 DEF u, s, t, items

LEMMA PlainCase ==
  ASSUME NEW value \in Value, ~isCompound(value)
  PROVE  WritesValue(value)
<1> DEFINE s == FastValue[value]
<1>1. /\ s \in Seq(Plain) /\ InsideOf(value) = <<>>
      /\ \A w \in Writer : writeValue[value][w] = pushValue(w, s)
  BY NotCompound DEF InsideOf
<1> HIDE DEF s
<1>2. ASSUME NEW w \in Writer, Writing(w), ~Hides(w)
      PROVE  /\ Wrote(w, writeValue[value][w], s, InsideOf(value))
             /\ ~Hides(writeValue[value][w])
  <2>1. writeValue[value][w] = Put(w, s)
    BY <1>1, <1>2 DEF pushValue, Writing
  <2>2. QED
    BY <1>1, <1>2, <2>1, PlainWrote
<1>3. QED
  BY <1>2 DEF WritesValue, s

LEMMA ArrayCase ==
  ASSUME NEW value \in Value, value.type = "array", size(value) > 0,
         \A k \in 1 .. size(value) : WritesValue(value.kids[k])
  PROVE  WritesValue(value)
<1> DEFINE go == Elements(value, writeValue)
           items == ItemsOf(value)
           fast == <<"[">> \o items \o <<"]">>
<1>1. FastValue[value] = fast
  BY FastUnfolds DEF FastText, ItemsOf
<1>2. ASSUME NEW w \in Writer, Writing(w), ~Hides(w)
      PROVE  /\ Wrote(w, writeValue[value][w], fast, InsideOf(value))
             /\ ~Hides(writeValue[value][w])
  <2> DEFINE is == isMultineArray(w, value, go)
             u == [w EXCEPT !.childValues_ = MeasuredTexts(value)]
             has == u.childValues_ # <<>>
  <2>1. is.writer = u /\ (is.multi <=> ~OneLine(value))
    BY <1>2, MeasuredArray DEF Writing
  <2>2. MeasuredTexts(value) \in Seq(Document)
    BY <1>2, MeasuredArray DEF Writing
  <2>3. /\ u \in Writer /\ u.document_ = w.document_ /\ u.isStream = w.isStream
        /\ u.addChildValues_ = w.addChildValues_ /\ u.indentString_ = w.indentString_
        /\ u.holds = w.holds /\ u.childValues_ = MeasuredTexts(value)
    BY <2>2 DEF Writer
  <2>4. writeValue[value][w] = writeArrayValue(w, value, go)
    <3>1. writeValue[value] = WriteBody(value, go)
      BY WriteUnfolds
    <3> HIDE DEF go
    <3>2. QED
      BY <3>1 DEF WriteBody
  <2>5. writeArrayValue(w, value, go) =
          IF ~OneLine(value) THEN Bracketed(u, value, has, go, "[", "]")
          ELSE SingleLine(u, value)
    <3>1. size(value) # 0
      BY ValueFacts
    <3> HIDE DEF u
    <3> DEFINE i == is
    <3>2. i.writer = u /\ (i.multi <=> ~OneLine(value))
      BY <2>1
    <3>3. writeArrayValue(w, value, go) =
            IF i.multi
            THEN Bracketed(i.writer, value, i.writer.childValues_ # <<>>, go, "[", "]")
            ELSE SingleLine(i.writer, value)
      BY <3>1 DEF writeArrayValue
    <3> HIDE DEF i, go
    <3>4. QED
      BY <3>2, <3>3
  <2> HIDE DEF u
  <2>6. Writing(u) /\ ~Hides(u)
    BY <1>2, <2>3, SameHiding DEF Writing
  <2>7. Wrote(w, u, <<>>, <<>>)
    BY <1>2, <2>3, WriterFacts, HidingFacts, AddsNothing DEF Wrote
  <2>8. has => Measurable(value)
    BY <2>3 DEF MeasuredTexts
  <2>9. TextsLeft(u, value, has)
    BY <2>3, <2>8 DEF TextsLeft, MeasuredTexts
  <2>10. items \in Document /\ Joined(Elements(value, CommentsOf)) \in Document
    BY ValueFacts, KidTexts, FastTextIsDocument, JoinedIsDocument DEF ItemsOf
  <2>11. fast \in Document /\ <<>> \in Document
    BY <1>1, KidTexts, Texts
  <2> HIDE DEF fast
  <2>12. CASE ~OneLine(value)
    <3> DEFINE v == Bracketed(u, value, has, go, "[", "]")
    <3>1. writeValue[value][w] = v
      BY <2>4, <2>5, <2>12
    <3>2. Wrote(u, v, fast, Joined(Elements(value, CommentsOf))) /\ ~Hides(v)
      <4>1. "[" \in Plain /\ "]" \in Plain /\ has \in BOOLEAN
        BY TokenFacts
      <4> HIDE DEF has
      <4>2. QED
        BY <2>6, <2>9, <4>1, BracketedWrote DEF fast
    <3> HIDE DEF v
    <3>3. Wrote(w, v, fast, Joined(Elements(value, CommentsOf)))
      BY <2>7, <2>10, <2>11, <3>2, WroteNothing
    <3>4. InsideOf(value) = Joined(Elements(value, CommentsOf))
      BY <2>12 DEF InsideOf, Inside
    <3>5. QED
      BY <3>1, <3>2, <3>3, <3>4
  <2>13. CASE OneLine(value)
    <3> DEFINE v == SingleLine(u, value)
    <3>1. writeValue[value][w] = v
      BY <2>4, <2>5, <2>13
    <3>2. Measurable(value) /\ u.childValues_ = Elements(value, FastValue)
      BY <2>3, <2>13 DEF OneLine, Measurable, MeasuredTexts
    <3>3. Wrote(u, v, fast, <<>>) /\ ~Hides(v)
      BY <2>6, <3>2, SingleLineWrote DEF fast
    <3> HIDE DEF v
    <3>4. Wrote(w, v, fast, <<>>)
      BY <2>7, <2>11, <3>3, WroteNothing
    <3>5. InsideOf(value) = <<>>
      BY <2>13 DEF InsideOf, Inside
    <3>6. QED
      BY <3>1, <3>3, <3>4, <3>5
  <2>14. QED
    BY <2>12, <2>13
<1> HIDE DEF fast
<1>3. QED
  BY <1>1, <1>2 DEF WritesValue

LEMMA ObjectCase ==
  ASSUME NEW value \in Value, value.type = "object", size(value) > 0,
         \A k \in 1 .. size(value) : WritesValue(value.kids[k])
  PROVE  WritesValue(value)
<1> DEFINE go == Elements(value, writeValue)
           items == ItemsOf(value)
           fast == <<"{">> \o items \o <<"}">>
<1>1. FastValue[value] = fast
  BY FastUnfolds DEF FastText, ItemsOf
<1>2. ASSUME NEW w \in Writer, Writing(w), ~Hides(w)
      PROVE  /\ Wrote(w, writeValue[value][w], fast, InsideOf(value))
             /\ ~Hides(writeValue[value][w])
  <2>1. writeValue[value][w] = writeObjectValue(w, value, go)
    <3>1. writeValue[value] = WriteBody(value, go)
      BY WriteUnfolds
    <3> HIDE DEF go
    <3>2. QED
      BY <3>1 DEF WriteBody
  <2>2. writeObjectValue(w, value, go) = Bracketed(w, value, FALSE, go, "{", "}")
    <3>1. size(value) # 0
      BY ValueFacts
    <3>2. QED
      BY <3>1 DEF writeObjectValue
  <2>3. TextsLeft(w, value, FALSE) /\ "{" \in Plain /\ "}" \in Plain
    BY TokenFacts DEF TextsLeft
  <2> DEFINE v == Bracketed(w, value, FALSE, go, "{", "}")
  <2>4. Wrote(w, v, fast, Joined(Elements(value, CommentsOf))) /\ ~Hides(v)
    BY <1>2, <2>3, BracketedWrote
  <2>5. InsideOf(value) = Joined(Elements(value, CommentsOf))
    BY DEF InsideOf, Inside, OneLine
  <2> HIDE DEF v, fast
  <2>6. QED
    BY <2>1, <2>2, <2>4, <2>5 DEF v
<1> HIDE DEF fast
<1>3. QED
  BY <1>1, <1>2 DEF WritesValue

\* Whatever the value.
LEMMA EveryValueIsWritten == \A value \in Value : WritesValue(value)
<1> DEFINE T == {value \in Value : WritesValue(value)}
<1>1. ASSUME NEW value \in Value, \A k \in 1 .. size(value) : value.kids[k] \in T
      PROVE  value \in T
  <2>1. \A k \in 1 .. size(value) : WritesValue(value.kids[k])
    BY <1>1
  <2>2. CASE ~isCompound(value)
    BY <2>2, PlainCase
  <2>3. CASE isCompound(value)
    <3>1. value.type \in {"array", "object"} /\ size(value) > 0
      BY <2>3 DEF isCompound
    <3>2. QED
      BY <2>1, <3>1, ArrayCase, ObjectCase
  <2>4. QED
    BY <2>2, <2>3
<1> HIDE DEF T
<1>2. Value \subseteq T
  BY <1>1, ValueInduction
<1>3. QED
  BY <1>2 DEF T

-----------------------------------------------------------------------------
(* What is written does not depend on the list of child values that the    *)
(* writer comes with.                                                      *)

Alike(w, u) ==
  /\ w \in Writer /\ u \in Writer
  /\ w.isStream = u.isStream /\ w.document_ = u.document_
  /\ w.addChildValues_ = u.addChildValues_ /\ w.indentString_ = u.indentString_

WritesAlike(value) ==
  \A w, u \in Writer : Alike(w, u) /\ Writing(w) /\ ~Hides(w) =>
    Alike(writeValue[value][w], writeValue[value][u])

LEMMA PutAlike ==
  ASSUME NEW w, NEW u, NEW tokens \in Document, Alike(w, u)
  PROVE  Alike(Put(w, tokens), Put(u, tokens))
<1>1. w \in Writer /\ u \in Writer
  BY DEF Alike
<1>2. /\ Put(w, tokens) \in Writer /\ Put(u, tokens) \in Writer
      /\ Put(w, tokens).isStream = w.isStream /\ Put(u, tokens).isStream = u.isStream
      /\ Put(w, tokens).document_ = w.document_ \o tokens
      /\ Put(u, tokens).document_ = u.document_ \o tokens
      /\ Put(w, tokens).addChildValues_ = w.addChildValues_
      /\ Put(u, tokens).addChildValues_ = u.addChildValues_
      /\ Put(w, tokens).indentString_ = w.indentString_
      /\ Put(u, tokens).indentString_ = u.indentString_
  BY <1>1, PutFacts
<1>3. QED
  BY <1>2 DEF Alike

LEMMA IndentAlike ==
  ASSUME NEW w, NEW u, Alike(w, u)
  PROVE  Alike(writeIndent(w), writeIndent(u))
<1>1. w \in Writer /\ u \in Writer
  BY DEF Alike
<1>2. /\ IndentTokens(w) \in Document
      /\ writeIndent(w) = Put(w, IndentTokens(w)) /\ writeIndent(u) = Put(u, IndentTokens(u))
  BY <1>1, WriteIndentPuts
<1>3. IndentTokens(w) = IndentTokens(u)
  <2>1. Indent(w) = Indent(u)
    BY DEF Indent, Alike
  <2>2. QED
    BY <2>1 DEF IndentTokens, Alike
<1>4. QED
  BY <1>2, <1>3, PutAlike

LEMMA WithIndentAlike ==
  ASSUME NEW w, NEW u, NEW tokens \in Document, Alike(w, u)
  PROVE  Alike(writeWithIndent(w, tokens), writeWithIndent(u, tokens))
BY IndentAlike, PutAlike DEF writeWithIndent

LEMMA CommentsAlike ==
  ASSUME NEW w, NEW u, NEW value \in Value, Alike(w, u)
  PROVE  /\ Alike(writeCommentBeforeValue(w, value), writeCommentBeforeValue(u, value))
         /\ Alike(writeCommentAfterValueOnSameLine(w, value),
                  writeCommentAfterValueOnSameLine(u, value))
<1>1. w \in Writer /\ u \in Writer
  BY DEF Alike
<1>2. /\ writeCommentBeforeValue(w, value) = Put(w, BeforeTokens(value))
      /\ writeCommentBeforeValue(u, value) = Put(u, BeforeTokens(value))
      /\ writeCommentAfterValueOnSameLine(w, value) = Put(w, AfterTokens(value))
      /\ writeCommentAfterValueOnSameLine(u, value) = Put(u, AfterTokens(value))
  BY <1>1, WriteCommentsPut
<1>3. QED
  BY <1>2, CommentTokens, PutAlike

LEMMA IndentingAlike ==
  ASSUME NEW w, NEW u, Alike(w, u)
  PROVE  Alike(indent(w), indent(u)) /\ Alike(unindent(w), unindent(u))
<1>1. w \in Writer /\ u \in Writer
  BY DEF Alike
<1>2. /\ indent(w) \in Writer /\ indent(u) \in Writer
      /\ unindent(w) \in Writer /\ unindent(u) \in Writer
  BY <1>1, IndentingFacts
<1>3. Alike(indent(w), indent(u))
  BY <1>1, <1>2, IndentingMembers DEF Alike
<1>4. Alike(unindent(w), unindent(u))
  BY <1>1, <1>2, IndentingMembers DEF Alike
<1>5. QED
  BY <1>3, <1>4

LEMMA HoldsAlike ==
  ASSUME NEW w, NEW u, NEW p \in BOOLEAN, NEW q \in BOOLEAN, Alike(w, u)
  PROVE  Alike([w EXCEPT !.holds = p], [u EXCEPT !.holds = q])
<1> DEFINE x == [w EXCEPT !.holds = p]
           y == [u EXCEPT !.holds = q]
<1>1. w \in Writer /\ u \in Writer
  BY DEF Alike
<1>2. x \in Writer /\ x.isStream = w.isStream /\ x.document_ = w.document_
      /\ x.addChildValues_ = w.addChildValues_ /\ x.indentString_ = w.indentString_
  BY <1>1 DEF Writer
<1>3. y \in Writer /\ y.isStream = u.isStream /\ y.document_ = u.document_
      /\ y.addChildValues_ = u.addChildValues_ /\ y.indentString_ = u.indentString_
  BY <1>1 DEF Writer
<1> HIDE DEF x, y
<1>4. Alike(x, y)
  BY <1>2, <1>3 DEF Alike
<1>5. QED
  BY <1>4 DEF x, y

LEMMA AlikeWriting ==
  ASSUME NEW w, NEW u, Alike(w, u)
  PROVE  /\ Writing(w) => Writing(u)
         /\ Lets(w) => Lets(u)
         /\ Hides(w) <=> Hides(u)
BY SameHiding DEF Alike, Writing

LEMMA ItemAlike ==
  ASSUME NEW w, NEW u, NEW value \in Value, NEW index \in 1 .. size(value), NEW has \in BOOLEAN,
         Alike(w, u), Writing(w), Lets(w),
         TextsLeft(w, value, has), TextsLeft(u, value, has),
         WritesAlike(value.kids[index])
  PROVE  Alike(Item(w, value, index, has, Elements(value, writeValue)),
               Item(u, value, index, has, Elements(value, writeValue)))
<1> DEFINE kid == value.kids[index]
           go == Elements(value, writeValue)
<1>1. go[index] = writeValue[kid] /\ kid \in Value /\ size(value) \in Nat
      /\ FastValue[kid] \in Document
  BY ValueFacts, KidTexts
<1>2. w \in Writer /\ u \in Writer
  BY DEF Alike
<1>3. CASE value.type = "object"
  <2> DEFINE x == writeWithIndent(w, <<Name(index), " ", ":", " ">>)
             y == writeWithIndent(u, <<Name(index), " ", ":", " ">>)
  <2>1. Item(w, value, index, has, go) = writeValue[kid][x]
        /\ Item(u, value, index, has, go) = writeValue[kid][y]
    BY <1>1, <1>3 DEF Item
  <2>2. Alike(x, y)
    BY Texts, WithIndentAlike
  <2>3. Wrote(w, x, <<Name(index), ":">>, <<>>) /\ ~Hides(x)
    BY <1>2, NameWrote
  <2> HIDE DEF x, y
  <2>4. Writing(x)
    BY <2>3, WroteWriting
  <2>5. Alike(writeValue[kid][x], writeValue[kid][y])
    BY <2>2, <2>3, <2>4 DEF WritesAlike, Alike
  <2>6. QED
    BY <2>1, <2>5
<1>4. CASE value.type # "object" /\ has
  <2> DEFINE t == FastValue[kid]
             x == writeWithIndent(w, childValue(w, index))
             y == writeWithIndent(u, childValue(u, index))
             p == x.holds /\ index <= Len(w.childValues_)
             q == y.holds /\ index <= Len(u.childValues_)
  <2>1. w.childValues_ = Elements(value, FastValue) /\ u.childValues_ = Elements(value, FastValue)
    BY <1>4 DEF TextsLeft
  <2>2. /\ Len(w.childValues_) = size(value) /\ w.childValues_[index] = t
        /\ Len(u.childValues_) = size(value) /\ u.childValues_[index] = t
    BY <1>1, <2>1 DEF Elements
  <2>3. childValue(w, index) = t /\ childValue(u, index) = t
    BY <1>1, <2>2 DEF childValue
  <2>4. Alike(x, y)
    BY <1>1, <2>3, WithIndentAlike
  <2>5. /\ Item(w, value, index, has, go) = [x EXCEPT !.holds = p]
        /\ Item(u, value, index, has, go) = [y EXCEPT !.holds = q]
    BY <1>4 DEF Item
  <2>6. p \in BOOLEAN /\ q \in BOOLEAN
    OBVIOUS
  <2> HIDE DEF x, y, p, q
  <2>7. Alike([x EXCEPT !.holds = p], [y EXCEPT !.holds = q])
    BY <2>4, <2>6, HoldsAlike
  <2>8. QED
    BY <2>5, <2>7
<1>5. CASE value.type # "object" /\ ~has
  <2> DEFINE x == writeIndent(w)
             y == writeIndent(u)
  <2>1. Item(w, value, index, has, go) = writeValue[kid][x]
        /\ Item(u, value, index, has, go) = writeValue[kid][y]
    BY <1>1, <1>5 DEF Item
  <2>2. Alike(x, y)
    BY IndentAlike
  <2>3. Wrote(w, x, <<>>, <<>>) /\ ~Hides(x)
    BY <1>2, IndentWrote
  <2> HIDE DEF x, y
  <2>4. Writing(x)
    BY <2>3, WroteWriting
  <2>5. Alike(writeValue[kid][x], writeValue[kid][y])
    BY <2>2, <2>3, <2>4 DEF WritesAlike, Alike
  <2>6. QED
    BY <2>1, <2>5
<1>6. QED
  BY <1>3, <1>4, <1>5

LEMMA LineAlike ==
  ASSUME NEW w, NEW u, NEW value \in Value, NEW index \in 1 .. size(value), NEW has \in BOOLEAN,
         Alike(w, u), Writing(w), Lets(w),
         TextsLeft(w, value, has), TextsLeft(u, value, has),
         WritesAlike(value.kids[index])
  PROVE  Alike(Line(w, value, index, has, Elements(value, writeValue)),
               Line(u, value, index, has, Elements(value, writeValue)))
<1> DEFINE kid == value.kids[index]
           go == Elements(value, writeValue)
           before(x) == writeCommentBeforeValue(x, kid)
           written(x) == Item(before(x), value, index, has, go)
           more(x) == IF index = size(value) THEN written(x) ELSE Put(written(x), <<",">>)
           line(x) == writeCommentAfterValueOnSameLine(more(x), kid)
<1>1. kid \in Value /\ w \in Writer /\ u \in Writer
  BY ValueFacts DEF Alike
<1>2. Alike(before(w), before(u))
  BY <1>1, CommentsAlike
<1>3. /\ Wrote(w, before(w), <<>>, Given(kid.before)) /\ Lets(before(w))
      /\ before(w).childValues_ = w.childValues_
  BY <1>1, BeforeWrote
<1>4. before(u).childValues_ = u.childValues_
  <2>1. Lets(u)
    BY AlikeWriting
  <2>2. QED
    BY <1>1, <2>1, BeforeWrote
<1>5. Writing(before(w)) /\ TextsLeft(before(w), value, has) /\ TextsLeft(before(u), value, has)
  BY <1>3, <1>4, WroteWriting DEF TextsLeft
<1>6. Alike(written(w), written(u))
  <2> HIDE DEF before
  <2>1. QED
    BY <1>2, <1>3, <1>5, ItemAlike
<1> HIDE DEF written
<1>7. Alike(more(w), more(u))
  BY <1>6, Texts, PutAlike
<1> HIDE DEF more
<1>8. Alike(line(w), line(u))
  BY <1>1, <1>7, CommentsAlike
<1>9. QED
  BY <1>8 DEF Line, more, written

LEMMA LinesAlike ==
  ASSUME NEW w, NEW u, NEW value \in Value, NEW has \in BOOLEAN,
         Alike(w, u), Writing(w), Lets(w),
         TextsLeft(w, value, has), TextsLeft(u, value, has),
         \A k \in 1 .. size(value) : WritesAlike(value.kids[k])
  PROVE  Alike(Lines(w, value, has, Elements(value, writeValue)),
               Lines(u, value, has, Elements(value, writeValue)))
<1> DEFINE n == size(value)
           go == Elements(value, writeValue)
<1>1. n \in Nat /\ AreWriters(go, n) /\ w \in Writer /\ u \in Writer
  BY ValueFacts, WriteUnfolds DEF Alike
<1>2. PICK f \in [0 .. n -> Writer] :
        /\ f[0] = w
        /\ \A k \in 1 .. n : f[k] = Line(f[k - 1], value, k, has, go)
        /\ Lines(w, value, has, go) = f[n]
  BY <1>1, LineSteps
<1>3. PICK g \in [0 .. n -> Writer] :
        /\ g[0] = u
        /\ \A k \in 1 .. n : g[k] = Line(g[k - 1], value, k, has, go)
        /\ Lines(u, value, has, go) = g[n]
  BY <1>1, LineSteps
<1> DEFINE so(k) == /\ Alike(f[k], g[k])
                    /\ Writing(f[k]) /\ Lets(f[k])
                    /\ TextsLeft(f[k], value, has) /\ TextsLeft(g[k], value, has)
           T == {k \in Nat : k <= n => so(k)}
<1>4. so(0)
  BY <1>2, <1>3
<1> HIDE DEF so
<1>5. ASSUME NEW k \in Nat, k < n, so(k)
      PROVE  so(k + 1)
  <2>1. k + 1 \in 1 .. n /\ (k + 1) - 1 = k
    BY <1>1, <1>5
  <2>2. /\ f[k + 1] = Line(f[k], value, k + 1, has, go)
        /\ g[k + 1] = Line(g[k], value, k + 1, has, go)
    BY <1>2, <1>3, <2>1
  <2>3. value.kids[k + 1] \in Value /\ WritesAlike(value.kids[k + 1])
        /\ WritesValue(value.kids[k + 1])
    BY <2>1, ValueFacts, EveryValueIsWritten
  <2>4. /\ Alike(f[k], g[k]) /\ Writing(f[k]) /\ Lets(f[k])
        /\ TextsLeft(f[k], value, has) /\ TextsLeft(g[k], value, has)
    BY <1>5 DEF so
  <2>5. Writing(g[k]) /\ Lets(g[k])
    BY <2>4, AlikeWriting
  <2>6. Alike(f[k + 1], g[k + 1])
    BY <2>1, <2>2, <2>3, <2>4, LineAlike
  <2>7. /\ Wrote(f[k], f[k + 1], LineTokens(value, k + 1), CommentsOf[value.kids[k + 1]])
        /\ Lets(f[k + 1])
        /\ has => f[k + 1].childValues_ = f[k].childValues_
    BY <2>1, <2>2, <2>3, <2>4, LineWrote
  <2>8. /\ Wrote(g[k], g[k + 1], LineTokens(value, k + 1), CommentsOf[value.kids[k + 1]])
        /\ Lets(g[k + 1])
        /\ has => g[k + 1].childValues_ = g[k].childValues_
    BY <2>1, <2>2, <2>3, <2>4, <2>5, LineWrote
  <2>9. Writing(f[k + 1])
    BY <2>4, <2>7, WroteWriting
  <2>10. TextsLeft(f[k + 1], value, has) /\ TextsLeft(g[k + 1], value, has)
    BY <2>4, <2>7, <2>8 DEF TextsLeft
  <2>11. QED
    BY <2>6, <2>7, <2>9, <2>10 DEF so
<1>6. Nat \subseteq T
  <2>1. 0 \in T
    BY <1>4
  <2>2. ASSUME NEW k \in Nat, k \in T PROVE k + 1 \in T
    <3>1. SUFFICES ASSUME k + 1 <= n PROVE so(k + 1)
      OBVIOUS
    <3>2. k < n /\ k <= n
      BY <1>1, <3>1
    <3>3. QED
      BY <1>5, <2>2, <3>2
  <2> HIDE DEF T
  <2>3. QED
    BY <2>1, <2>2, SimpleInduction
<1>7. so(n)
  BY <1>1, <1>6
<1>8. QED
  BY <1>2, <1>3, <1>7 DEF so

LEMMA BracketedAlike ==
  ASSUME NEW w, NEW u, NEW value \in Value, NEW has \in BOOLEAN,
         NEW open \in Plain, NEW close \in Plain,
         Alike(w, u), Writing(w), ~Hides(w),
         TextsLeft(w, value, has), TextsLeft(u, value, has),
         \A k \in 1 .. size(value) : WritesAlike(value.kids[k])
  PROVE  Alike(Bracketed(w, value, has, Elements(value, writeValue), open, close),
               Bracketed(u, value, has, Elements(value, writeValue), open, close))
<1> DEFINE go == Elements(value, writeValue)
           a(x) == writeWithIndent(x, <<open>>)
           b(x) == indent(a(x))
           c(x) == Lines(b(x), value, has, go)
           d(x) == unindent(c(x))
           e(x) == writeWithIndent(d(x), <<close>>)
<1>1. /\ w \in Writer /\ u \in Writer /\ <<open>> \in Seq(Plain)
      /\ <<open>> \in Document /\ <<close>> \in Document
  <2>1. open \in Token /\ close \in Token
    BY DEF Plain
  <2>2. QED
    BY <2>1, PlainTexts, Tuples DEF Alike
<1>2. /\ Wrote(w, a(w), <<open>>, <<>>) /\ ~Hides(a(w))
      /\ a(w).childValues_ = w.childValues_
  BY <1>1, WriterHidesNothing, WithIndentWrote
<1>3. a(u).childValues_ = u.childValues_
  <2>1. ~Hides(u)
    BY AlikeWriting
  <2>2. QED
    BY <1>1, <2>1, WriterHidesNothing, WithIndentWrote
<1>4. Alike(a(w), a(u))
  BY <1>1, WithIndentAlike
<1>5. Writing(a(w)) /\ a(w) \in Writer /\ a(u) \in Writer
      /\ a(w).indentString_ \in Int /\ a(w).indentString_ >= 0
  BY <1>2, <1>4, WroteWriting, WriterFacts DEF Alike, Writing
<1> HIDE DEF a
<1>6. Alike(b(w), b(u))
  BY <1>4, IndentingAlike
<1>7. /\ b(w) \in Writer
      /\ b(w).document_ = a(w).document_ /\ b(w).childValues_ = a(w).childValues_
      /\ b(w).isStream = a(w).isStream /\ b(w).addChildValues_ = a(w).addChildValues_
      /\ b(w).indentString_ = a(w).indentString_ + 1
      /\ b(u).childValues_ = a(u).childValues_
  BY <1>5, IndentingFacts, IndentingMembers
<1> HIDE DEF b
<1>8. /\ Writing(b(w)) /\ Lets(b(w))
      /\ TextsLeft(b(w), value, has) /\ TextsLeft(b(u), value, has)
  <2>1. Lets(b(w))
    BY <1>2, <1>7, SameHiding, WriterHidesNothing
  <2>2. QED
    BY <1>2, <1>3, <1>5, <1>7, <2>1 DEF Writing, TextsLeft
<1>9. Alike(c(w), c(u))
  BY <1>6, <1>8, LinesAlike
<1> HIDE DEF c
<1>10. Alike(d(w), d(u))
  BY <1>9, IndentingAlike
<1> HIDE DEF d
<1>11. Alike(e(w), e(u))
  BY <1>1, <1>10, WithIndentAlike
<1>12. QED
  BY <1>11 DEF Bracketed, a, b, c, d

LEMMA SingleLineAlike ==
  ASSUME NEW w, NEW u, NEW value \in Value, Alike(w, u),
         w.childValues_ = u.childValues_
  PROVE  Alike(SingleLine(w, value), SingleLine(u, value))
<1> DEFINE shown == <<"[", " ">> \o Joined(SingleItems(w, value)) \o <<" ", "]">>
           p == Put(w, shown).holds /\ Len(w.childValues_) = size(value)
           q == Put(u, shown).holds /\ Len(u.childValues_) = size(value)
<1>1. w \in Writer /\ u \in Writer
  BY DEF Alike
<1>2. SingleItems(u, value) = SingleItems(w, value)
  BY DEF SingleItems, childValue
<1>3. shown \in Document
  BY <1>1, SingleLineIsWriter
<1>4. SingleLine(w, value) = [Put(w, shown) EXCEPT !.holds = p]
  BY DEF SingleLine, SingleItems
<1>5. SingleLine(u, value) = [Put(u, shown) EXCEPT !.holds = q]
  <2> DEFINE other == <<"[", " ">> \o Joined(SingleItems(u, value)) \o <<" ", "]">>
  <2>1. SingleLine(u, value) =
          [Put(u, other) EXCEPT !.holds = Put(u, other).holds /\ Len(u.childValues_) = size(value)]
    BY DEF SingleLine, SingleItems
  <2>2. other = shown
    BY <1>2
  <2> HIDE DEF other, shown
  <2>3. QED
    BY <2>1, <2>2
<1>6. p \in BOOLEAN /\ q \in BOOLEAN
  OBVIOUS
<1> HIDE DEF shown, p, q
<1>7. Alike(Put(w, shown), Put(u, shown))
  BY <1>3, PutAlike
<1>8. QED
  BY <1>4, <1>5, <1>6, <1>7, HoldsAlike

LEMMA PlainAlike ==
  ASSUME NEW value \in Value, ~isCompound(value)
  PROVE  WritesAlike(value)
<1> DEFINE s == FastValue[value]
<1>1. s \in Document /\ \A w \in Writer : writeValue[value][w] = pushValue(w, s)
  BY NotCompound
<1> HIDE DEF s
<1>2. ASSUME NEW w \in Writer, NEW u \in Writer, Alike(w, u), Writing(w)
      PROVE  Alike(writeValue[value][w], writeValue[value][u])
  <2>1. ~w.addChildValues_ /\ ~u.addChildValues_
    BY <1>2 DEF Alike, Writing
  <2>2. writeValue[value][w] = Put(w, s) /\ writeValue[value][u] = Put(u, s)
    BY <1>1, <2>1 DEF pushValue
  <2>3. QED
    BY <1>1, <1>2, <2>2, PutAlike
<1>3. QED
  BY <1>2 DEF WritesAlike

LEMMA ArrayAlike ==
  ASSUME NEW value \in Value, value.type = "array", size(value) > 0,
         \A k \in 1 .. size(value) : WritesAlike(value.kids[k])
  PROVE  WritesAlike(value)
<1> DEFINE go == Elements(value, writeValue)
           measured(x) == [x EXCEPT !.childValues_ = MeasuredTexts(value)]
           has == MeasuredTexts(value) # <<>>
<1>1. MeasuredTexts(value) \in Seq(Document)
  BY KidTexts, ValueFacts DEF MeasuredTexts
<1>2. ASSUME NEW x \in Writer, ~x.addChildValues_
      PROVE  writeValue[value][x] =
               IF ~OneLine(value) THEN Bracketed(measured(x), value, has, go, "[", "]")
               ELSE SingleLine(measured(x), value)
  <2> DEFINE i == isMultineArray(x, value, go)
             m == measured(x)
  <2>1. writeValue[value][x] = writeArrayValue(x, value, go)
    <3>1. writeValue[value] = WriteBody(value, go)
      BY WriteUnfolds
    <3> HIDE DEF go
    <3>2. QED
      BY <3>1 DEF WriteBody
  <2>2. i.writer = m /\ (i.multi <=> ~OneLine(value))
    BY <1>2, MeasuredArray
  <2>3. writeArrayValue(x, value, go) =
          IF i.multi
          THEN Bracketed(i.writer, value, i.writer.childValues_ # <<>>, go, "[", "]")
          ELSE SingleLine(i.writer, value)
    <3>1. size(value) # 0
      BY ValueFacts
    <3>2. QED
      BY <3>1 DEF writeArrayValue
  <2>4. m.childValues_ = MeasuredTexts(value)
    BY DEF Writer
  <2>5. (m.childValues_ # <<>>) = has
    BY <2>4
  <2> HIDE DEF i, go, m, has
  <2>6. QED
    BY <2>1, <2>2, <2>3, <2>5 DEF m
<1>3. ASSUME NEW x \in Writer
      PROVE  /\ measured(x) \in Writer /\ measured(x).isStream = x.isStream
             /\ measured(x).document_ = x.document_
             /\ measured(x).addChildValues_ = x.addChildValues_
             /\ measured(x).indentString_ = x.indentString_
             /\ measured(x).childValues_ = MeasuredTexts(value)
  BY <1>1 DEF Writer
<1>4. has => Measurable(value) /\ MeasuredTexts(value) = Elements(value, FastValue)
  BY DEF MeasuredTexts
<1>5. OneLine(value) => Measurable(value)
  BY DEF OneLine, Measurable
<1> HIDE DEF measured, has
<1>6. ASSUME NEW w \in Writer, NEW u \in Writer, Alike(w, u), Writing(w), ~Hides(w)
      PROVE  Alike(writeValue[value][w], writeValue[value][u])
  <2> DEFINE x == measured(w)
             y == measured(u)
  <2>1. Alike(x, y) /\ x.childValues_ = y.childValues_
    BY <1>3, <1>6 DEF Alike
  <2>2. Writing(x) /\ ~Hides(x)
    BY <1>3, <1>6, SameHiding DEF Writing
  <2>3. TextsLeft(x, value, has) /\ TextsLeft(y, value, has)
    BY <1>3, <1>4 DEF TextsLeft
  <2>4. ~w.addChildValues_ /\ ~u.addChildValues_
    BY <1>6 DEF Writing, Alike
  <2>5. CASE ~OneLine(value)
    <3>1. has \in BOOLEAN
      BY DEF has
    <3>2. "[" \in Plain /\ "]" \in Plain
      BY TokenFacts
    <3> HIDE DEF x, y
    <3>3. Alike(Bracketed(x, value, has, go, "[", "]"), Bracketed(y, value, has, go, "[", "]"))
      BY <2>1, <2>2, <2>3, <3>1, <3>2, BracketedAlike
    <3>4. QED
      BY <1>2, <2>4, <2>5, <3>3 DEF x, y
  <2>6. CASE OneLine(value)
    <3>1. Alike(SingleLine(x, value), SingleLine(y, value))
      BY <2>1, SingleLineAlike
    <3>2. QED
      BY <1>2, <2>4, <2>6, <3>1
  <2>7. QED
    BY <2>5, <2>6
<1>7. QED
  BY <1>6 DEF WritesAlike

LEMMA ObjectAlike ==
  ASSUME NEW value \in Value, value.type = "object", size(value) > 0,
         \A k \in 1 .. size(value) : WritesAlike(value.kids[k])
  PROVE  WritesAlike(value)
<1> DEFINE go == Elements(value, writeValue)
<1>1. ASSUME NEW x \in Writer
      PROVE  writeValue[value][x] = Bracketed(x, value, FALSE, go, "{", "}")
  <2>1. writeValue[value][x] = writeObjectValue(x, value, go)
    <3>1. writeValue[value] = WriteBody(value, go)
      BY WriteUnfolds
    <3> HIDE DEF go
    <3>2. QED
      BY <3>1 DEF WriteBody
  <2>2. size(value) # 0
    BY ValueFacts
  <2>3. QED
    BY <2>1, <2>2 DEF writeObjectValue
<1>2. ASSUME NEW w \in Writer, NEW u \in Writer, Alike(w, u), Writing(w), ~Hides(w)
      PROVE  Alike(writeValue[value][w], writeValue[value][u])
  <2>1. TextsLeft(w, value, FALSE) /\ TextsLeft(u, value, FALSE)
        /\ "{" \in Plain /\ "}" \in Plain
    BY TokenFacts DEF TextsLeft
  <2>2. Alike(Bracketed(w, value, FALSE, go, "{", "}"), Bracketed(u, value, FALSE, go, "{", "}"))
    BY <1>2, <2>1, BracketedAlike
  <2>3. QED
    BY <1>1, <2>2
<1>3. QED
  BY <1>2 DEF WritesAlike

LEMMA EveryValueIsWrittenAlike == \A value \in Value : WritesAlike(value)
<1> DEFINE T == {value \in Value : WritesAlike(value)}
<1>1. ASSUME NEW value \in Value, \A k \in 1 .. size(value) : value.kids[k] \in T
      PROVE  value \in T
  <2>1. \A k \in 1 .. size(value) : WritesAlike(value.kids[k])
    BY <1>1
  <2>2. CASE ~isCompound(value)
    BY <2>2, PlainAlike
  <2>3. CASE isCompound(value)
    <3>1. value.type \in {"array", "object"} /\ size(value) > 0
      BY <2>3 DEF isCompound
    <3>2. QED
      BY <2>1, <3>1, ArrayAlike, ObjectAlike
  <2>4. QED
    BY <2>2, <2>3
<1> HIDE DEF T
<1>2. Value \subseteq T
  BY <1>1, ValueInduction
<1>3. QED
  BY <1>2 DEF T

-----------------------------------------------------------------------------
(* A write, and the invariants of a writer that is used again. *)

Started(w) ==
  [w EXCEPT !.document_ = <<>>, !.addChildValues_ = FALSE, !.indentString_ = 0]

LEMMA StartedFacts ==
  ASSUME NEW w \in Writer
  PROVE  /\ Started(w) \in Writer /\ Writing(Started(w)) /\ ~Hides(Started(w))
         /\ Started(w).document_ = <<>> /\ Started(w).isStream = w.isStream
         /\ Started(w).indentString_ = 0 /\ Started(w).holds = w.holds
         /\ ~Started(w).addChildValues_
<1>1. <<>> \in Document
  BY Texts
<1>2. /\ Started(w).document_ = <<>> /\ Started(w).isStream = w.isStream
      /\ Started(w).indentString_ = 0 /\ Started(w).holds = w.holds
      /\ ~Started(w).addChildValues_
  BY DEF Started, Writer
<1>3. Started(w) \in Writer
  <2> DEFINE x == <<>>
  <2>1. x \in Document /\ FALSE \in BOOLEAN /\ 0 \in Int
    BY <1>1
  <2>2. Started(w) = [w EXCEPT !.document_ = x, !.addChildValues_ = FALSE, !.indentString_ = 0]
    BY DEF Started
  <2> HIDE DEF x
  <2>3. QED
    BY <2>1, <2>2 DEF Writer
<1>4. ~Hides(Started(w))
  <2> DEFINE hiding == HidingOf(Started(w))
  <2>1. hiding \in SUBSET LineComment
    BY <1>3, HidingFacts
  <2> HIDE DEF hiding
  <2>2. Reading(<<>>, hiding) = [tokens |-> <<>>, comments |-> <<>>, hidden |-> FALSE]
    BY <2>1, ReadingNothing
  <2>3. ~Hidden(hiding, <<>>)
    BY <2>2 DEF Hidden
  <2>4. QED
    BY <1>2, <2>3 DEF Hides, hiding
<1>5. QED
  BY <1>2, <1>3, <1>4 DEF Writing

LEMMA WriteWrote ==
  ASSUME NEW w \in Writer, NEW value \in Value
  PROVE  LET u == write(w, value)
         IN  /\ u \in Writer /\ u.isStream = w.isStream
             /\ ~u.addChildValues_ /\ u.indentString_ = 0 /\ u.holds = w.holds
             /\ Reading(u.document_, Hiding(u.isStream)).tokens = FastValue[value]
             /\ Reading(u.document_, Hiding(u.isStream)).comments = CommentsOf[value]
<1> DEFINE hiding == Hiding(w.isStream)
           a == Started(w)
           b == writeCommentBeforeValue(a, value)
           c == writeValue[value][b]
           d == writeCommentAfterValueOnSameLine(c, value)
           e == Put(d, <<"\n">>)
           fast == FastValue[value]
           p == Given(value.before)
           q == InsideOf(value)
           r == Given(value.same)
           s == Given(value.after)
<1>1. write(w, value) = e
  BY DEF write, Started
<1>2. /\ a \in Writer /\ Writing(a) /\ ~Hides(a) /\ a.document_ = <<>>
      /\ a.isStream = w.isStream /\ a.indentString_ = 0 /\ a.holds = w.holds
      /\ ~a.addChildValues_ /\ hiding = HidingOf(a)
  BY StartedFacts DEF HidingOf
<1>3. /\ fast \in Document /\ p \in Document /\ q \in Document /\ r \in Document
      /\ s \in Document /\ <<>> \in Document
      /\ CommentsOf[value] = ((p \o q) \o r) \o s
  BY ValueFacts, KidTexts, GivenIsDocument, InsideOfIsDocument, CommentsUnfold, Texts
     DEF CommentsText, InsideOf
<1> HIDE DEF a, hiding
<1>4. Wrote(a, b, <<>>, p) /\ ~Hides(b)
  BY <1>2, WriterHidesNothing, BeforeWrote
<1>5. Writing(b) /\ b \in Writer
  BY <1>2, <1>4, WroteWriting DEF Wrote
<1> HIDE DEF b
<1>6. Wrote(b, c, fast, q) /\ ~Hides(c)
  BY <1>4, <1>5, EveryValueIsWritten DEF WritesValue
<1>7. c \in Writer
  BY <1>6 DEF Wrote
<1> HIDE DEF c
<1>8. Wrote(c, d, <<>>, r \o s)
  BY <1>6, <1>7, AfterWrote
<1>9. d \in Writer /\ d.document_ \in Document
  BY <1>8, WriterFacts DEF Wrote
<1> HIDE DEF d
<1>10. Wrote(d, e, <<>>, <<>>)
  <2>1. "\n" \in Blank /\ <<"\n">> \in Document
    BY Texts DEF Blank
  <2>2. Adds(HidingOf(d), d.document_, d.document_ \o <<"\n">>, <<>>, <<>>)
    BY <1>9, <2>1, BlankAdds, HidingFacts
  <2>3. QED
    BY <1>9, <2>1, <2>2, PutWrote
<1> HIDE DEF e, fast, p, q, r, s
<1>11. p \o q \in Document /\ r \o s \in Document
  BY <1>3, ConcatProperties DEF Document
<1>12. <<>> \o fast = fast /\ fast \o <<>> = fast
  BY <1>3, ConcatEmptySeq DEF Document
<1>13. Wrote(a, c, fast, p \o q)
  <2>1. Wrote(a, c, <<>> \o fast, p \o q)
    BY <1>2, <1>3, <1>4, <1>6, WroteMore
  <2>2. QED
    BY <1>12, <2>1
<1> DEFINE all == (p \o q) \o (r \o s)
<1>14. Wrote(a, d, fast, all)
  <2>1. Wrote(a, d, fast \o <<>>, all)
    BY <1>2, <1>3, <1>8, <1>11, <1>13, WroteMore
  <2> HIDE DEF all
  <2>2. QED
    BY <1>12, <2>1
<1>15. all \in Document
  <2> DEFINE x == p \o q
             y == r \o s
  <2> HIDE DEF x, y
  <2>1. x \o y \in Document
    BY <1>11, ConcatProperties DEF Document, x, y
  <2>2. QED
    BY <2>1 DEF x, y
<1>16. all = CommentsOf[value]
  <2> DEFINE x == p \o q
  <2> HIDE DEF x
  <2>1. x \in Document
    BY <1>11 DEF x
  <2>2. Grouped(x, r, s)
    BY <1>3, <2>1, DocumentsAssociate
  <2>3. QED
    BY <1>3, <2>2 DEF Grouped, x
<1> HIDE DEF all
<1>17. Wrote(a, e, fast, all)
  BY <1>2, <1>3, <1>10, <1>14, <1>15, WroteNothing
<1>18. /\ Reading(e.document_, hiding).tokens = <<>> \o fast
       /\ Reading(e.document_, hiding).comments = <<>> \o all
  <2>1. Adds(hiding, a.document_, e.document_, fast, all)
    BY <1>2, <1>17 DEF Wrote
  <2>2. Adds(hiding, <<>>, e.document_, fast, all)
    BY <1>2, <2>1
  <2>3. Reading(<<>>, hiding).tokens = <<>> /\ Reading(<<>>, hiding).comments = <<>>
    <3>1. hiding \in SUBSET LineComment
      BY <1>2, HidingFacts
    <3>2. Reading(<<>>, hiding) = [tokens |-> <<>>, comments |-> <<>>, hidden |-> FALSE]
      BY <3>1, ReadingNothing
    <3>3. QED
      BY <3>2
  <2>4. QED
    BY <2>2, <2>3 DEF Adds
<1>19. <<>> \o all = all
  BY <1>15, ConcatEmptySeq DEF Document
<1>20. /\ e \in Writer /\ e.isStream = w.isStream /\ ~e.addChildValues_
       /\ e.indentString_ = 0 /\ e.holds = w.holds
  BY <1>2, <1>17 DEF Wrote
<1>21. QED
  BY <1>1, <1>12, <1>16, <1>18, <1>19, <1>20 DEF fast, hiding

LEMMA WriteAlike ==
  ASSUME NEW w \in Writer, NEW u \in Writer, NEW value \in Value, w.isStream = u.isStream
  PROVE  write(w, value).document_ = write(u, value).document_
<1> DEFINE b(x) == writeCommentBeforeValue(Started(x), value)
           c(x) == writeValue[value][b(x)]
           d(x) == writeCommentAfterValueOnSameLine(c(x), value)
           e(x) == Put(d(x), <<"\n">>)
<1>1. write(w, value) = e(w) /\ write(u, value) = e(u)
  BY DEF write, Started
<1>2. Alike(Started(w), Started(u))
  <2>1. Started(w).addChildValues_ \in BOOLEAN /\ Started(u).addChildValues_ \in BOOLEAN
    BY StartedFacts, WriterFacts
  <2>2. Started(w).addChildValues_ = Started(u).addChildValues_
    BY <2>1, StartedFacts
  <2>3. QED
    BY <2>2, StartedFacts DEF Alike
<1>3. Alike(b(w), b(u))
  BY <1>2, CommentsAlike
<1>4. Writing(b(w)) /\ ~Hides(b(w))
  <2>1. Wrote(Started(w), b(w), <<>>, Given(value.before)) /\ ~Hides(b(w))
    BY StartedFacts, WriterHidesNothing, BeforeWrote
  <2>2. QED
    BY <2>1, StartedFacts, WroteWriting
<1> HIDE DEF b
<1>5. Alike(c(w), c(u))
  BY <1>3, <1>4, EveryValueIsWrittenAlike DEF WritesAlike, Alike
<1> HIDE DEF c
<1>6. Alike(d(w), d(u))
  BY <1>5, CommentsAlike
<1> HIDE DEF d
<1>7. Alike(e(w), e(u))
  BY <1>6, Texts, PutAlike
<1> HIDE DEF e
<1>8. QED
  BY <1>1, <1>7 DEF Alike

WriterInv ==
  /\ writer \in Writer
  /\ writer.holds /\ writer.indentString_ = 0 /\ ~writer.addChildValues_
  /\ writes \in Nat
  /\ writes > 0 =>
       /\ root \in Value
       /\ Reading(writer.document_, Hiding(writer.isStream)).tokens = FastValue[root]
       /\ Reading(writer.document_, Hiding(writer.isStream)).comments = CommentsOf[root]
       /\ writer.document_ = write(StyledWriter(writer.isStream), root).document_

LEMMA NewWriter ==
  ASSUME NEW isStream \in BOOLEAN
  PROVE  /\ StyledWriter(isStream) \in Writer /\ StyledWriter(isStream).isStream = isStream
         /\ StyledWriter(isStream).holds /\ StyledWriter(isStream).indentString_ = 0
         /\ ~StyledWriter(isStream).addChildValues_
<1>1. <<>> \in Document /\ <<>> \in Seq(Document)
  <2>1. <<>> \in Seq(Document)
    OBVIOUS
  <2>2. QED
    BY <2>1, Texts
<1>2. QED
  BY <1>1 DEF StyledWriter, Writer

LEMMA WriterInvHolds == WriterSpec => []WriterInv
<1>1. ASSUME WriterInit PROVE WriterInv
  <2>1. PICK isStream \in BOOLEAN : writer = StyledWriter(isStream)
    BY <1>1 DEF WriterInit
  <2>2. writes = 0
    BY <1>1 DEF WriterInit
  <2>3. QED
    BY <2>1, <2>2, NewWriter DEF WriterInv
<1>2. ASSUME WriterInv, [Write]_writerVars PROVE WriterInv'
  <2>1. CASE Write
    <3>1. /\ root' \in Value /\ writer' = write(writer, root') /\ writes' = writes + 1
          /\ writer \in Writer /\ writer.holds /\ writes \in Nat
      BY <1>2, <2>1, WriterAssumption DEF Write, WriterInv
    <3>2. /\ writer' \in Writer /\ writer'.isStream = writer.isStream
          /\ ~writer'.addChildValues_ /\ writer'.indentString_ = 0
          /\ writer'.holds = writer.holds
          /\ Reading(writer'.document_, Hiding(writer'.isStream)).tokens = FastValue[root']
          /\ Reading(writer'.document_, Hiding(writer'.isStream)).comments = CommentsOf[root']
      BY <3>1, WriteWrote
    <3>3. /\ StyledWriter(writer.isStream) \in Writer
          /\ StyledWriter(writer.isStream).isStream = writer.isStream
      BY <3>1, NewWriter, WriterFacts
    <3>4. write(writer, root').document_ = write(StyledWriter(writer.isStream), root').document_
      BY <3>1, <3>3, WriteAlike
    <3>5. writer'.document_ = write(StyledWriter(writer'.isStream), root').document_
      BY <3>1, <3>2, <3>4
    <3>6. writes' \in Nat
      BY <3>1
    <3>7. QED
      BY <3>1, <3>2, <3>5, <3>6 DEF WriterInv
  <2>2. CASE UNCHANGED writerVars
    BY <1>2, <2>2 DEF WriterInv, writerVars
  <2>3. QED
    BY <1>2, <2>1, <2>2
<1>3. QED
  BY <1>1, <1>2, PTL DEF WriterSpec

(* Whatever the values, their comments and the margin, the document of a   *)
(* styled writer holds the tokens that FastWriter writes, none of them     *)
(* behind a line comment; in StyledWriter's, one that ends in a space may  *)
(* hide what follows it.                                                   *)
THEOREM StyledIsFastCorrect == WriterSpec => []StyledIsFast
<1>1. WriterInv => StyledIsFast
  BY DEF WriterInv, StyledIsFast
<1>2. QED
  BY <1>1, WriterInvHolds, PTL

(* Whatever was written before, the document is that of a new writer, and  *)
(* the assertions and the indexes of childValues_ hold.                    *)
THEOREM NothingLeftOverCorrect == WriterSpec => []NothingLeftOver
<1>1. WriterInv => NothingLeftOver
  BY DEF WriterInv, NothingLeftOver
<1>2. QED
  BY <1>1, WriterInvHolds, PTL

(* Whatever the values and the margin, the comments are in the document in *)
(* the value's order.                                                      *)
THEOREM CommentsInOrderCorrect == WriterSpec => []CommentsInOrder
<1>1. WriterInv => CommentsInOrder
  BY DEF WriterInv, CommentsInOrder
<1>2. QED
  BY <1>1, WriterInvHolds, PTL

===============================================================================
