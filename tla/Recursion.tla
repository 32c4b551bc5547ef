-------------------------------- MODULE Recursion --------------------------------
(* Facts about induction that the proofs share. A recursive function is by its       *)
(* definition some function that satisfies an equation; that there is one, and what   *)
(* it has at each place, takes an induction of its own. The library's theorems        *)
(* about it take operators as parameters; these take sets and functions.              *)
EXTENDS Integers, Sequences, WellFoundedInduction, TLAPS

(* A set of natural numbers that is not empty has a least element.                    *)
LEMMA LeastNatural ==
    ASSUME NEW T, T \subseteq Nat, T # {}
    PROVE  \E k \in T : \A l \in T : ~(l < k)
  <1>1. IsWellFoundedOn(OpToRel(<, Nat), Nat)
    BY NatLessThanWellFounded
  <1>2. PICK k \in T : \A l \in T : ~(<<l, k>> \in OpToRel(<, Nat))
    BY <1>1, WFMin
  <1>3. k \in Nat /\ \A l \in T : l \in Nat
    OBVIOUS
  <1> QED
    BY <1>2, <1>3 DEF OpToRel

(* Induction up to N, for the set of the numbers of which something is true.          *)
LEMMA InductionUpTo ==
    ASSUME NEW N \in Nat, NEW T, 0 \in T,
           \A k \in 0..(N - 1) : k \in T => k + 1 \in T
    PROVE  \A k \in 0..N : k \in T
  <1> DEFINE U == {k \in 0..N : k \notin T}
  <1>1. SUFFICES ASSUME U # {} PROVE FALSE
    OBVIOUS
  <1>2. U \subseteq Nat
    OBVIOUS
  <1>3. PICK k \in U : \A l \in U : ~(l < k)
    <2> HIDE DEF U
    <2> QED
      BY <1>1, <1>2, LeastNatural
  <1>4. k \in 0..N /\ k \notin T /\ k # 0
    OBVIOUS
  <1>5. k - 1 \in 0..(N - 1) /\ k - 1 \in 0..N /\ k - 1 < k /\ (k - 1) + 1 = k
    BY <1>4
  <1>6. k - 1 \in T
    BY <1>3, <1>5
  <1> QED
    BY <1>4, <1>5, <1>6

(* What is in S at the start and stays in S is in S.                                  *)
LEMMA StaysIn ==
    ASSUME NEW N \in Nat, NEW S, NEW f, f[0] \in S,
           \A k \in 1..N : f[k - 1] \in S => f[k] \in S
    PROVE  \A k \in 0..N : f[k] \in S
  <1> DEFINE T == {k \in 0..N : f[k] \in S}
  <1>1. 0 \in T
    OBVIOUS
  <1>2. ASSUME NEW k \in 0..(N - 1), k \in T PROVE k + 1 \in T
    <2>1. k + 1 \in 1..N /\ k + 1 \in 0..N /\ (k + 1) - 1 = k /\ f[k] \in S
      BY <1>2
    <2> QED
      BY <2>1
  <1>3. \A k \in 0..N : k \in T
    <2> HIDE DEF T
    <2> QED
      BY <1>1, <1>2, InductionUpTo
  <1> QED
    BY <1>3

(* f is made step by step on 0..N.                                                    *)
Steps(N, S, first, step, f) ==
    /\ f \in [0..N -> S] /\ f[0] = first
    /\ \A k \in 1..N : f[k] = step[k][f[k - 1]]

(* A function whose value at each place is made, by step, from the one before it.     *)
LEMMA RecursionExists ==
    ASSUME NEW N \in Nat, NEW S, NEW first \in S, NEW step \in [1..N -> [S -> S]]
    PROVE  \E f : Steps(N, S, first, step, f)
  <1> DEFINE Good(n, f) == f[0] = first /\ \A k \in 1..n : f[k] = step[k][f[k - 1]]
             T == {n \in 0..N : \E f \in [0..n -> S] : Good(n, f)}
  <1>1. 0 \in T
    <2>1. [k \in 0..0 |-> first] \in [0..0 -> S] /\ Good(0, [k \in 0..0 |-> first])
      OBVIOUS
    <2>2. 0 \in 0..N
      OBVIOUS
    <2> QED
      BY <2>1, <2>2
  <1>2. ASSUME NEW n \in 0..(N - 1), n \in T PROVE n + 1 \in T
    <2>1. PICK f \in [0..n -> S] : Good(n, f)
      BY <1>2
    <2> DEFINE g == [k \in 0..(n + 1) |-> IF k = n + 1 THEN step[n + 1][f[n]] ELSE f[k]]
    <2>2. n \in Nat /\ n + 1 \in 1..N /\ n + 1 \in 0..N
      OBVIOUS
    <2>3. f[n] \in S /\ step[n + 1][f[n]] \in S
      <3>1. n \in 0..n
        BY <2>2
      <3>2. f[n] \in S /\ step[n + 1] \in [S -> S]
        BY <2>2, <3>1
      <3> QED
        BY <3>1, <3>2
    <2>4. g \in [0..(n + 1) -> S]
      BY <2>2, <2>3
    <2>5. g[0] = first
      BY <2>1, <2>2
    <2>6. ASSUME NEW k \in 1..(n + 1) PROVE g[k] = step[k][g[k - 1]]
      <3>1. CASE k = n + 1
        <4>1. g[k] = step[n + 1][f[n]] /\ k - 1 = n /\ g[n] = f[n]
          BY <2>2, <3>1
        <4> QED
          BY <3>1, <4>1
      <3>2. CASE k # n + 1
        <4>1. k \in 1..n /\ g[k] = f[k] /\ g[k - 1] = f[k - 1]
          BY <2>2, <3>2
        <4> QED
          BY <2>1, <4>1
      <3> QED
        BY <3>1, <3>2
    <2> HIDE DEF g
    <2>7. Good(n + 1, g)
      BY <2>5, <2>6
    <2> QED
      BY <2>2, <2>4, <2>7
  <1>3. \A n \in 0..N : n \in T
    <2> HIDE DEF T
    <2> QED
      BY <1>1, <1>2, InductionUpTo
  <1> QED
    BY <1>3 DEF Steps

(* The same, as a definition of a recursive function has it.                          *)
LEMMA RecursionDefined ==
    ASSUME NEW N \in Nat, NEW S, NEW first \in S, NEW step \in [1..N -> [S -> S]], NEW f,
           f = CHOOSE g : g = [k \in 0..N |-> IF k = 0 THEN first ELSE step[k][g[k - 1]]]
    PROVE  Steps(N, S, first, step, f)
  <1> DEFINE Equation(g) == g = [k \in 0..N |-> IF k = 0 THEN first ELSE step[k][g[k - 1]]]
  <1>1. PICK h : Steps(N, S, first, step, h)
    BY RecursionExists
  <1>2. Equation(h)
    <2>1. \A k \in 0..N : h[k] = IF k = 0 THEN first ELSE step[k][h[k - 1]]
      BY <1>1 DEF Steps
    <2> QED
      BY <1>1, <2>1 DEF Steps
  <1>3. Equation(f)
    <2> HIDE DEF Equation
    <2>1. f = CHOOSE g : Equation(g)
      BY DEF Equation
    <2> QED
      BY <1>2, <2>1
  <1>4. /\ DOMAIN f = 0..N /\ f = [k \in 0..N |-> f[k]]
        /\ f[0] = first /\ \A k \in 1..N : f[k] = step[k][f[k - 1]]
    <2> DEFINE body == [k \in 0..N |-> IF k = 0 THEN first ELSE step[k][f[k - 1]]]
    <2>1. f = body
      BY <1>3
    <2>2. /\ DOMAIN body = 0..N /\ body = [k \in 0..N |-> body[k]]
          /\ body[0] = first /\ \A k \in 1..N : body[k] = step[k][f[k - 1]]
      OBVIOUS
    <2> HIDE DEF body
    <2> QED
      BY <2>1, <2>2
  <1> DEFINE T == {k \in 0..N : f[k] \in S}
  <1>5. 0 \in T
    BY <1>4
  <1>6. ASSUME NEW k \in 0..(N - 1), k \in T PROVE k + 1 \in T
    <2>1. k + 1 \in 1..N /\ (k + 1) - 1 = k /\ f[k] \in S /\ k + 1 \in 0..N
      BY <1>6
    <2>2. step[k + 1] \in [S -> S]
      BY <2>1
    <2>3. f[k + 1] = step[k + 1][f[k]]
      BY <1>4, <2>1
    <2> QED
      BY <2>1, <2>2, <2>3
  <1>7. \A k \in 0..N : f[k] \in S
    <2>1. \A k \in 0..N : k \in T
      <3> HIDE DEF T
      <3> QED
        BY <1>5, <1>6, InductionUpTo
    <2> QED
      BY <2>1
  <1> QED
    BY <1>4, <1>7 DEF Steps

(* How many times a number up to m can be halved before 1 is left: the logarithm to    *)
(* the base 2, rounded down.                                                           *)
Halvings(m) ==
    LET halvings[q \in 0..m] == IF q <= 1 THEN 0 ELSE 1 + halvings[q \div 2]
    IN  halvings

LEMMA HalvingsAre ==
    ASSUME NEW m \in Nat
    PROVE  /\ Halvings(m) \in [0..m -> Nat]
           /\ \A q \in 0..m : Halvings(m)[q] = IF q <= 1 THEN 0 ELSE 1 + Halvings(m)[q \div 2]
  <1> DEFINE Eq(n, f) == f = [q \in 0..n |-> IF q <= 1 THEN 0 ELSE 1 + f[q \div 2]]
             T == {n \in 0..m : \E f \in [0..n -> Nat] : Eq(n, f)}
  <1>1. 0 \in T
    <2> DEFINE f == [q \in 0..0 |-> 0]
    <2>1. f \in [0..0 -> Nat] /\ DOMAIN f = 0..0 /\ f = [q \in 0..0 |-> f[q]]
      OBVIOUS
    <2>2. \A q \in 0..0 : f[q] = IF q <= 1 THEN 0 ELSE 1 + f[q \div 2]
      OBVIOUS
    <2> HIDE DEF f
    <2>3. Eq(0, f)
      BY <2>1, <2>2, Zenon
    <2>4. 0 \in 0..m
      OBVIOUS
    <2> HIDE DEF Eq
    <2> QED
      BY <2>1, <2>3, <2>4
  <1>2. ASSUME NEW n \in 0..(m - 1), n \in T
        PROVE  n + 1 \in T
    <2>1. PICK f \in [0..n -> Nat] : Eq(n, f)
      BY <1>2
    <2> HIDE DEF T
    <2> DEFINE v == IF n + 1 <= 1 THEN 0 ELSE 1 + f[(n + 1) \div 2]
               g == [q \in 0..(n + 1) |-> IF q = n + 1 THEN v ELSE f[q]]
    <2>2. v \in Nat
      <3>1. n + 1 > 1 => (n + 1) \div 2 \in 0..n
        OBVIOUS
      <3> QED
        BY <3>1
    <2>3. \A q \in 0..n : f[q] = IF q <= 1 THEN 0 ELSE 1 + f[q \div 2]
      BY <2>1
    <2>4. \A q \in 0..(n + 1) : q > 1 => q \div 2 \in 0..n
      OBVIOUS
    <2>5. \A q \in 0..n : q \in 0..(n + 1) /\ q # n + 1
      OBVIOUS
    <2>6. \A q \in 0..(n + 1) : q \in 0..n \/ q = n + 1
      OBVIOUS
    <2>7. g \in [0..(n + 1) -> Nat]
      BY <2>2, <2>6
    <2>8. \A q \in 0..n : g[q] = f[q]
      BY <2>5
    <2>9. \A q \in 0..(n + 1) : g[q] = IF q <= 1 THEN 0 ELSE 1 + g[q \div 2]
      <3> SUFFICES ASSUME NEW q \in 0..(n + 1)
                   PROVE  g[q] = IF q <= 1 THEN 0 ELSE 1 + g[q \div 2]
        OBVIOUS
      <3>1. q > 1 => g[q \div 2] = f[q \div 2]
        <4> HIDE DEF g
        <4> QED
          BY <2>4, <2>8
      <3>2. CASE q = n + 1
        <4>1. g[q] = v
          BY <3>2
        <4> HIDE DEF g
        <4> QED
          BY <3>1, <3>2, <4>1
      <3>3. CASE q \in 0..n
        <4> HIDE DEF g
        <4>1. q <= 1 \/ q > 1
          OBVIOUS
        <4> QED
          BY <2>3, <2>8, <3>1, <3>3, <4>1
      <3> QED
        BY <2>6, <3>2, <3>3
    <2>10. Eq(n + 1, g)
      <3> HIDE DEF v
      <3>1. DOMAIN g = 0..(n + 1) /\ g = [q \in 0..(n + 1) |-> g[q]]
        OBVIOUS
      <3> HIDE DEF g
      <3> QED
        BY <2>9, <3>1, Zenon
    <2>11. n + 1 \in 0..m
      OBVIOUS
    <2> HIDE DEF Eq, g, v
    <2> QED
      BY <2>7, <2>10, <2>11 DEF T
  <1>3. m \in T
    <2>1. \A n \in 0..(m - 1) : n \in T => n + 1 \in T
      BY <1>2
    <2>2. m \in 0..m
      OBVIOUS
    <2> HIDE DEF T
    <2> QED
      BY <1>1, <2>1, <2>2, InductionUpTo
  <1> DEFINE h == CHOOSE f : Eq(m, f)
  <1>4. Eq(m, h)
    BY <1>3
  <1>5. Halvings(m) = h
    BY DEF Halvings
  <1>6. PICK f \in [0..m -> Nat] : Eq(m, f)
    BY <1>3
  <1> HIDE DEF h, T
  <1>7. DOMAIN h = 0..m /\ \A q \in 0..m : h[q] = IF q <= 1 THEN 0 ELSE 1 + h[q \div 2]
    BY <1>4
  <1>8. h \in [0..m -> Nat]
    <2> DEFINE S == {n \in 0..m : \A q \in 0..n : h[q] \in Nat}
    <2>1. 0 \in S
      BY <1>7
    <2>2. ASSUME NEW n \in 0..(m - 1), n \in S PROVE n + 1 \in S
      <3>1. \A q \in 0..n : h[q] \in Nat
        BY <2>2
      <3>2. n + 1 \in 0..m /\ (n + 1 > 1 => (n + 1) \div 2 \in 0..n)
        OBVIOUS
      <3>3. h[n + 1] \in Nat
        <4>1. h[n + 1] = IF n + 1 <= 1 THEN 0 ELSE 1 + h[(n + 1) \div 2]
          BY <1>7, <3>2, Zenon
        <4>2. n + 1 > 1 => h[(n + 1) \div 2] \in Nat
          BY <3>1, <3>2
        <4> QED
          BY <4>1, <4>2, SMTT(30)
      <3>4. \A q \in 0..(n + 1) : q \in 0..n \/ q = n + 1
        OBVIOUS
      <3> QED
        BY <3>1, <3>2, <3>3, <3>4
    <2>3. \A n \in 0..(m - 1) : n \in S => n + 1 \in S
      BY <2>2
    <2>4. m \in 0..m
      OBVIOUS
    <2>5. m \in S
      <3> HIDE DEF S
      <3> QED
        BY <2>1, <2>3, <2>4, InductionUpTo
    <2>6. h = [q \in 0..m |-> h[q]]
      BY <1>4
    <2> QED
      BY <2>5, <2>6
  <1> QED
    BY <1>5, <1>7, <1>8

(* Smaller numbers can be halved no more often.                                        *)
LEMMA HalvingsGrow ==
    ASSUME NEW m \in Nat, NEW a \in 0..m, NEW b \in 0..m, a <= b
    PROVE  Halvings(m)[a] <= Halvings(m)[b]
  <1> DEFINE h == Halvings(m)
             S == {n \in 0..m : \A x, y \in 0..n : x <= y => h[x] <= h[y]}
  <1>1. h \in [0..m -> Nat] /\ \A q \in 0..m : h[q] = IF q <= 1 THEN 0 ELSE 1 + h[q \div 2]
    BY HalvingsAre
  <1> HIDE DEF h
  <1>2. 0 \in S
    BY <1>1
  <1>3. ASSUME NEW n \in 0..(m - 1), n \in S PROVE n + 1 \in S
    <2>1. \A x, y \in 0..n : x <= y => h[x] <= h[y]
      BY <1>3
    <2>2. n + 1 \in 0..m /\ \A x \in 0..(n + 1) : x \in 0..m
      OBVIOUS
    <2>3. ASSUME NEW x \in 0..(n + 1) PROVE h[x] <= h[n + 1]
      <3>1. CASE x = n + 1
        BY <1>1, <2>2, <3>1
      <3>2. CASE x <= 1
        <4>1. h[x] = 0 /\ h[n + 1] \in Nat
          BY <1>1, <2>2, <3>2
        <4> QED
          BY <4>1
      <3>3. CASE x > 1 /\ x # n + 1
        <4>1. x \div 2 \in 0..n /\ (n + 1) \div 2 \in 0..n /\ x \div 2 <= (n + 1) \div 2
              /\ x \div 2 \in 0..m /\ (n + 1) \div 2 \in 0..m
          BY <3>3
        <4>2. x \in 0..m /\ ~(x <= 1) /\ ~(n + 1 <= 1)
          BY <2>2, <3>3
        <4>5. h[x] = 1 + h[x \div 2]
          BY <1>1, <4>2, Zenon
        <4>6. h[n + 1] = 1 + h[(n + 1) \div 2]
          BY <1>1, <2>2, <4>2, Zenon
        <4>3. h[x \div 2] \in Nat /\ h[(n + 1) \div 2] \in Nat
          BY <1>1, <4>1
        <4>4. h[x \div 2] <= h[(n + 1) \div 2]
          BY <2>1, <4>1
        <4> QED
          BY <4>3, <4>4, <4>5, <4>6
      <3> QED
        BY <3>1, <3>2, <3>3
    <2>4. \A x, y \in 0..(n + 1) : x <= y => (x \in 0..n /\ y \in 0..n) \/ y = n + 1
      OBVIOUS
    <2> QED
      BY <2>1, <2>2, <2>3, <2>4
  <1>4. m \in S
    <2>1. \A n \in 0..(m - 1) : n \in S => n + 1 \in S
      BY <1>3
    <2>2. m \in 0..m
      OBVIOUS
    <2> HIDE DEF S
    <2> QED
      BY <1>2, <2>1, <2>2, InductionUpTo
  <1>5. h[a] <= h[b]
    BY <1>4
  <1> QED
    BY <1>5 DEF h

===============================================================================
