----------------------------- MODULE MetricsProofs -----------------------------
(* Proofs about the recorder, its trackers and the report's statistics, for any *)
(* prices, sizes and mids and any number of fills and snapshots.                *)
(*                                                                              *)
(* Rational numbers in lowest terms are reasoned about as integers: Is(a, n, d) *)
(* says that a is n / d, and what is computed from numbers over a common        *)
(* denominator is computed from their numerators (PlusIs, ScaledIs, BelowIs).   *)
(* What a loop over a sequence finds is proved by least counterexample, from    *)
(* LeastNumber.                                                                 *)
(*                                                                              *)
(* Four invariants, each inductive with the types (TypeOK).  ProfitInv: what is *)
(* realized less the position at its entry price is the cash (Balanced), and    *)
(* the unrealized PnL is the position's at the last mid (Marked).  Averaged:    *)
(* the entry price lies between two prices of the position's own side.          *)
(* ReportInv: the trackers count what the fills come to (Tracked), the peak is  *)
(* that of the snapshots (Peaked) and the last snapshot is of the present       *)
(* (Current).  The drawdown needs the types only: DrawdownFound says what the   *)
(* loop finds in any sequence of snapshots.                                     *)
EXTENDS Metrics, SequenceTheorems, WellFoundedInduction, TLAPS

--------------------------------------------------------------------------------
(* Numbers.                                                                     *)

\* A set of natural numbers has a least element.
LEMMA LeastNumber ==
    ASSUME NEW T \in SUBSET Nat, T # {}
    PROVE  \E i \in T : \A j \in T : i <= j
<1> DEFINE R == {pair \in Nat \X Nat : pair[1] < pair[2]}
<1>1. IsWellFoundedOn(R, Nat)
  BY NatLessThanWellFounded DEF OpToRel
<1>2. \A i, j \in Nat : ~(<<j, i>> \in R) => i <= j
  OBVIOUS
<1> HIDE DEF R
<1>3. PICK i \in T : \A j \in T : ~(<<j, i>> \in R)
  BY <1>1, WFMin
<1> QED
  BY <1>2, <1>3

\* A set of numbers none of which is above a bound has a largest.
LEMMA LargestNumber ==
    ASSUME NEW d \in Nat, NEW T \in SUBSET (0 .. d), T # {}
    PROVE  /\ Max(T) \in T
           /\ \A i \in T : i <= Max(T)
<1> DEFINE Gaps == {d - i : i \in T}
<1>1. \A i \in T : i \in Nat /\ d - i \in Nat
  OBVIOUS
<1>2. Gaps \in SUBSET Nat /\ Gaps # {}
  BY <1>1
<1>3. PICK b \in Gaps : \A c \in Gaps : b <= c
  <2> HIDE DEF Gaps
  <2> QED
    BY <1>2, LeastNumber
<1>4. PICK i \in T : b = d - i
  BY <1>3
<1>5. \A j \in T : i >= j
  BY <1>1, <1>3, <1>4
<1> QED
  BY <1>5 DEF Max

\* Products, one law at a time.
LEMMA Products ==
    ASSUME NEW a \in Int, NEW b \in Int, NEW c \in Int
    PROVE  /\ a * b \in Int /\ a * b = b * a
           /\ (a * b) * c = a * (b * c)
           /\ (a + b) * c = a * c + b * c
           /\ (a - b) * c = a * c - b * c
  OBVIOUS

LEMMA CancelEqual ==
    ASSUME NEW a \in Int, NEW b \in Int, NEW d \in Int, d > 0, a * d = b * d
    PROVE  a = b
  OBVIOUS

LEMMA ScaleOrder ==
    ASSUME NEW a \in Int, NEW b \in Int, NEW d \in Int, d > 0
    PROVE  a <= b <=> a * d <= b * d
  OBVIOUS

\* What divides without rest.
LEMMA Division ==
    ASSUME NEW n \in Int, NEW g \in Nat \ {0}
    PROVE  /\ n \div g \in Int
           /\ n % g = 0 => n = (n \div g) * g
           /\ (n * g) % g = 0 /\ (n * g) \div g = n
  OBVIOUS

--------------------------------------------------------------------------------
(* Rational numbers.                                                            *)

Rationals == [num : Int, den : Nat \ {0}]

\* a is the number n / d.
Is(a, n, d) == a \in Rationals /\ n \in Int /\ d \in Nat \ {0} /\ a.num * d = n * a.den

LEMMA RatioIs ==
    ASSUME NEW n \in Int, NEW d \in Nat \ {0}
    PROVE  Is(Ratio(n, d), n, d)
<1> DEFINE common == {g \in 1 .. d : n % g = 0 /\ d % g = 0}
           gcd == Max(common)
<1>1. common \in SUBSET (0 .. d) /\ 1 \in common
  BY Division
<1>2. gcd \in common
  <2> HIDE DEF common
  <2> QED
    BY <1>1, LargestNumber
<1>3. gcd \in Nat \ {0} /\ n % gcd = 0 /\ d % gcd = 0
  BY <1>2
<1>4. Ratio(n, d) = [num |-> n \div gcd, den |-> d \div gcd]
  BY DEF Ratio
<1> HIDE DEF gcd
<1> DEFINE p == n \div gcd
           q == d \div gcd
<1>5. p \in Int /\ q \in Int /\ n = p * gcd /\ d = q * gcd
  BY <1>3, Division
<1> HIDE DEF p, q
<1>6. q > 0
  BY <1>3, <1>5
<1>7. p * (q * gcd) = (p * gcd) * q
  BY <1>3, <1>5, Products
<1>8. Ratio(n, d) = [num |-> p, den |-> q]
  BY <1>4 DEF p, q
<1> QED
  BY <1>5, <1>6, <1>7, <1>8 DEF Is, Rationals

LEMMA RatioWhole ==
    ASSUME NEW k \in Int, NEW d \in Nat \ {0}
    PROVE  Ratio(k * d, d) = Whole(k)
<1> DEFINE common == {g \in 1 .. d : (k * d) % g = 0 /\ d % g = 0}
<1>1. common \in SUBSET (0 .. d) /\ d \in common
  <2>1. (k * d) % d = 0
    BY Division
  <2>2. d % d = 0
    <3>1. (1 * d) % d = 0
      BY Division
    <3> QED
      BY <3>1
  <2> QED
    BY <2>1, <2>2
<1>2. Max(common) \in common /\ d <= Max(common)
  <2> HIDE DEF common
  <2> QED
    BY <1>1, LargestNumber
<1>3. Max(common) = d
  BY <1>2
<1>4. (k * d) \div d = k /\ d \div d = 1
  <2>1. (1 * d) \div d = 1
    BY Division
  <2> QED
    BY <2>1, Division
<1> QED
  BY <1>3, <1>4 DEF Ratio, Whole

LEMMA SameNumber ==
    ASSUME NEW a, NEW n, NEW d, Is(a, n, d), NEW m \in Int, NEW e \in Nat \ {0}, n * e = m * d
    PROVE  Is(a, m, e)
<1>1. /\ a \in Rationals /\ a.num \in Int /\ a.den \in Nat \ {0}
      /\ n \in Int /\ d \in Nat \ {0} /\ a.num * d = n * a.den
  BY DEF Is, Rationals
<1> DEFINE p == a.num
           q == a.den
<1>2. p \in Int /\ q \in Int /\ d \in Int /\ n \in Int /\ e \in Int /\ p * d = n * q
  BY <1>1
<1> HIDE DEF p, q
<1>3. (p * e) * d = (p * d) * e
  BY <1>2, Products
<1>4. (n * q) * e = (n * e) * q
  BY <1>2, Products
<1>5. (m * d) * q = (m * q) * d
  BY <1>2, Products
<1>6. (p * e) * d = (m * q) * d
  BY <1>2, <1>3, <1>4, <1>5
<1>7. p * e \in Int /\ m * q \in Int /\ d > 0
  BY <1>1, <1>2
<1>8. p * e = m * q
  BY <1>2, <1>6, <1>7, CancelEqual
<1> QED
  BY <1>1, <1>8 DEF Is, p, q

LEMMA WholeIs ==
    ASSUME NEW k \in Int, NEW d \in Nat \ {0}
    PROVE  Is(Whole(k), k * d, d)
  BY Products DEF Is, Whole, Rationals

LEMMA CommonDenominator ==
    ASSUME NEW a \in Rationals, NEW b \in Rationals, NEW c \in Rationals
    PROVE  \E d, l, m, n : Is(a, l, d) /\ Is(b, m, d) /\ Is(c, n, d)
<1> DEFINE x == a.den
           y == b.den
           z == c.den
           d == (x * y) * z
           l == a.num * (y * z)
           m == b.num * (x * z)
           n == c.num * (x * y)
<1>1. /\ x \in Nat \ {0} /\ y \in Nat \ {0} /\ z \in Nat \ {0}
      /\ a.num \in Int /\ b.num \in Int /\ c.num \in Int
  BY DEF Rationals
<1>2. \A i, j \in Nat \ {0} : i * j \in Nat \ {0}
  OBVIOUS
<1>3. d \in Nat \ {0} /\ x * y \in Int /\ x * z \in Int /\ y * z \in Int
  BY <1>1, <1>2
<1>4. l \in Int /\ m \in Int /\ n \in Int
  BY <1>1, <1>3, Products
<1>5. Is(a, a.num, x) /\ Is(b, b.num, y) /\ Is(c, c.num, z)
  BY <1>1, Products DEF Is
<1>6. a.num * d = l * x
  <2> HIDE DEF x, y, z
  <2>1. l * x = a.num * ((y * z) * x)
    BY <1>1, <1>3, Products
  <2>2. (y * z) * x = d
    BY <1>1, <1>3, Products
  <2> QED
    BY <2>1, <2>2
<1>7. b.num * d = m * y
  <2> HIDE DEF x, y, z
  <2>1. m * y = b.num * ((x * z) * y)
    BY <1>1, <1>3, Products
  <2>2. (x * z) * y = d
    <3>1. (x * z) * y = x * (z * y) /\ z * y = y * z
      BY <1>1, <1>3, Products
    <3>2. (x * y) * z = x * (y * z)
      BY <1>1, <1>3, Products
    <3> QED
      BY <3>1, <3>2
  <2> QED
    BY <2>1, <2>2
<1>8. c.num * d = n * z
  <2> HIDE DEF x, y, z
  <2> QED
    BY <1>1, <1>3, Products
<1> HIDE DEF d, l, m, n, x, y, z
<1>9. Is(a, l, d) /\ Is(b, m, d) /\ Is(c, n, d)
  BY <1>3, <1>4, <1>5, <1>6, <1>7, <1>8, SameNumber
<1> QED
  BY <1>9

\* Both sides of an equation of two numbers, once more multiplied.
LEMMA Expand ==
    ASSUME NEW p \in Int, NEW q \in Int, NEW n \in Int, NEW d \in Int, NEW s \in Int,
           p * d = n * q
    PROVE  (p * s) * d = n * (q * s)
<1>1. (p * s) * d = (p * d) * s
  BY Products
<1>2. (n * q) * s = n * (q * s)
  BY Products
<1> QED
  BY <1>1, <1>2

\* Numbers with a denominator in common are added, multiplied and compared by
\* their numerators.
LEMMA PlusNumerator ==
    ASSUME NEW a, NEW b, NEW n, NEW m, NEW d, Is(a, n, d), Is(b, m, d)
    PROVE  \E num \in Int, den \in Nat \ {0} :
              Plus(a, b) = Ratio(num, den) /\ num * d = (n + m) * den
<1> DEFINE p == a.num
           q == a.den
           r == b.num
           s == b.den
<1>1. /\ p \in Int /\ q \in Nat \ {0} /\ r \in Int /\ s \in Nat \ {0}
      /\ n \in Int /\ m \in Int /\ d \in Nat \ {0} /\ p * d = n * q /\ r * d = m * s
  BY DEF Is, Rationals
<1>2. Plus(a, b) = Ratio(p * s + r * q, q * s)
  BY DEF Plus
<1> HIDE DEF p, q, r, s
<1>3. p * s \in Int /\ r * q \in Int /\ q * s \in Nat \ {0}
  <2>1. \A i, j \in Nat \ {0} : i * j \in Nat \ {0}
    OBVIOUS
  <2> QED
    BY <1>1, <2>1, Products
<1>4. (p * s) * d = n * (q * s)
  BY <1>1, Expand
<1>5. (r * q) * d = m * (q * s)
  <2>1. s * q = q * s
    BY <1>1
  <2> QED
    BY <1>1, <2>1, Expand
<1>6. (p * s + r * q) * d = (p * s) * d + (r * q) * d
  BY <1>1, <1>3, Products
<1>7. (n + m) * (q * s) = n * (q * s) + m * (q * s)
  BY <1>1, <1>3, Products
<1> QED
  BY <1>2, <1>3, <1>4, <1>5, <1>6, <1>7

LEMMA PlusIs ==
    ASSUME NEW a, NEW b, NEW n, NEW m, NEW d, Is(a, n, d), Is(b, m, d)
    PROVE  Is(Plus(a, b), n + m, d)
<1>1. n + m \in Int /\ d \in Nat \ {0}
  BY DEF Is
<1>2. PICK num \in Int, den \in Nat \ {0} :
         Plus(a, b) = Ratio(num, den) /\ num * d = (n + m) * den
  BY PlusNumerator
<1>3. Is(Plus(a, b), num, den)
  BY <1>2, RatioIs
<1> QED
  BY <1>1, <1>2, <1>3, SameNumber

LEMMA PlusWhole ==
    ASSUME NEW a, NEW b, NEW n, NEW m, NEW d, Is(a, n, d), Is(b, m, d),
           NEW k \in Int, n + m = k * d
    PROVE  Plus(a, b) = Whole(k)
<1>1. n + m \in Int /\ d \in Nat \ {0}
  BY DEF Is
<1>2. PICK num \in Int, den \in Nat \ {0} :
         Plus(a, b) = Ratio(num, den) /\ num * d = (n + m) * den
  BY PlusNumerator
<1>3. (k * d) * den = (k * den) * d
  BY <1>1, Products
<1>4. num = k * den
  <2>1. k * den \in Int /\ d \in Int /\ d > 0
    BY <1>1
  <2> QED
    BY <1>2, <1>3, <2>1, CancelEqual
<1> QED
  BY <1>2, <1>4, RatioWhole

LEMMA MinusIs ==
    ASSUME NEW a, NEW b, NEW n, NEW m, NEW d, Is(a, n, d), Is(b, m, d)
    PROVE  Is(Minus(a, b), n - m, d)
<1> DEFINE neg == [num |-> -b.num, den |-> b.den]
<1>1. /\ b.num \in Int /\ b.den \in Nat \ {0} /\ m \in Int /\ d \in Nat \ {0}
      /\ b.num * d = m * b.den /\ n \in Int
  BY DEF Is, Rationals
<1>2. (-b.num) * d = (-m) * b.den
  <2>1. \A i, j \in Int : (-i) * j = -(i * j)
    OBVIOUS
  <2> QED
    BY <1>1, <2>1
<1>3. Is(neg, -m, d)
  BY <1>1, <1>2 DEF Is, Rationals
<1>4. Minus(a, b) = Plus(a, neg)
  BY DEF Minus
<1> HIDE DEF neg
<1>5. Is(Plus(a, neg), n + (-m), d)
  BY <1>3, PlusIs
<1>6. n + (-m) = n - m
  BY <1>1
<1> QED
  BY <1>4, <1>5, <1>6

LEMMA ScaledIs ==
    ASSUME NEW a, NEW n, NEW d, Is(a, n, d), NEW i \in Int
    PROVE  Is(Scaled(i, a), i * n, d)
<1>1. /\ a.num \in Int /\ a.den \in Nat \ {0} /\ n \in Int /\ d \in Nat \ {0}
      /\ a.num * d = n * a.den
  BY DEF Is, Rationals
<1> DEFINE p == a.num
           q == a.den
<1>2. Scaled(i, a) = Ratio(i * p, q)
  BY DEF Scaled
<1>3. p \in Int /\ q \in Nat \ {0} /\ p * d = n * q
  BY <1>1
<1> HIDE DEF p, q
<1>4. i * p \in Int /\ i * n \in Int
  BY <1>1, <1>3, Products
<1>5. (i * p) * d = (i * n) * q
  <2>1. (i * p) * d = i * (p * d)
    BY <1>1, <1>3, Products
  <2>2. (i * n) * q = i * (n * q)
    BY <1>1, <1>3, Products
  <2> QED
    BY <1>3, <2>1, <2>2
<1>6. Is(Ratio(i * p, q), i * p, q)
  BY <1>3, <1>4, RatioIs
<1> QED
  BY <1>1, <1>2, <1>4, <1>5, <1>6, SameNumber

LEMMA BelowIs ==
    ASSUME NEW a, NEW b, NEW n, NEW m, NEW d, Is(a, n, d), Is(b, m, d)
    PROVE  Below(a, b) <=> n < m
<1> DEFINE p == a.num
           q == a.den
           r == b.num
           s == b.den
<1>1. /\ p \in Int /\ q \in Nat \ {0} /\ r \in Int /\ s \in Nat \ {0}
      /\ n \in Int /\ m \in Int /\ d \in Nat \ {0} /\ p * d = n * q /\ r * d = m * s
  BY DEF Is, Rationals
<1>2. Below(a, b) <=> p * s < r * q
  BY DEF Below
<1> HIDE DEF p, q, r, s
<1>3. q * s \in Int /\ q * s > 0 /\ p * s \in Int /\ r * q \in Int
  <2>1. \A i, j \in Nat \ {0} : i * j \in Nat \ {0}
    OBVIOUS
  <2> QED
    BY <1>1, <2>1, Products
<1>4. (p * s) * d = n * (q * s)
  BY <1>1, Expand
<1>5. (r * q) * d = m * (q * s)
  <2>1. s * q = q * s
    BY <1>1
  <2> QED
    BY <1>1, <2>1, Expand
<1>6. r * q <= p * s <=> (r * q) * d <= (p * s) * d
  BY <1>1, <1>3, ScaleOrder
<1>7. m <= n <=> m * (q * s) <= n * (q * s)
  BY <1>1, <1>3, ScaleOrder
<1>8. r * q <= p * s <=> m <= n
  BY <1>4, <1>5, <1>6, <1>7
<1> QED
  BY <1>1, <1>2, <1>3, <1>8

--------------------------------------------------------------------------------
(* Loops: what a recursive function over the elements of a sequence computes.   *)

\* Two loops that take the same turns end alike.
LEMMA SameTurns ==
    ASSUME NEW m \in Nat, NEW f, NEW g, f[0] = g[0],
           \A i \in 1 .. m : f[i - 1] = g[i - 1] => f[i] = g[i]
    PROVE  f[m] = g[m]
<1> SUFFICES ASSUME f[m] # g[m] PROVE FALSE
  OBVIOUS
<1> DEFINE T == {j \in 0 .. m : f[j] # g[j]}
<1>1. T \in SUBSET Nat /\ m \in T
  OBVIOUS
<1>2. PICK j \in T : \A l \in T : j <= l
  <2> HIDE DEF T
  <2> QED
    BY <1>1, LeastNumber
<1>3. j \in 1 .. m /\ f[j] # g[j]
  BY <1>2
<1>4. j - 1 \in 0 .. m /\ ~(j <= j - 1)
  BY <1>3
<1>5. f[j - 1] = g[j - 1]
  BY <1>2, <1>4
<1> QED
  BY <1>3, <1>5

\* f is the loop over the first k turns of turn, starting with base.
Loops(f, base, turn, k) ==
    f = [i \in 0 .. k |-> IF i = 0 THEN base ELSE turn[i][f[i - 1]]]

LEMMA LoopExists ==
    ASSUME NEW A, NEW base \in A, NEW n \in Nat, NEW turn \in [1 .. n -> [A -> A]]
    PROVE  \E f \in [0 .. n -> A] : Loops(f, base, turn, n)
<1> SUFFICES ASSUME ~\E f \in [0 .. n -> A] : Loops(f, base, turn, n) PROVE FALSE
  OBVIOUS
<1> DEFINE T == {k \in 0 .. n : ~\E f \in [0 .. k -> A] : Loops(f, base, turn, k)}
<1>1. PICK k \in T : \A l \in T : k <= l
  <2>1. T \in SUBSET Nat /\ n \in T
    OBVIOUS
  <2> HIDE DEF T
  <2> QED
    BY <2>1, LeastNumber
<1>2. k \in 0 .. n /\ ~\E f \in [0 .. k -> A] : Loops(f, base, turn, k)
  BY <1>1
<1>3. k # 0
  <2>1. Loops([i \in 0 .. 0 |-> base], base, turn, 0)
    BY DEF Loops
  <2>2. [i \in 0 .. 0 |-> base] \in [0 .. 0 -> A]
    OBVIOUS
  <2> QED
    BY <1>2, <2>1, <2>2
<1>4. k - 1 \in 0 .. n /\ k - 1 \notin T /\ k \in 1 .. n
  BY <1>1, <1>2, <1>3
<1>5. PICK f \in [0 .. (k - 1) -> A] : Loops(f, base, turn, k - 1)
  BY <1>4
<1> DEFINE g == [i \in 0 .. k |-> IF i = k THEN turn[k][f[k - 1]] ELSE f[i]]
<1>6. f[k - 1] \in A /\ turn[k] \in [A -> A]
  BY <1>4, <1>5
<1>7. g \in [0 .. k -> A]
  BY <1>4, <1>5, <1>6
<1>8. g[0] = base
  BY <1>4, <1>5 DEF Loops
<1>9. ASSUME NEW i \in 1 .. k
      PROVE  g[i] = turn[i][g[i - 1]]
  <2>1. g[i - 1] = f[i - 1]
    BY <1>4
  <2>2. CASE i = k
    BY <2>1, <2>2, <1>4
  <2>3. CASE i # k
    <3>1. i \in 1 .. (k - 1) /\ i \in 0 .. (k - 1) /\ i # 0
      BY <1>4, <2>3
    <3>2. g[i] = f[i]
      BY <1>4, <3>1, <2>3
    <3>3. f[i] = turn[i][f[i - 1]]
      BY <1>5, <3>1 DEF Loops
    <3> QED
      BY <2>1, <3>2, <3>3
  <2> QED
    BY <2>2, <2>3
<1>10. DOMAIN g = 0 .. k
  OBVIOUS
<1> HIDE DEF g
<1>11. Loops(g, base, turn, k)
  <2>1. \A i \in 0 .. k : i # 0 => i \in 1 .. k
    BY <1>4
  <2>2. \A i \in 0 .. k : g[i] = IF i = 0 THEN base ELSE turn[i][g[i - 1]]
    BY <1>8, <1>9, <2>1
  <2>3. g = [i \in 0 .. k |-> g[i]]
    BY <1>7
  <2> QED
    BY <2>2, <2>3 DEF Loops
<1> QED
  BY <1>2, <1>7, <1>11

\* The turns of the loop that adds up a sequence.
Adding(values) == [i \in 1 .. Len(values) |-> [sum \in Int |-> sum + values[i]]]

LEMMA SumLoop ==
    ASSUME NEW values \in Seq(Int)
    PROVE  \E f \in [0 .. Len(values) -> Int] :
              /\ SumOf(values) = f[Len(values)]
              /\ f[0] = 0
              /\ \A i \in 1 .. Len(values) : f[i] = f[i - 1] + values[i]
<1> DEFINE n == Len(values)
           sum[i \in 0 .. n] == IF i = 0 THEN 0 ELSE sum[i - 1] + values[i]
<1>1. \A i \in 1 .. n : values[i] \in Int
  BY ElementOfSeq
<1>2. n \in Nat
  OBVIOUS
<1>3. Adding(values) \in [1 .. n -> [Int -> Int]]
  BY <1>1 DEF Adding
<1> HIDE DEF sum
<1>4. PICK f \in [0 .. n -> Int] : Loops(f, 0, Adding(values), n)
  <2> HIDE DEF n
  <2> DEFINE turn == Adding(values)
  <2>1. turn \in [1 .. n -> [Int -> Int]] /\ 0 \in Int
    BY <1>3
  <2> HIDE DEF turn
  <2>2. \E f \in [0 .. n -> Int] : Loops(f, 0, turn, n)
    BY <1>2, <2>1, LoopExists
  <2> QED
    BY <2>2 DEF turn
<1>5. \A i \in 1 .. n : f[i] = f[i - 1] + values[i]
  <2> SUFFICES ASSUME NEW i \in 1 .. n PROVE f[i] = f[i - 1] + values[i]
    OBVIOUS
  <2>1. i \in 0 .. n /\ i # 0 /\ i - 1 \in 0 .. n
    BY <1>2
  <2>2. f[i] = Adding(values)[i][f[i - 1]]
    BY <1>4, <2>1 DEF Loops
  <2>3. f[i - 1] \in Int
    BY <2>1
  <2> QED
    BY <2>2, <2>3 DEF Adding
<1>6. f[0] = 0
  BY <1>2, <1>4 DEF Loops
<1>7. f = [i \in 0 .. n |-> IF i = 0 THEN 0 ELSE f[i - 1] + values[i]]
  <2>1. \A i \in 0 .. n : i = 0 \/ i \in 1 .. n
    BY <1>2
  <2>2. \A i \in 0 .. n : f[i] = IF i = 0 THEN 0 ELSE f[i - 1] + values[i]
    BY <1>5, <1>6, <2>1
  <2>3. f = [i \in 0 .. n |-> f[i]]
    OBVIOUS
  <2> QED
    BY <2>2, <2>3
<1>8. sum = [i \in 0 .. n |-> IF i = 0 THEN 0 ELSE sum[i - 1] + values[i]]
  BY <1>7 DEF sum
<1>9. SumOf(values) = sum[n]
  BY DEF SumOf, sum
<1>10. \A i \in 1 .. n : i \in 0 .. n /\ i # 0
  BY <1>2
<1>11. sum[0] = 0 /\ \A i \in 1 .. n : sum[i] = sum[i - 1] + values[i]
  BY <1>2, <1>8, <1>10
<1>12. sum[n] = f[n]
  <2>1. \A i \in 1 .. n : sum[i - 1] = f[i - 1] => sum[i] = f[i]
    BY <1>5, <1>11
  <2> HIDE DEF n
  <2> QED
    BY <1>2, <1>6, <1>11, <2>1, SameTurns
<1> QED
  BY <1>5, <1>6, <1>9, <1>12

\* A sum grows by what is appended.
LEMMA SumFacts ==
    /\ SumOf(<<>>) = 0
    /\ \A values \in Seq(Int) : SumOf(values) \in Int
    /\ \A values \in Seq(Int), v \in Int :
          SumOf(Append(values, v)) = SumOf(values) + v
<1>1. SumOf(<<>>) = 0
  <2>1. <<>> \in Seq(Int) /\ Len(<<>>) = 0
    OBVIOUS
  <2> QED
    BY <2>1, SumLoop
<1>2. ASSUME NEW values \in Seq(Int)
      PROVE  SumOf(values) \in Int
  <2>1. Len(values) \in 0 .. Len(values)
    OBVIOUS
  <2> QED
    BY <2>1, SumLoop
<1>3. ASSUME NEW values \in Seq(Int), NEW v \in Int
      PROVE  SumOf(Append(values, v)) = SumOf(values) + v
  <2> DEFINE n == Len(values)
             more == Append(values, v)
  <2>1. /\ more \in Seq(Int) /\ Len(more) = n + 1 /\ more[n + 1] = v
        /\ \A i \in 1 .. n : more[i] = values[i]
    BY AppendProperties
  <2>2. n \in Nat
    OBVIOUS
  <2>3. PICK f \in [0 .. n -> Int] :
           /\ SumOf(values) = f[n] /\ f[0] = 0
           /\ \A i \in 1 .. n : f[i] = f[i - 1] + values[i]
    BY SumLoop
  <2> HIDE DEF more
  <2>4. PICK g \in [0 .. Len(more) -> Int] :
           /\ SumOf(more) = g[Len(more)] /\ g[0] = 0
           /\ \A i \in 1 .. Len(more) : g[i] = g[i - 1] + more[i]
    BY <2>1, SumLoop
  <2>5. \A i \in 1 .. n : f[i - 1] = g[i - 1] => f[i] = g[i]
    <3>1. \A i \in 1 .. n : i \in 1 .. (n + 1)
      BY <2>2
    <3> QED
      BY <2>1, <2>3, <2>4, <3>1
  <2>6. f[n] = g[n]
    <3>1. f[0] = g[0]
      BY <2>3, <2>4
    <3> HIDE DEF n
    <3> QED
      BY <2>2, <2>5, <3>1, SameTurns
  <2>7. g[n + 1] = g[n] + v
    <3>1. n + 1 \in 1 .. (n + 1) /\ (n + 1) - 1 = n
      BY <2>2
    <3> QED
      BY <2>1, <2>4, <3>1
  <2> QED
    BY <2>3, <2>4, <2>6, <2>7 DEF more
<1> QED
  BY <1>1, <1>2, <1>3

--------------------------------------------------------------------------------
(* The order of rational numbers, and what arithmetic does to it.               *)

AtMost(a, b) == ~Below(b, a)

LEMMA Ordered ==
    ASSUME NEW a \in Rationals, NEW b \in Rationals, NEW c \in Rationals
    PROVE  /\ AtMost(a, a)
           /\ AtMost(a, b) \/ AtMost(b, a)
           /\ Below(a, b) => AtMost(a, b)
           /\ AtMost(a, b) /\ AtMost(b, c) => AtMost(a, c)
           /\ AtMost(a, b) => AtMost(Minus(a, c), Minus(b, c))
<1>1. PICK d, l, m, n : Is(a, l, d) /\ Is(b, m, d) /\ Is(c, n, d)
  BY CommonDenominator
<1>2. l \in Int /\ m \in Int /\ n \in Int
  BY <1>1 DEF Is
<1>3. /\ AtMost(a, a) <=> ~(l < l)
      /\ AtMost(a, b) <=> ~(m < l)
      /\ AtMost(b, a) <=> ~(l < m)
      /\ AtMost(b, c) <=> ~(n < m)
      /\ AtMost(a, c) <=> ~(n < l)
      /\ Below(a, b) <=> l < m
  BY <1>1, BelowIs DEF AtMost
<1>4. AtMost(Minus(a, c), Minus(b, c)) <=> ~(m - n < l - n)
  BY <1>1, MinusIs, BelowIs DEF AtMost
<1> QED
  BY <1>2, <1>3, <1>4

LEMMA Closures ==
    /\ \A n \in Int, d \in Nat \ {0} : Ratio(n, d) \in Rationals
    /\ \A k \in Int : Whole(k) \in Rationals
    /\ Zero \in Rationals /\ Zero = Whole(0)
    /\ \A a, b \in Rationals : Plus(a, b) \in Rationals /\ Minus(a, b) \in Rationals
    /\ \A a \in Rationals, i \in Int : Scaled(i, a) \in Rationals
<1>1. \A n \in Int, d \in Nat \ {0} : Ratio(n, d) \in Rationals
  BY RatioIs DEF Is
<1>2. \A k \in Int : Whole(k) \in Rationals
  BY DEF Whole, Rationals
<1>3. ASSUME NEW a \in Rationals, NEW b \in Rationals
      PROVE  Plus(a, b) \in Rationals /\ Minus(a, b) \in Rationals
  <2>1. PICK d, l, m, n : Is(a, l, d) /\ Is(b, m, d) /\ Is(b, n, d)
    BY CommonDenominator
  <2>2. Is(Plus(a, b), l + m, d) /\ Is(Minus(a, b), l - m, d)
    BY <2>1, PlusIs, MinusIs
  <2> QED
    BY <2>2 DEF Is
<1>4. ASSUME NEW a \in Rationals, NEW i \in Int
      PROVE  Scaled(i, a) \in Rationals
  <2>1. PICK d, l, m, n : Is(a, l, d) /\ Is(a, m, d) /\ Is(a, n, d)
    BY CommonDenominator
  <2>2. Is(Scaled(i, a), i * l, d)
    BY <2>1, ScaledIs
  <2> QED
    BY <2>2 DEF Is
<1>5. Zero \in Rationals /\ Zero = Whole(0)
  BY <1>2 DEF Zero
<1> QED
  BY <1>1, <1>2, <1>3, <1>4, <1>5

\* Nothing less itself is nothing.
LEMMA MinusItself ==
    ASSUME NEW a \in Rationals
    PROVE  Minus(a, a) = Zero
<1> DEFINE x == a.num
           y == a.den
<1>1. x \in Int /\ y \in Nat \ {0}
  BY DEF Rationals
<1>2. Minus(a, a) = Ratio(x * y + (-x) * y, y * y)
  BY DEF Minus, Plus
<1> HIDE DEF x, y
<1>3. y * y \in Nat \ {0} /\ x * y + (-x) * y = 0 * (y * y)
  BY <1>1
<1> QED
  BY <1>2, <1>3, RatioWhole DEF Zero

\* A weighted mean of two numbers lies between them.
LEMMA WeightedMean ==
    ASSUME NEW a \in Int, NEW b \in Int, NEW v \in Nat, NEW w \in Nat, a <= b
    PROVE  (v + w) * a <= v * a + w * b /\ v * a + w * b <= (v + w) * b
  OBVIOUS

--------------------------------------------------------------------------------
(* The state of the recorder and its trackers.                                  *)

Snaps == [realized : Rationals, unrealized : Rationals, total : Rationals,
          inventory : Int, turnover : Int, fill_count : Nat]

TypeOK ==
    /\ fed \in Seq(Fills) /\ mid \in Int
    /\ position \in Int
    /\ avg_entry_price \in Rationals /\ realized_pnl \in Rationals
    /\ unrealized_pnl \in Rationals
    /\ inventory \in Int /\ peak_long \in Int /\ peak_short \in Int
    /\ turnover \in [notional : Int, fill_count : Nat]
    /\ snapshots \in Seq(Snaps)

LEMMA FillFacts ==
    ASSUME NEW fill \in Fills
    PROVE  /\ fill.size \in Nat \ {0} /\ fill.price \in Nat \ {0}
           /\ Signed(fill) \in Int /\ Signed(fill) # 0
           /\ Signed(fill) = fill.size \/ Signed(fill) = -fill.size
           /\ Abs(Signed(fill)) = fill.size
<1>1. fill.size \in Nat \ {0} /\ fill.price \in Nat \ {0}
  BY MetricsAssumption DEF Fills
<1> QED
  BY <1>1 DEF Signed, Abs

LEMMA AbsFacts ==
    ASSUME NEW i \in Int
    PROVE  /\ Abs(i) \in Nat /\ (Abs(i) = 0 <=> i = 0)
           /\ i >= 0 => Abs(i) = i
           /\ i <= 0 => Abs(i) = -i
  BY DEF Abs

LEMMA LargerFacts ==
    ASSUME NEW i \in Int, NEW j \in Int
    PROVE  /\ Larger(i, j) \in Int /\ Larger(i, j) >= i /\ Larger(i, j) >= j
           /\ Larger(i, j) = i \/ Larger(i, j) = j
  BY DEF Larger

\* What part of a fill closes a position.
LEMMA ClosedFacts ==
    ASSUME TypeOK, NEW fill \in Fills
    PROVE  /\ Closed(fill) \in Nat
           /\ Closed(fill) =
                 IF position = 0 \/ SameSign(position, Signed(fill)) THEN 0
                 ELSE IF fill.size < Abs(position) THEN fill.size ELSE Abs(position)
<1>1. Abs(position) \in Nat
  BY AbsFacts DEF TypeOK
<1> QED
  BY <1>1, FillFacts DEF Closed

LEMMA BlendedIs ==
    ASSUME TypeOK, NEW fill \in Fills, NEW p, NEW d, Is(avg_entry_price, p, d)
    PROVE  LET w == Abs(position)
               z == fill.size
           IN  Is(Blended(fill), w * p + z * (fill.price * d), d * (w + z))
<1> DEFINE w == Abs(position)
           z == fill.size
           x == fill.price
           cost == Plus(Scaled(w, avg_entry_price), Whole(x * z))
<1>1. /\ w \in Nat /\ z \in Nat \ {0} /\ x \in Nat \ {0}
      /\ p \in Int /\ d \in Nat \ {0}
  BY AbsFacts, FillFacts DEF TypeOK, Is
<1>2. Blended(fill) = Ratio(cost.num, cost.den * (w + z))
  BY DEF Blended
<1>3. Is(cost, w * p + (x * z) * d, d)
  <2> HIDE DEF w, z, x
  <2>1. Is(Scaled(w, avg_entry_price), w * p, d)
    BY <1>1, ScaledIs
  <2>2. Is(Whole(x * z), (x * z) * d, d)
    BY <1>1, WholeIs
  <2> QED
    BY <2>1, <2>2, PlusIs
<1> DEFINE n == cost.num
           e == cost.den
           r == w * p + z * (x * d)
<1> HIDE DEF cost, w, z, x
<1>4. /\ n \in Int /\ e \in Nat \ {0} /\ n * d = (w * p + (x * z) * d) * e
  BY <1>3 DEF Is, Rationals
<1>5. r \in Int /\ r = w * p + (x * z) * d
  BY <1>1
<1> HIDE DEF n, e, r
<1>6. n * (d * (w + z)) = r * (e * (w + z))
  <2>1. n * d = r * e
    BY <1>4, <1>5
  <2>2. n * (d * (w + z)) = (n * (w + z)) * d
    BY <1>1, <1>4
  <2> QED
    BY <1>1, <1>4, <1>5, <2>1, <2>2, Expand
<1>7. e * (w + z) \in Nat \ {0} /\ d * (w + z) \in Nat \ {0}
  <2>1. \A i, j \in Nat \ {0} : i * j \in Nat \ {0}
    OBVIOUS
  <2>2. w + z \in Nat \ {0}
    BY <1>1
  <2> QED
    BY <1>1, <1>4, <2>1, <2>2
<1>8. Is(Ratio(n, e * (w + z)), n, e * (w + z))
  BY <1>4, <1>7, RatioIs
<1>9. Is(Blended(fill), r, d * (w + z))
  <2>1. Blended(fill) = Ratio(n, e * (w + z))
    BY <1>2 DEF n, e
  <2> QED
    BY <1>5, <1>6, <1>7, <1>8, <2>1, SameNumber
<1> QED
  BY <1>9 DEF r, w, z, x

\* A fill realizes the gain on the part it closes.
LEMMA RealizedIs ==
    ASSUME TypeOK, NEW fill \in Fills, NEW q, NEW p, NEW d,
           Is(realized_pnl, q, d), Is(avg_entry_price, p, d)
    PROVE  LET gain == fill.price * d - p
           IN  Is(RealizedAfter(fill),
                  q + Closed(fill) * (IF position > 0 THEN gain ELSE -gain), d)
<1> DEFINE x == fill.price
           c == Closed(fill)
           price == Whole(x)
<1>1. x \in Int /\ c \in Int /\ p \in Int /\ d \in Nat \ {0} /\ x * d \in Int
  BY FillFacts, ClosedFacts DEF Is
<1>2. Is(price, x * d, d)
  BY <1>1, WholeIs
<1>3. RealizedAfter(fill) = Plus(realized_pnl,
         Scaled(c, IF position > 0 THEN Minus(price, avg_entry_price)
                                   ELSE Minus(avg_entry_price, price)))
  BY DEF RealizedAfter
<1> HIDE DEF price, x, c
<1>4. CASE position > 0
  <2>1. Is(Scaled(c, Minus(price, avg_entry_price)), c * (x * d - p), d)
    BY <1>1, <1>2, MinusIs, ScaledIs
  <2>2. Is(RealizedAfter(fill), q + c * (x * d - p), d)
    BY <1>3, <1>4, <2>1, PlusIs
  <2> QED
    BY <1>4, <2>2 DEF x, c
<1>5. CASE ~(position > 0)
  <2>1. Is(Scaled(c, Minus(avg_entry_price, price)), c * (p - x * d), d)
    BY <1>1, <1>2, MinusIs, ScaledIs
  <2>2. Is(RealizedAfter(fill), q + c * (p - x * d), d)
    BY <1>3, <1>5, <2>1, PlusIs
  <2>3. p - x * d = -(x * d - p)
    BY <1>1
  <2> QED
    BY <1>5, <2>2, <2>3 DEF x, c
<1> QED
  BY <1>4, <1>5

LEMMA EntryTyped ==
    ASSUME TypeOK, NEW fill \in Fills
    PROVE  EntryAfter(fill) \in Rationals /\ RealizedAfter(fill) \in Rationals
<1>1. PICK d, p, q, r : /\ Is(avg_entry_price, p, d) /\ Is(realized_pnl, q, d)
                        /\ Is(realized_pnl, r, d)
  BY CommonDenominator DEF TypeOK
<1>2. Blended(fill) \in Rationals
  BY <1>1, BlendedIs DEF Is
<1>3. Whole(fill.price) \in Rationals
  BY FillFacts, Closures
<1>4. RealizedAfter(fill) \in Rationals
  BY <1>1, RealizedIs DEF Is
<1> QED
  BY <1>2, <1>3, <1>4, Closures DEF EntryAfter, TypeOK

\* The value of the position at a mid.
MarkAt(pos, entry, m) ==
    IF pos = 0 THEN Zero
    ELSE IF pos > 0 THEN Scaled(pos, Minus(Whole(m), entry))
                    ELSE Scaled(-pos, Minus(entry, Whole(m)))

LEMMA MarkTyped ==
    ASSUME NEW pos \in Int, NEW entry \in Rationals, NEW m \in Int
    PROVE  MarkAt(pos, entry, m) \in Rationals
<1>1. Whole(m) \in Rationals /\ -pos \in Int
  BY Closures
<1>2. Minus(Whole(m), entry) \in Rationals /\ Minus(entry, Whole(m)) \in Rationals
  BY <1>1, Closures
<1> QED
  BY <1>1, <1>2, Closures DEF MarkAt

LEMMA MidsTyped == Mids \subseteq Int
  BY MetricsAssumption

\* What both entry points of the recorder do.
LEMMA Recorded ==
    ASSUME NEW m, Snapshot(m) \/ \E fill \in Fills : OnFill(fill, m)
    PROVE  /\ mid' = m
           /\ unrealized_pnl' = MarkAt(position', avg_entry_price', m)
           /\ TakeSnapshot
  BY DEF OnFill, Snapshot, MarkToMarket, MarkAt

LEMMA InitTyped ==
    ASSUME Init
    PROVE  TypeOK
<1>1. <<>> \in Seq(Fills) /\ <<>> \in Seq(Snaps)
  OBVIOUS
<1> QED
  BY <1>1, Closures DEF Init, TypeOK

LEMMA NextTyped ==
    ASSUME TypeOK, [Next]_vars
    PROVE  TypeOK'
<1>1. ASSUME NEW m \in Mids, TakeSnapshot, mid' = m, position' \in Int,
             avg_entry_price' \in Rationals, realized_pnl' \in Rationals,
             unrealized_pnl' = MarkAt(position', avg_entry_price', m),
             inventory' \in Int, turnover' \in [notional : Int, fill_count : Nat]
      PROVE  unrealized_pnl' \in Rationals /\ snapshots' \in Seq(Snaps) /\ mid' \in Int
  <2>1. unrealized_pnl' \in Rationals /\ mid' \in Int
    BY <1>1, MarkTyped, MidsTyped
  <2> DEFINE snap == [realized   |-> realized_pnl',
                      unrealized |-> unrealized_pnl',
                      total      |-> Plus(realized_pnl', unrealized_pnl'),
                      inventory  |-> inventory',
                      turnover   |-> turnover'.notional,
                      fill_count |-> turnover'.fill_count]
  <2>2. Plus(realized_pnl', unrealized_pnl') \in Rationals
    BY <1>1, <2>1, Closures
  <2>3. snap \in Snaps
    BY <1>1, <2>1, <2>2 DEF Snaps
  <2>4. snapshots' = Append(snapshots, snap)
    BY <1>1 DEF TakeSnapshot
  <2> HIDE DEF snap
  <2> QED
    BY <2>1, <2>3, <2>4, AppendProperties DEF TypeOK
<1>2. ASSUME NEW fill \in Fills, NEW m \in Mids, OnFill(fill, m)
      PROVE  TypeOK'
  <2>1. /\ unrealized_pnl' = MarkAt(position', avg_entry_price', m)
        /\ mid' = m /\ TakeSnapshot
    BY <1>2, Recorded
  <2>2. position' \in Int /\ avg_entry_price' \in Rationals /\ realized_pnl' \in Rationals
    BY <1>2, FillFacts, EntryTyped DEF OnFill, TypeOK
  <2>3. inventory' \in Int /\ peak_long' \in Int /\ peak_short' \in Int
    <3>1. inventory' \in Int /\ -inventory' \in Int
      <4>1. inventory' = inventory + Signed(fill)
        BY <1>2 DEF OnFill, TrackInventory
      <4> QED
        BY <4>1, FillFacts DEF TypeOK
    <3>2. peak_long' = Larger(peak_long, inventory') /\ peak_short' = Larger(peak_short, -inventory')
      BY <1>2 DEF OnFill, TrackInventory
    <3>3. Larger(peak_long, inventory') \in Int
      BY <3>1, LargerFacts DEF TypeOK
    <3>4. Larger(peak_short, -inventory') \in Int
      BY <3>1, LargerFacts DEF TypeOK
    <3> QED
      BY <3>1, <3>2, <3>3, <3>4
  <2>4. turnover' \in [notional : Int, fill_count : Nat]
    <3>1. fill.price * fill.size \in Int
      BY FillFacts
    <3> QED
      BY <1>2, <3>1 DEF OnFill, TrackTurnover, TypeOK
  <2>5. fed' \in Seq(Fills)
    BY <1>2, AppendProperties DEF OnFill, TypeOK
  <2> QED
    BY <1>1, <2>1, <2>2, <2>3, <2>4, <2>5 DEF TypeOK
<1>3. ASSUME NEW m \in Mids, Snapshot(m)
      PROVE  TypeOK'
  <2>1. /\ unrealized_pnl' = MarkAt(position', avg_entry_price', m)
        /\ mid' = m /\ TakeSnapshot
    BY <1>3, Recorded
  <2>2. UNCHANGED <<fed, position, avg_entry_price, realized_pnl,
                    inventory, peak_long, peak_short, turnover>>
    BY <1>3 DEF Snapshot, pnlvars, trackvars
  <2> QED
    BY <1>1, <2>1, <2>2 DEF TypeOK
<1>4. CASE UNCHANGED vars
  BY <1>4 DEF vars, pnlvars, trackvars, TypeOK
<1> QED
  BY <1>2, <1>3, <1>4 DEF Next

--------------------------------------------------------------------------------
(* Cash, stock and profit.                                                      *)

LEMMA FlowsTyped ==
    ASSUME TypeOK
    PROVE  /\ [i \in DOMAIN fed |-> Signed(fed[i])] \in Seq(Int)
           /\ [i \in DOMAIN fed |-> -(Signed(fed[i]) * fed[i].price)] \in Seq(Int)
           /\ [i \in DOMAIN fed |-> fed[i].price * fed[i].size] \in Seq(Int)
           /\ Bought \in Int /\ Cash \in Int /\ Traded \in Int
<1>1. DOMAIN fed = 1 .. Len(fed) /\ Len(fed) \in Nat
  BY DEF TypeOK
<1>2. \A i \in DOMAIN fed : /\ Signed(fed[i]) \in Int
                            /\ -(Signed(fed[i]) * fed[i].price) \in Int
                            /\ fed[i].price * fed[i].size \in Int
  <2> SUFFICES ASSUME NEW i \in DOMAIN fed
               PROVE  /\ Signed(fed[i]) \in Int
                      /\ -(Signed(fed[i]) * fed[i].price) \in Int
                      /\ fed[i].price * fed[i].size \in Int
    OBVIOUS
  <2>1. fed[i] \in Fills
    BY <1>1, ElementOfSeq DEF TypeOK
  <2> QED
    BY <2>1, FillFacts
<1>3. [i \in DOMAIN fed |-> Signed(fed[i])] \in Seq(Int)
  BY <1>1, <1>2
<1>4. [i \in DOMAIN fed |-> -(Signed(fed[i]) * fed[i].price)] \in Seq(Int)
  BY <1>1, <1>2
<1>5. [i \in DOMAIN fed |-> fed[i].price * fed[i].size] \in Seq(Int)
  BY <1>1, <1>2
<1> QED
  BY <1>3, <1>4, <1>5, SumFacts DEF Bought, Cash, Traded

\* A fill adds to each flow what it comes to itself.
LEMMA FlowsGrow ==
    ASSUME TypeOK, NEW fill \in Fills, fed' = Append(fed, fill)
    PROVE  /\ Bought' = Bought + Signed(fill)
           /\ Cash' = Cash - Signed(fill) * fill.price
           /\ Traded' = Traded + fill.price * fill.size
           /\ Len(fed') = Len(fed) + 1
<1> DEFINE n == Len(fed)
<1>1. /\ DOMAIN fed = 1 .. n /\ n \in Nat /\ Len(fed') = n + 1 /\ DOMAIN fed' = 1 .. (n + 1)
      /\ fed'[n + 1] = fill /\ \A i \in 1 .. n : fed'[i] = fed[i]
  BY AppendProperties DEF TypeOK
<1>2. /\ Signed(fill) \in Int /\ -(Signed(fill) * fill.price) \in Int
      /\ fill.price * fill.size \in Int /\ Signed(fill) * fill.price \in Int
  BY FillFacts
<1>3. ASSUME NEW old \in Seq(Int), NEW new, NEW v \in Int,
             DOMAIN old = 1 .. n, new = [i \in 1 .. (n + 1) |-> IF i = n + 1 THEN v ELSE old[i]]
      PROVE  SumOf(new) = SumOf(old) + v
  <2>1. Len(old) = n
    BY <1>1, <1>3
  <2>2. new = Append(old, v)
    BY <1>1, <1>3, <2>1
  <2> QED
    BY <2>2, SumFacts
<1>4. Bought' = Bought + Signed(fill)
  <2> DEFINE old == [i \in DOMAIN fed |-> Signed(fed[i])]
             new == [i \in DOMAIN fed' |-> Signed(fed'[i])]
  <2>1. old \in Seq(Int) /\ DOMAIN old = 1 .. n
    BY <1>1, FlowsTyped
  <2>2. new = [i \in 1 .. (n + 1) |-> IF i = n + 1 THEN Signed(fill) ELSE old[i]]
    BY <1>1
  <2>3. Bought = SumOf(old) /\ Bought' = SumOf(new)
    BY DEF Bought
  <2> HIDE DEF old, new
  <2> QED
    BY <1>2, <1>3, <2>1, <2>2, <2>3
<1>5. Cash' = Cash + (-(Signed(fill) * fill.price))
  <2> DEFINE old == [i \in DOMAIN fed |-> -(Signed(fed[i]) * fed[i].price)]
             new == [i \in DOMAIN fed' |-> -(Signed(fed'[i]) * fed'[i].price)]
  <2>1. old \in Seq(Int) /\ DOMAIN old = 1 .. n
    BY <1>1, FlowsTyped
  <2>2. new = [i \in 1 .. (n + 1) |-> IF i = n + 1 THEN -(Signed(fill) * fill.price) ELSE old[i]]
    BY <1>1
  <2>3. Cash = SumOf(old) /\ Cash' = SumOf(new)
    BY DEF Cash
  <2> HIDE DEF old, new
  <2> QED
    BY <1>2, <1>3, <2>1, <2>2, <2>3
<1>6. Traded' = Traded + fill.price * fill.size
  <2> DEFINE old == [i \in DOMAIN fed |-> fed[i].price * fed[i].size]
             new == [i \in DOMAIN fed' |-> fed'[i].price * fed'[i].size]
  <2>1. old \in Seq(Int) /\ DOMAIN old = 1 .. n
    BY <1>1, FlowsTyped
  <2>2. new = [i \in 1 .. (n + 1) |-> IF i = n + 1 THEN fill.price * fill.size ELSE old[i]]
    BY <1>1
  <2>3. Traded = SumOf(old) /\ Traded' = SumOf(new)
    BY DEF Traded
  <2> HIDE DEF old, new
  <2> QED
    BY <1>2, <1>3, <2>1, <2>2, <2>3
<1> QED
  BY <1>1, <1>2, <1>4, <1>5, <1>6, FlowsTyped

\* Average-cost accounting: the cost of the position at its average entry price
\* is what was paid for it, less what it has earned.
Balanced ==
    \E d, q, p : /\ Is(realized_pnl, q, d) /\ Is(avg_entry_price, p, d)
                 /\ q - position * p = Cash * d

Marked == unrealized_pnl = MarkAt(position, avg_entry_price, mid)

\* The five cases of on_fill, in numbers over one denominator.
LEMMA Opened ==
    ASSUME NEW q \in Int, NEW d \in Int, NEW x \in Int, NEW s \in Int, NEW cash \in Int,
           q = cash * d
    PROVE  q - s * (x * d) = (cash - s * x) * d
  OBVIOUS

LEMMA Grown ==
    ASSUME NEW q \in Int, NEW p \in Int, NEW d \in Int, NEW x \in Int, NEW cash \in Int,
           NEW pos \in Int, NEW s \in Int, NEW w \in Int, NEW z \in Int,
           (pos = w /\ s = z) \/ (pos = -w /\ s = -z),
           q - pos * p = cash * d
    PROVE  q * (w + z) - (pos + s) * (w * p + z * (x * d)) = (cash - s * x) * (d * (w + z))
  OBVIOUS

LEMMA Shrunk ==
    ASSUME NEW q \in Int, NEW p \in Int, NEW d \in Int, NEW x \in Int, NEW cash \in Int,
           NEW pos \in Int, NEW s \in Int, q - pos * p = cash * d
    PROVE  (q - s * (x * d - p)) - (pos + s) * p = (cash - s * x) * d
  OBVIOUS

LEMMA ClosedAll ==
    ASSUME NEW q \in Int, NEW p \in Int, NEW d \in Int, NEW x \in Int, NEW cash \in Int,
           NEW pos \in Int, NEW s \in Int, q - pos * p = cash * d
    PROVE  (q + pos * (x * d - p)) - (pos + s) * (x * d) = (cash - s * x) * d
  OBVIOUS

LEMMA FillBalances ==
    ASSUME TypeOK, Balanced, NEW fill \in Fills, NEW m, OnFill(fill, m)
    PROVE  Balanced'
<1>1. PICK d, q, p : /\ Is(realized_pnl, q, d) /\ Is(avg_entry_price, p, d)
                     /\ q - position * p = Cash * d
  BY DEF Balanced
<1> DEFINE s == Signed(fill)
           z == fill.size
           x == fill.price
           w == Abs(position)
           c == Closed(fill)
           gain == x * d - p
<1>2. /\ position' = position + s /\ realized_pnl' = RealizedAfter(fill)
      /\ avg_entry_price' = EntryAfter(fill) /\ Cash' = Cash - s * x
  BY FlowsGrow DEF OnFill
<1>3. /\ s \in Int /\ s # 0 /\ z \in Nat \ {0} /\ x \in Nat \ {0} /\ (s = z \/ s = -z)
      /\ position \in Int /\ w \in Nat
      /\ (position >= 0 => w = position) /\ (position <= 0 => w = -position)
  BY FillFacts, AbsFacts DEF TypeOK
<1>4. d \in Nat \ {0} /\ q \in Int /\ p \in Int /\ gain \in Int /\ x * d \in Int
  BY <1>1, <1>3 DEF Is
<1>5. /\ c \in Nat
      /\ c = IF position = 0 \/ SameSign(position, s) THEN 0 ELSE IF z < w THEN z ELSE w
  BY ClosedFacts
<1>6. Cash \in Int /\ Cash' \in Int
  BY <1>2, <1>3, FlowsTyped
<1>7. Is(realized_pnl', q + c * (IF position > 0 THEN gain ELSE -gain), d)
  BY <1>1, <1>2, RealizedIs
<1>8. Is(Whole(x), x * d, d) /\ Is(Whole(0), 0 * d, d)
  BY <1>3, <1>4, WholeIs
<1>9. avg_entry_price' =
         IF position + s = 0 THEN Zero
         ELSE IF SameSign(position, s) THEN Blended(fill)
         ELSE IF SameSign(position + s, position) THEN avg_entry_price
         ELSE Whole(x)
  BY <1>2 DEF EntryAfter, Reduced
<1>10. Is(Blended(fill), w * p + z * (x * d), d * (w + z))
  BY <1>1, BlendedIs
<1>11. SameSign(position, s) <=> (position > 0 /\ s > 0) \/ (position < 0 /\ s < 0)
  BY DEF SameSign
<1>12. SameSign(position + s, position)
          <=> (position + s > 0 /\ position > 0) \/ (position + s < 0 /\ position < 0)
  BY DEF SameSign
<1> HIDE DEF s, z, x, w, c, gain
<1>13. SUFFICES \E e, r, t : /\ Is(realized_pnl', r, e) /\ Is(avg_entry_price', t, e)
                            /\ r - (position + s) * t = (Cash - s * x) * e
  BY <1>2 DEF Balanced
<1>14. gain = x * d - p
  BY DEF gain
<1>15. CASE position = 0
  <2>1. c = 0 /\ q + 0 = q /\ q = Cash * d
    BY <1>1, <1>3, <1>4, <1>5, <1>6, <1>15
  <2>2. Is(realized_pnl', q, d)
    <3>1. 0 * (-gain) = 0
      BY <1>4
    <3> QED
      BY <1>7, <1>15, <2>1, <3>1
  <2>3. Is(avg_entry_price', x * d, d)
    BY <1>3, <1>8, <1>9, <1>11, <1>12, <1>15
  <2>4. q - (position + s) * (x * d) = (Cash - s * x) * d
    BY <1>3, <1>4, <1>6, <1>15, <2>1, Opened
  <2> QED
    BY <2>2, <2>3, <2>4
<1>16. CASE SameSign(position, s)
  <2>1. c = 0 /\ position + s # 0 /\ position # 0
    BY <1>3, <1>5, <1>11, <1>16
  <2>2. w + z \in Nat \ {0} /\ d * (w + z) \in Nat \ {0}
    <3>1. \A i, j \in Nat \ {0} : i * j \in Nat \ {0}
      OBVIOUS
    <3> QED
      BY <1>3, <1>4, <3>1
  <2>3. Is(realized_pnl', q * (w + z), d * (w + z))
    <3>1. Is(realized_pnl', q, d)
      <4>1. q + 0 * gain = q /\ q + 0 * (-gain) = q
        BY <1>4
      <4> QED
        BY <1>7, <2>1, <4>1
    <3>2. q * (d * (w + z)) = (q * (w + z)) * d /\ q * (w + z) \in Int
      BY <1>4, <2>2
    <3> QED
      BY <2>2, <3>1, <3>2, SameNumber
  <2>4. Is(avg_entry_price', w * p + z * (x * d), d * (w + z))
    BY <1>9, <1>10, <1>16, <2>1
  <2>5. (position = w /\ s = z) \/ (position = -w /\ s = -z)
    BY <1>3, <1>11, <1>16
  <2>6. q * (w + z) - (position + s) * (w * p + z * (x * d)) = (Cash - s * x) * (d * (w + z))
    BY <1>1, <1>3, <1>4, <1>6, <2>5, Grown
  <2> QED
    BY <2>3, <2>4, <2>6
<1>17. CASE position # 0 /\ ~SameSign(position, s) /\ z < w
  <2>1. c = z /\ SameSign(position + s, position) /\ position + s # 0
    BY <1>3, <1>5, <1>11, <1>12, <1>17
  <2>2. q + c * (IF position > 0 THEN gain ELSE -gain) = q - s * gain
    <3>1. IF position > 0 THEN s = -z ELSE s = z
      BY <1>3, <1>11, <1>17
    <3>2. z * gain \in Int /\ z * (-gain) = -(z * gain) /\ (-z) * gain = -(z * gain)
      BY <1>3, <1>4
    <3> QED
      BY <1>4, <2>1, <3>1, <3>2
  <2>3. Is(realized_pnl', q - s * (x * d - p), d)
    BY <1>7, <1>14, <2>2
  <2>4. Is(avg_entry_price', p, d)
    BY <1>1, <1>9, <1>17, <2>1
  <2>5. (q - s * (x * d - p)) - (position + s) * p = (Cash - s * x) * d
    BY <1>1, <1>3, <1>4, <1>6, Shrunk
  <2> QED
    BY <2>3, <2>4, <2>5
<1>18. CASE position # 0 /\ ~SameSign(position, s) /\ ~(z < w)
  <2>1. c = w
    BY <1>5, <1>18
  <2>2. q + c * (IF position > 0 THEN gain ELSE -gain) = q + position * gain
    <3>1. IF position > 0 THEN position = w ELSE position = -w
      BY <1>3, <1>18
    <3>2. w * gain \in Int /\ w * (-gain) = -(w * gain) /\ (-w) * gain = -(w * gain)
      BY <1>3, <1>4
    <3> QED
      BY <1>4, <2>1, <3>1, <3>2
  <2>3. Is(realized_pnl', q + position * (x * d - p), d)
    BY <1>7, <1>14, <2>2
  <2>4. (q + position * (x * d - p)) - (position + s) * (x * d) = (Cash - s * x) * d
    BY <1>1, <1>3, <1>4, <1>6, ClosedAll
  <2>5. CASE position + s = 0
    <3>1. Is(avg_entry_price', 0 * d, d)
      BY <1>8, <1>9, <2>5 DEF Zero
    <3>2. (position + s) * (x * d) = (position + s) * (0 * d)
      BY <1>4, <2>5
    <3> QED
      BY <2>3, <2>4, <3>1, <3>2
  <2>6. CASE position + s # 0
    <3>1. ~SameSign(position + s, position)
      BY <1>3, <1>11, <1>12, <1>18
    <3>2. Is(avg_entry_price', x * d, d)
      BY <1>8, <1>9, <1>18, <2>6, <3>1
    <3> QED
      BY <2>3, <2>4, <3>2
  <2> QED
    BY <2>5, <2>6
<1> QED
  BY <1>15, <1>16, <1>17, <1>18

LEMMA BalancedTotal ==
    ASSUME TypeOK, Balanced, Marked
    PROVE  TotalIsCashPlusStock
<1>1. PICK d, q, p : /\ Is(realized_pnl, q, d) /\ Is(avg_entry_price, p, d)
                     /\ q - position * p = Cash * d
  BY DEF Balanced
<1>2. /\ d \in Nat \ {0} /\ q \in Int /\ p \in Int /\ position \in Int /\ mid \in Int
      /\ Cash \in Int
  BY <1>1, FlowsTyped DEF Is, TypeOK
<1>3. Is(Whole(mid), mid * d, d) /\ mid * d \in Int
  BY <1>2, WholeIs
<1>4. Is(unrealized_pnl, position * (mid * d - p), d)
  <2>1. CASE position = 0
    <3>1. unrealized_pnl = Whole(0) /\ 0 * d = position * (mid * d - p)
      BY <1>2, <1>3, <2>1 DEF Marked, MarkAt, Zero
    <3>2. Is(Whole(0), 0 * d, d)
      BY <1>2, WholeIs
    <3> QED
      BY <3>1, <3>2
  <2>2. CASE position > 0
    <3>1. Is(Scaled(position, Minus(Whole(mid), avg_entry_price)), position * (mid * d - p), d)
      BY <1>1, <1>2, <1>3, MinusIs, ScaledIs
    <3> QED
      BY <2>2, <3>1 DEF Marked, MarkAt
  <2>3. CASE position < 0
    <3>1. Is(Scaled(-position, Minus(avg_entry_price, Whole(mid))), (-position) * (p - mid * d), d)
      <4>1. -position \in Int
        BY <1>2
      <4> QED
        BY <1>1, <1>3, <4>1, MinusIs, ScaledIs
    <3>2. (-position) * (p - mid * d) = position * (mid * d - p)
      BY <1>2, <1>3
    <3>3. unrealized_pnl = Scaled(-position, Minus(avg_entry_price, Whole(mid)))
      BY <1>2, <2>3 DEF Marked, MarkAt
    <3> QED
      BY <3>1, <3>2, <3>3
  <2> QED
    BY <1>2, <2>1, <2>2, <2>3
<1>5. q + position * (mid * d - p) = (Cash + position * mid) * d
  BY <1>1, <1>2
<1>6. Cash + position * mid \in Int
  BY <1>2
<1> QED
  BY <1>1, <1>4, <1>5, <1>6, PlusWhole DEF TotalIsCashPlusStock

LEMMA SnapshotKeeps ==
    ASSUME NEW m, Snapshot(m)
    PROVE  UNCHANGED <<fed, position, avg_entry_price, realized_pnl,
                       inventory, peak_long, peak_short, turnover>>
  BY DEF Snapshot, pnlvars, trackvars

\* The inductive invariant behind the profit.
ProfitInv == TypeOK /\ Balanced /\ Marked

LEMMA ProfitInitially ==
    ASSUME Init
    PROVE  ProfitInv
<1>1. TypeOK
  BY InitTyped
<1>2. Cash = 0
  <2>1. [i \in DOMAIN fed |-> -(Signed(fed[i]) * fed[i].price)] = <<>>
    BY DEF Init
  <2> QED
    BY <2>1, SumFacts DEF Cash
<1>3. Balanced
  <2>1. Is(Zero, 0 * 1, 1) /\ 0 - 0 * 0 = 0 * 1 /\ 0 * 1 = 0
    BY WholeIs DEF Zero
  <2>2. realized_pnl = Zero /\ avg_entry_price = Zero /\ position = 0
    BY DEF Init
  <2> QED
    BY <1>2, <2>1, <2>2 DEF Balanced
<1>4. Marked
  BY DEF Init, Marked, MarkAt
<1> QED
  BY <1>1, <1>3, <1>4 DEF ProfitInv

LEMMA StepMarks ==
    ASSUME Marked, [Next]_vars
    PROVE  Marked'
<1>1. CASE Next
  <2>1. PICK m : mid' = m /\ unrealized_pnl' = MarkAt(position', avg_entry_price', m)
    BY <1>1, Recorded DEF Next
  <2> QED
    BY <2>1 DEF Marked, MarkAt
<1>2. CASE UNCHANGED vars
  BY <1>2 DEF vars, pnlvars, Marked, MarkAt
<1> QED
  BY <1>1, <1>2

LEMMA StepBalances ==
    ASSUME TypeOK, Balanced, [Next]_vars
    PROVE  Balanced'
<1>1. CASE \E fill \in Fills, m \in Mids : OnFill(fill, m)
  BY <1>1, FillBalances
<1>2. CASE (\E m \in Mids : Snapshot(m)) \/ UNCHANGED vars
  <2>1. UNCHANGED <<fed, position, avg_entry_price, realized_pnl>>
    BY <1>2, SnapshotKeeps DEF vars, pnlvars
  <2> QED
    BY <2>1 DEF Balanced, Cash
<1> QED
  BY <1>1, <1>2 DEF Next

\* Whatever fills the recorder is fed and whenever it marks, its state keeps its
\* types.
THEOREM MetricsTypes == Spec => []TypeOK
<1>1. Init => TypeOK
  BY InitTyped
<1>2. TypeOK /\ [Next]_vars => TypeOK'
  BY NextTyped
<1> QED
  BY <1>1, <1>2, PTL DEF Spec

\* Average-cost accounting (pnl.py:46-86) invents no money.
THEOREM ProfitIsCashPlusStock == Spec => []TotalIsCashPlusStock
<1>1. Init => ProfitInv
  BY ProfitInitially
<1>2. ProfitInv /\ [Next]_vars => ProfitInv'
  BY NextTyped, StepBalances, StepMarks DEF ProfitInv
<1>3. ProfitInv => TotalIsCashPlusStock
  BY BalancedTotal DEF ProfitInv
<1> QED
  BY <1>1, <1>2, <1>3, PTL DEF Spec

--------------------------------------------------------------------------------
(* The average entry price.                                                     *)

\* The prices of the fills on the position's own side.
Entries == {fed[i].price : i \in {j \in DOMAIN fed : SameSign(Signed(fed[j]), position)}}

Averaged ==
    /\ position # 0 => /\ \E price \in Entries : AtMost(Whole(price), avg_entry_price)
                       /\ \E price \in Entries : AtMost(avg_entry_price, Whole(price))
    /\ position = 0 => avg_entry_price = Zero

LEMMA EntriesTyped ==
    ASSUME TypeOK
    PROVE  Entries \subseteq Int
<1> SUFFICES ASSUME NEW i \in DOMAIN fed
             PROVE  fed[i].price \in Int
  BY DEF Entries
<1>1. fed[i] \in Fills
  BY ElementOfSeq DEF TypeOK
<1> QED
  BY <1>1, FillFacts

\* What a fill does to them.
LEMMA EntriesAfter ==
    ASSUME TypeOK, NEW fill \in Fills, fed' = Append(fed, fill), position' \in Int
    PROVE  /\ SameSign(position', position) => Entries \subseteq Entries'
           /\ SameSign(Signed(fill), position') => fill.price \in Entries'
<1> DEFINE n == Len(fed)
<1>1. /\ n \in Nat /\ DOMAIN fed = 1 .. n /\ DOMAIN fed' = 1 .. (n + 1)
      /\ fed'[n + 1] = fill /\ \A i \in 1 .. n : fed'[i] = fed[i]
  BY AppendProperties DEF TypeOK
<1>2. ASSUME SameSign(position', position), NEW i \in DOMAIN fed,
             SameSign(Signed(fed[i]), position)
      PROVE  fed[i].price \in Entries'
  <2>1. i \in DOMAIN fed' /\ fed'[i] = fed[i]
    BY <1>1
  <2>2. SameSign(Signed(fed'[i]), position')
    BY <1>2, <2>1 DEF SameSign, TypeOK
  <2> QED
    BY <2>1, <2>2 DEF Entries
<1>3. ASSUME SameSign(Signed(fill), position')
      PROVE  fill.price \in Entries'
  <2>1. n + 1 \in DOMAIN fed' /\ fed'[n + 1] = fill
    BY <1>1
  <2> QED
    BY <1>3, <2>1 DEF Entries
<1> QED
  BY <1>2, <1>3 DEF Entries

\* A blended price is at least (at most) a number that both the average and the
\* new price are at least (at most).
LEMMA BlendedBetween ==
    ASSUME TypeOK, NEW fill \in Fills, NEW k \in Int
    PROVE  /\ AtMost(Whole(k), avg_entry_price) /\ k <= fill.price
                 => AtMost(Whole(k), Blended(fill))
           /\ AtMost(avg_entry_price, Whole(k)) /\ fill.price <= k
                 => AtMost(Blended(fill), Whole(k))
<1>1. PICK d, p, q, r : /\ Is(avg_entry_price, p, d) /\ Is(realized_pnl, q, d)
                        /\ Is(realized_pnl, r, d)
  BY CommonDenominator DEF TypeOK
<1> DEFINE w == Abs(position)
           z == fill.size
           x == fill.price
           e == d * (w + z)
           b == w * p + z * (x * d)
<1>2. /\ w \in Nat /\ z \in Nat \ {0} /\ x \in Nat \ {0}
      /\ d \in Nat \ {0} /\ p \in Int /\ x * d \in Int /\ k * d \in Int
  <2>1. w \in Nat /\ z \in Nat \ {0} /\ x \in Nat \ {0}
    BY AbsFacts, FillFacts DEF TypeOK
  <2>2. d \in Nat \ {0} /\ p \in Int
    BY <1>1 DEF Is
  <2> HIDE DEF w, z, x
  <2> QED
    BY <2>1, <2>2
<1>3. Is(Blended(fill), b, e)
  BY <1>1, BlendedIs
<1> HIDE DEF w, z, x
<1>4. e \in Nat \ {0} /\ b \in Int
  <2>1. \A i, j \in Nat \ {0} : i * j \in Nat \ {0}
    OBVIOUS
  <2>2. w + z \in Nat \ {0}
    BY <1>2
  <2> QED
    BY <1>2, <2>1, <2>2
<1>5. Is(Whole(k), k * d, d)
  BY <1>2, WholeIs
<1>6. Is(Whole(k), k * e, e)
  BY <1>4, WholeIs
<1>7. /\ Below(avg_entry_price, Whole(k)) <=> p < k * d
      /\ Below(Whole(k), avg_entry_price) <=> k * d < p
  BY <1>1, <1>5, BelowIs
<1>8. /\ Below(Blended(fill), Whole(k)) <=> b < k * e
      /\ Below(Whole(k), Blended(fill)) <=> k * e < b
  BY <1>3, <1>6, BelowIs
<1>9. k * e = w * (k * d) + z * (k * d) /\ k * e \in Int
  BY <1>2
<1>10. /\ k <= x => k * d <= x * d
       /\ x <= k => x * d <= k * d
  BY <1>2, ScaleOrder
<1>11. \A i, j \in Int, l \in Nat : i <= j => l * i <= l * j
  OBVIOUS
<1> HIDE DEF b, e
<1>12. ASSUME ~(p < k * d), k <= x
       PROVE  ~(b < k * e)
  <2>1. k * d <= p /\ k * d <= x * d
    BY <1>2, <1>10, <1>12
  <2>2. w * (k * d) <= w * p /\ z * (k * d) <= z * (x * d)
    BY <1>2, <1>11, <2>1
  <2> QED
    <3> DEFINE a1 == w * (k * d)
               a2 == w * p
               a3 == z * (k * d)
               a4 == z * (x * d)
    <3>1. a1 \in Int /\ a2 \in Int /\ a3 \in Int /\ a4 \in Int
      BY <1>2
    <3>2. k * e = a1 + a3 /\ b = a2 + a4 /\ a1 <= a2 /\ a3 <= a4
      BY <1>9, <2>2 DEF b
    <3> HIDE DEF a1, a2, a3, a4
    <3> QED
      BY <3>1, <3>2
<1>13. ASSUME ~(k * d < p), x <= k
       PROVE  ~(k * e < b)
  <2>1. p <= k * d /\ x * d <= k * d
    BY <1>2, <1>10, <1>13
  <2>2. w * p <= w * (k * d) /\ z * (x * d) <= z * (k * d)
    BY <1>2, <1>11, <2>1
  <2> QED
    <3> DEFINE a1 == w * (k * d)
               a2 == w * p
               a3 == z * (k * d)
               a4 == z * (x * d)
    <3>1. a1 \in Int /\ a2 \in Int /\ a3 \in Int /\ a4 \in Int
      BY <1>2
    <3>2. k * e = a1 + a3 /\ b = a2 + a4 /\ a2 <= a1 /\ a4 <= a3
      BY <1>9, <2>2 DEF b
    <3> HIDE DEF a1, a2, a3, a4
    <3> QED
      BY <3>1, <3>2
<1> QED
  BY <1>7, <1>8, <1>12, <1>13 DEF AtMost, x

LEMMA FillAverages ==
    ASSUME TypeOK, Averaged, NEW fill \in Fills, NEW m, OnFill(fill, m)
    PROVE  Averaged'
<1> DEFINE s == Signed(fill)
           x == fill.price
<1>1. /\ position' = position + s /\ fed' = Append(fed, fill)
      /\ avg_entry_price' = EntryAfter(fill)
  BY DEF OnFill
<1>2. s \in Int /\ s # 0 /\ x \in Int /\ position \in Int
  BY FillFacts DEF TypeOK
<1>3. position' \in Int
  BY <1>1, <1>2
<1>4. /\ SameSign(position', position) => Entries \subseteq Entries'
      /\ SameSign(s, position') => x \in Entries'
  BY <1>1, <1>3, EntriesAfter
<1>5. avg_entry_price' =
         IF position' = 0 THEN Zero
         ELSE IF SameSign(position, s) THEN Blended(fill)
         ELSE IF SameSign(position', position) THEN avg_entry_price
         ELSE Whole(x)
  BY <1>1 DEF EntryAfter, Reduced
<1> HIDE DEF s, x
<1>6. \A a, b \in Int : SameSign(a, b) <=> ((a > 0 /\ b > 0) \/ (a < 0 /\ b < 0))
  BY DEF SameSign
<1>7. CASE position' = 0
  BY <1>5, <1>7 DEF Averaged
<1>8. CASE position' # 0 /\ SameSign(position, s)
  <2>1. /\ SameSign(position', position) /\ SameSign(s, position') /\ position # 0
        /\ avg_entry_price' = Blended(fill)
    BY <1>1, <1>2, <1>3, <1>5, <1>6, <1>8
  <2>2. \E price \in Entries' : AtMost(Whole(price), Blended(fill))
    <3>1. PICK y \in Entries : AtMost(Whole(y), avg_entry_price)
      BY <2>1 DEF Averaged
    <3>2. y \in Int /\ y \in Entries' /\ x \in Entries'
      BY <1>4, <2>1, EntriesTyped
    <3>3. CASE y <= x
      BY <3>1, <3>2, <3>3, BlendedBetween DEF x
    <3>4. CASE x <= y
      <4>1. AtMost(Whole(x), Whole(y)) /\ Whole(x) \in Rationals /\ Whole(y) \in Rationals
        BY <1>2, <3>2, <3>4, Closures DEF AtMost, Below, Whole
      <4>2. AtMost(Whole(x), avg_entry_price)
        BY <3>1, <4>1, Ordered DEF TypeOK
      <4> QED
        BY <1>2, <3>2, <4>2, BlendedBetween DEF x
    <3> QED
      BY <1>2, <3>2, <3>3, <3>4
  <2>3. \E price \in Entries' : AtMost(Blended(fill), Whole(price))
    <3>1. PICK y \in Entries : AtMost(avg_entry_price, Whole(y))
      BY <2>1 DEF Averaged
    <3>2. y \in Int /\ y \in Entries' /\ x \in Entries'
      BY <1>4, <2>1, EntriesTyped
    <3>3. CASE x <= y
      BY <3>1, <3>2, <3>3, BlendedBetween DEF x
    <3>4. CASE y <= x
      <4>1. AtMost(Whole(y), Whole(x)) /\ Whole(x) \in Rationals /\ Whole(y) \in Rationals
        BY <1>2, <3>2, <3>4, Closures DEF AtMost, Below, Whole
      <4>2. AtMost(avg_entry_price, Whole(x))
        BY <3>1, <4>1, Ordered DEF TypeOK
      <4> QED
        BY <1>2, <3>2, <4>2, BlendedBetween DEF x
    <3> QED
      BY <1>2, <3>2, <3>3, <3>4
  <2> QED
    BY <1>8, <2>1, <2>2, <2>3 DEF Averaged, AtMost, Whole, Below
<1>9. CASE position' # 0 /\ ~SameSign(position, s) /\ SameSign(position', position)
  <2>1. avg_entry_price' = avg_entry_price /\ Entries \subseteq Entries' /\ position # 0
    BY <1>2, <1>3, <1>4, <1>5, <1>6, <1>9
  <2> QED
    BY <1>9, <2>1 DEF Averaged, AtMost, Whole, Below
<1>10. CASE position' # 0 /\ ~SameSign(position, s) /\ ~SameSign(position', position)
  <2>1. SameSign(s, position')
    BY <1>1, <1>2, <1>3, <1>6, <1>10
  <2>2. avg_entry_price' = Whole(x) /\ x \in Entries'
    BY <1>4, <1>5, <1>10, <2>1
  <2>3. AtMost(Whole(x), Whole(x))
    BY <1>2, Closures, Ordered
  <2> QED
    BY <1>10, <2>2, <2>3 DEF Averaged, AtMost, Whole, Below
<1> QED
  BY <1>7, <1>8, <1>9, <1>10

LEMMA StepAverages ==
    ASSUME TypeOK, Averaged, [Next]_vars
    PROVE  Averaged'
<1>1. CASE \E fill \in Fills, m \in Mids : OnFill(fill, m)
  BY <1>1, FillAverages
<1>2. CASE (\E m \in Mids : Snapshot(m)) \/ UNCHANGED vars
  <2>1. UNCHANGED <<fed, position, avg_entry_price>>
    BY <1>2, SnapshotKeeps DEF vars, pnlvars
  <2> QED
    BY <2>1 DEF Averaged, Entries, AtMost, Whole, Below
<1> QED
  BY <1>1, <1>2 DEF Next

\* The average entry price (pnl.py:46-77) never leaves the range of the prices
\* on the position's own side.
THEOREM EntryStaysAnAverage == Spec => []EntryIsAnAverage
<1>1. Init => TypeOK /\ Averaged /\ Marked
  BY InitTyped DEF Init, Averaged, Marked, MarkAt
<1>2. TypeOK /\ Averaged /\ Marked /\ [Next]_vars => (TypeOK /\ Averaged /\ Marked)'
  BY NextTyped, StepAverages, StepMarks
<1>3. TypeOK /\ Averaged /\ Marked => EntryIsAnAverage
  BY DEF EntryIsAnAverage, Averaged, Entries, AtMost, Marked, MarkAt
<1> QED
  BY <1>1, <1>2, <1>3, PTL DEF Spec

--------------------------------------------------------------------------------
(* What the trackers and the report agree on.                                   *)

\* Elements none of which is above a bound add up to at most that many bounds.
LEMMA SumBounded ==
    ASSUME NEW values \in Seq(Int), NEW b \in Int,
           \A i \in 1 .. Len(values) : values[i] <= b
    PROVE  SumOf(values) <= b * Len(values)
<1> DEFINE n == Len(values)
<1>1. n \in Nat /\ \A i \in 1 .. n : values[i] \in Int /\ values[i] <= b
  BY ElementOfSeq
<1>2. PICK f \in [0 .. n -> Int] :
         /\ SumOf(values) = f[n] /\ f[0] = 0
         /\ \A i \in 1 .. n : f[i] = f[i - 1] + values[i]
  BY SumLoop
<1> HIDE DEF n
<1>3. SUFFICES ASSUME ~(f[n] <= b * n) PROVE FALSE
  BY <1>2 DEF n
<1> DEFINE T == {j \in 0 .. n : ~(f[j] <= b * j)}
<1>4. T \in SUBSET Nat /\ n \in T
  BY <1>1, <1>3
<1>5. PICK j \in T : \A l \in T : j <= l
  <2> HIDE DEF T
  <2> QED
    BY <1>4, LeastNumber
<1>6. j \in 0 .. n /\ ~(f[j] <= b * j)
  BY <1>5
<1>7. j # 0
  <2>1. b * 0 = 0
    OBVIOUS
  <2> QED
    BY <1>2, <1>6, <2>1
<1>8. j \in 1 .. n /\ j - 1 \in 0 .. n
  BY <1>1, <1>6, <1>7
<1>9. f[j - 1] <= b * (j - 1)
  BY <1>5, <1>8
<1>10. f[j] = f[j - 1] + values[j] /\ values[j] \in Int /\ values[j] <= b /\ f[j - 1] \in Int
  BY <1>1, <1>2, <1>8
<1>11. b * (j - 1) + b = b * j /\ b * j \in Int /\ b * (j - 1) \in Int
  BY <1>8
<1> QED
  BY <1>6, <1>9, <1>10, <1>11

Peak == Larger(peak_long, peak_short)

\* The peak is above the inventory and every recorded one, and is one of them.
Peaked ==
    /\ inventory <= peak_long /\ -inventory <= peak_short
    /\ peak_long >= 0 /\ peak_short >= 0
    /\ \A i \in DOMAIN snapshots : Abs(snapshots[i].inventory) <= Peak
    /\ IF snapshots = <<>> THEN Peak = 0
                           ELSE \E i \in DOMAIN snapshots : Abs(snapshots[i].inventory) = Peak

\* The trackers count what the fills come to.
Tracked ==
    /\ position = Bought /\ inventory = position
    /\ turnover.notional = Traded /\ turnover.fill_count = Len(fed)

\* The last snapshot is of the present; before the first there was nothing.
Current ==
    /\ snapshots = <<>> => /\ realized_pnl = Zero /\ unrealized_pnl = Zero
                           /\ turnover = [notional |-> 0, fill_count |-> 0]
    /\ snapshots # <<>> =>
          LET last == snapshots[Len(snapshots)] IN
             /\ last.total = Plus(realized_pnl, unrealized_pnl)
             /\ last.turnover = turnover.notional
             /\ last.fill_count = turnover.fill_count

\* The inductive invariant behind the report.
ReportInv == TypeOK /\ Tracked /\ Peaked /\ Current

LEMMA PeakFacts ==
    ASSUME NEW i \in Int, NEW long \in Int, NEW short \in Int,
           i <= long, -i <= short
    PROVE  Larger(long, short) \in Int /\ Abs(i) <= Larger(long, short)
  BY DEF Larger, Abs

\* A new inventory raises the peak to itself or leaves it alone.
LEMMA PeakRaised ==
    ASSUME NEW i \in Int, NEW long \in Int, NEW short \in Int, long >= 0, short >= 0
    PROVE  LET before == Larger(long, short)
               after  == Larger(Larger(long, i), Larger(short, -i))
           IN  /\ after = before \/ after = Abs(i)
               /\ before <= after /\ before >= 0 /\ Abs(i) <= after
               /\ before \in Int /\ after \in Int
               /\ Larger(long, i) \in Int /\ Larger(short, -i) \in Int
               /\ Larger(long, i) >= 0 /\ Larger(short, -i) >= 0
               /\ i <= Larger(long, i) /\ -i <= Larger(short, -i)
  BY DEF Larger, Abs

\* Every step of the recorder appends one snapshot of the new state.
LEMMA SnapshotTaken ==
    ASSUME TypeOK, TakeSnapshot
    PROVE  /\ snapshots' # <<>> /\ Len(snapshots') = Len(snapshots) + 1
           /\ Len(snapshots) \in Nat
           /\ DOMAIN snapshots = 1 .. Len(snapshots)
           /\ DOMAIN snapshots' = 1 .. (Len(snapshots) + 1)
           /\ \A i \in DOMAIN snapshots : snapshots'[i] = snapshots[i]
           /\ LET last == snapshots'[Len(snapshots) + 1] IN
                 /\ last.total = Plus(realized_pnl', unrealized_pnl')
                 /\ last.inventory = inventory'
                 /\ last.turnover = turnover'.notional
                 /\ last.fill_count = turnover'.fill_count
<1> DEFINE snap == [realized   |-> realized_pnl',
                    unrealized |-> unrealized_pnl',
                    total      |-> Plus(realized_pnl', unrealized_pnl'),
                    inventory  |-> inventory',
                    turnover   |-> turnover'.notional,
                    fill_count |-> turnover'.fill_count]
<1>1. snapshots' = Append(snapshots, snap)
  BY DEF TakeSnapshot
<1>2. /\ snap.total = Plus(realized_pnl', unrealized_pnl')
      /\ snap.inventory = inventory'
      /\ snap.turnover = turnover'.notional
      /\ snap.fill_count = turnover'.fill_count
  OBVIOUS
<1>3. snapshots \in Seq(Snaps) /\ Len(snapshots) \in Nat
      /\ DOMAIN snapshots = 1 .. Len(snapshots)
  BY DEF TypeOK
<1> HIDE DEF snap
<1>4. /\ Len(snapshots') = Len(snapshots) + 1
      /\ DOMAIN snapshots' = 1 .. (Len(snapshots) + 1)
      /\ snapshots'[Len(snapshots) + 1] = snap
      /\ \A i \in DOMAIN snapshots : snapshots'[i] = snapshots[i]
  BY <1>1, <1>3
<1>5. snapshots' # <<>>
  BY <1>3, <1>4
<1> QED
  BY <1>2, <1>3, <1>4, <1>5

LEMMA CurrentAfter ==
    ASSUME TypeOK, TakeSnapshot
    PROVE  Current'
  BY SnapshotTaken DEF Current

\* The peaks after a step that records the inventory inv.
LEMMA PeakedAfter ==
    ASSUME TypeOK, Peaked, TakeSnapshot, inventory' \in Int,
           \/ /\ peak_long' = Larger(peak_long, inventory')
              /\ peak_short' = Larger(peak_short, -inventory')
           \/ UNCHANGED <<inventory, peak_long, peak_short>>
    PROVE  Peaked'
<1> DEFINE n == Len(snapshots)
           i == inventory'
<1>1. /\ n \in Nat /\ DOMAIN snapshots = 1 .. n /\ DOMAIN snapshots' = 1 .. (n + 1)
      /\ \A j \in DOMAIN snapshots : snapshots'[j] = snapshots[j]
      /\ snapshots'[n + 1].inventory = i /\ snapshots' # <<>>
  BY SnapshotTaken
<1>2. /\ peak_long \in Int /\ peak_short \in Int /\ inventory \in Int /\ i \in Int
      /\ peak_long >= 0 /\ peak_short >= 0
      /\ inventory <= peak_long /\ -inventory <= peak_short
  BY DEF TypeOK, Peaked
<1>3. \A j \in DOMAIN snapshots : Abs(snapshots[j].inventory) \in Int
  <2> SUFFICES ASSUME NEW j \in DOMAIN snapshots PROVE Abs(snapshots[j].inventory) \in Int
    OBVIOUS
  <2>1. snapshots[j] \in Snaps
    BY <1>1, ElementOfSeq DEF TypeOK
  <2>2. snapshots[j].inventory \in Int
    BY <2>1 DEF Snaps
  <2> QED
    BY <2>2, AbsFacts
<1>4. Abs(i) \in Nat
  BY <1>2, AbsFacts
<1>5. /\ Peak' = Peak \/ Peak' = Abs(i)
      /\ Peak <= Peak' /\ Peak >= 0 /\ Abs(i) <= Peak'
      /\ Peak \in Int /\ Peak' \in Int
      /\ inventory' <= peak_long' /\ -inventory' <= peak_short'
      /\ peak_long' >= 0 /\ peak_short' >= 0
  <2>1. CASE /\ peak_long' = Larger(peak_long, inventory')
             /\ peak_short' = Larger(peak_short, -inventory')
    <3>1. Peak' = Larger(Larger(peak_long, i), Larger(peak_short, -i))
      BY <2>1 DEF Peak, Larger
    <3> HIDE DEF i
    <3> QED
      BY <1>2, <2>1, <3>1, PeakRaised DEF Peak, i
  <2>2. CASE UNCHANGED <<inventory, peak_long, peak_short>>
    <3>1. Peak' = Peak /\ i = inventory
      BY <2>2 DEF Peak, Larger
    <3>2. Peak \in Int /\ Peak >= 0 /\ Abs(inventory) <= Peak
      BY <1>2, PeakFacts, LargerFacts DEF Peak
    <3> QED
      BY <1>2, <2>2, <3>1, <3>2
  <2> QED
    BY <2>1, <2>2
<1>6. \A j \in DOMAIN snapshots' : Abs(snapshots'[j].inventory) <= Peak'
  <2> SUFFICES ASSUME NEW j \in DOMAIN snapshots' PROVE Abs(snapshots'[j].inventory) <= Peak'
    OBVIOUS
  <2>1. CASE j = n + 1
    BY <1>1, <1>5, <2>1
  <2>2. CASE j # n + 1
    <3>1. j \in DOMAIN snapshots
      BY <1>1, <2>2
    <3>2. Abs(snapshots[j].inventory) <= Peak /\ Abs(snapshots[j].inventory) \in Int
      BY <1>3, <3>1 DEF Peaked
    <3> QED
      BY <1>1, <1>5, <3>1, <3>2
  <2> QED
    BY <2>1, <2>2
<1>7. \E j \in DOMAIN snapshots' : Abs(snapshots'[j].inventory) = Peak'
  <2>1. CASE Peak' = Abs(i)
    <3>1. n + 1 \in DOMAIN snapshots'
      BY <1>1
    <3> QED
      BY <1>1, <2>1, <3>1
  <2>2. CASE Peak' # Abs(i)
    <3>1. Peak' = Peak /\ Peak # 0
      BY <1>4, <1>5, <2>2
    <3>2. snapshots # <<>>
      BY <3>1 DEF Peaked
    <3>3. PICK j \in DOMAIN snapshots : Abs(snapshots[j].inventory) = Peak
      BY <3>2 DEF Peaked
    <3>4. j \in DOMAIN snapshots' /\ snapshots'[j] = snapshots[j]
      BY <1>1
    <3> QED
      BY <3>1, <3>3, <3>4
  <2> QED
    BY <2>1, <2>2
<1> QED
  BY <1>1, <1>5, <1>6, <1>7 DEF Peaked

LEMMA FillTracks ==
    ASSUME TypeOK, Tracked, NEW fill \in Fills, NEW m, OnFill(fill, m)
    PROVE  Tracked'
<1>1. /\ position' = position + Signed(fill)
      /\ inventory' = inventory + Signed(fill)
      /\ fed' = Append(fed, fill)
      /\ turnover' = [notional   |-> turnover.notional + fill.price * fill.size,
                      fill_count |-> turnover.fill_count + 1]
  BY DEF OnFill, TrackInventory, TrackTurnover
<1>2. /\ Bought' = Bought + Signed(fill)
      /\ Traded' = Traded + fill.price * fill.size
      /\ Len(fed') = Len(fed) + 1
  BY <1>1, FlowsGrow
<1> QED
  BY <1>1, <1>2 DEF Tracked

LEMMA ReportInitially ==
    ASSUME Init
    PROVE  ReportInv
<1>1. TypeOK
  BY InitTyped
<1>2. Bought = 0 /\ Traded = 0 /\ Len(fed) = 0
  <2>1. /\ [i \in DOMAIN fed |-> Signed(fed[i])] = <<>>
        /\ [i \in DOMAIN fed |-> fed[i].price * fed[i].size] = <<>>
        /\ Len(fed) = 0
    BY DEF Init
  <2> QED
    BY <2>1, SumFacts DEF Bought, Traded
<1>3. Tracked
  BY <1>2 DEF Init, Tracked
<1>4. Peaked
  <2>1. Peak = 0
    BY DEF Init, Peak, Larger
  <2>2. DOMAIN snapshots = {}
    BY DEF Init
  <2> QED
    BY <2>1, <2>2 DEF Init, Peaked
<1>5. Current
  BY DEF Init, Current
<1> QED
  BY <1>1, <1>3, <1>4, <1>5 DEF ReportInv

LEMMA ReportKept ==
    ASSUME ReportInv, [Next]_vars
    PROVE  ReportInv'
<1>1. TypeOK /\ Tracked /\ Peaked /\ Current
  BY DEF ReportInv
<1>2. TypeOK'
  BY <1>1, NextTyped
<1>3. ASSUME NEW fill \in Fills, NEW m \in Mids, OnFill(fill, m)
      PROVE  Tracked' /\ Peaked' /\ Current'
  <2>1. /\ TakeSnapshot
        /\ peak_long' = Larger(peak_long, inventory')
        /\ peak_short' = Larger(peak_short, -inventory')
    BY <1>3 DEF OnFill, TrackInventory
  <2>2. inventory' \in Int
    BY <1>2 DEF TypeOK
  <2> QED
    BY <1>1, <1>3, <2>1, <2>2, FillTracks, PeakedAfter, CurrentAfter
<1>4. ASSUME NEW m \in Mids, Snapshot(m)
      PROVE  Tracked' /\ Peaked' /\ Current'
  <2>1. TakeSnapshot
    BY <1>4, Recorded
  <2>2. UNCHANGED <<fed, position, inventory, peak_long, peak_short, turnover>>
    BY <1>4, SnapshotKeeps
  <2>3. inventory' \in Int
    BY <1>2 DEF TypeOK
  <2>4. Tracked'
    BY <1>1, <2>2 DEF Tracked, Bought, Traded
  <2>5. Peaked'
    BY <1>1, <2>1, <2>2, <2>3, PeakedAfter
  <2> QED
    BY <1>1, <2>1, <2>4, <2>5, CurrentAfter
<1>5. CASE UNCHANGED vars
  <2>1. UNCHANGED <<fed, position, realized_pnl, unrealized_pnl, inventory, peak_long,
                    peak_short, turnover, snapshots>>
    BY <1>5 DEF vars, pnlvars, trackvars
  <2>2. Tracked'
    BY <1>1, <2>1 DEF Tracked, Bought, Traded
  <2>3. Peaked'
    BY <1>1, <2>1 DEF Peaked, Peak, Larger, Abs
  <2>4. Current'
    BY <1>1, <2>1 DEF Current, Plus, Zero, Whole
  <2> QED
    BY <1>2, <2>2, <2>3, <2>4 DEF ReportInv
<1> QED
  BY <1>2, <1>3, <1>4, <1>5 DEF ReportInv, Next

LEMMA PeakReported ==
    ASSUME TypeOK, Peaked
    PROVE  /\ PeakAbsInventory(snapshots) = Peak
           /\ ~Below(Whole(PeakAbsInventory(snapshots)), AvgAbsInventory(snapshots))
<1> DEFINE values == AbsInventories(snapshots)
           n == Len(snapshots)
<1>1. n \in Nat /\ DOMAIN snapshots = 1 .. n
  BY DEF TypeOK
<1>2. \A i \in 1 .. n : Abs(snapshots[i].inventory) \in Nat
  <2> SUFFICES ASSUME NEW i \in 1 .. n PROVE Abs(snapshots[i].inventory) \in Nat
    OBVIOUS
  <2>1. snapshots[i] \in Snaps
    BY <1>1, ElementOfSeq DEF TypeOK
  <2>2. snapshots[i].inventory \in Int
    BY <2>1 DEF Snaps
  <2> QED
    BY <2>2, AbsFacts
<1>3. values = [i \in 1 .. n |-> Abs(snapshots[i].inventory)]
  BY <1>1 DEF AbsInventories
<1>4. values \in Seq(Int) /\ Len(values) = n /\ DOMAIN values = 1 .. n
  BY <1>1, <1>2, <1>3
<1>5. \A i \in 1 .. n : values[i] \in Nat /\ values[i] = Abs(snapshots[i].inventory)
  BY <1>2, <1>3
<1>6. /\ \A i \in 1 .. n : values[i] <= Peak
      /\ IF snapshots = <<>> THEN Peak = 0 ELSE \E i \in 1 .. n : values[i] = Peak
      /\ Peak \in Nat
  <2>1. Peak \in Nat
    <3>1. peak_long \in Int /\ peak_short \in Int /\ peak_long >= 0
      BY DEF Peaked, TypeOK
    <3> QED
      BY <3>1, LargerFacts DEF Peak
  <2> QED
    BY <1>1, <1>5, <2>1 DEF Peaked
<1> HIDE DEF values, n
<1>7. CASE snapshots = <<>>
  <2>1. PeakAbsInventory(snapshots) = 0 /\ AvgAbsInventory(snapshots) = Whole(0)
    BY <1>7 DEF PeakAbsInventory, AvgAbsInventory, Zero
  <2> QED
    BY <1>6, <1>7, <2>1 DEF Below, Whole
<1>8. CASE snapshots # <<>>
  <2>1. PeakAbsInventory(snapshots) = Max(Range(values))
    BY <1>8 DEF PeakAbsInventory, values
  <2>2. Range(values) = {values[i] : i \in 1 .. n}
    BY <1>4 DEF Range
  <2>3. Range(values) \in SUBSET (0 .. Peak) /\ Peak \in Range(values)
    BY <1>5, <1>6, <1>8, <2>2
  <2>4. Max(Range(values)) \in 0 .. Peak /\ Peak <= Max(Range(values))
    <3> DEFINE T == Range(values)
    <3> HIDE DEF T
    <3>1. T \in SUBSET (0 .. Peak) /\ Peak \in T
      BY <2>3 DEF T
    <3>2. Max(T) \in T /\ Peak <= Max(T)
      BY <1>6, <3>1, LargestNumber
    <3> QED
      BY <3>1, <3>2 DEF T
  <2>5. PeakAbsInventory(snapshots) = Peak
    BY <1>6, <2>1, <2>4
  <2>6. n \in Nat \ {0}
    BY <1>1, <1>8 DEF n, TypeOK
  <2>7. SumOf(values) \in Int /\ SumOf(values) <= Peak * n
    <3>1. SumOf(values) \in Int
      BY <1>4, SumFacts
    <3>2. SumOf(values) <= Peak * Len(values)
      <4>1. Peak \in Int /\ \A i \in 1 .. Len(values) : values[i] <= Peak
        BY <1>4, <1>6
      <4> QED
        BY <1>4, <4>1, SumBounded
    <3> QED
      BY <1>4, <3>1, <3>2
  <2>8. AvgAbsInventory(snapshots) = Ratio(SumOf(values), n)
    BY <1>8 DEF AvgAbsInventory, values, n
  <2>9. Is(Ratio(SumOf(values), n), SumOf(values), n) /\ Is(Whole(Peak), Peak * n, n)
    BY <1>6, <2>6, <2>7, RatioIs, WholeIs
  <2>10. ~Below(Whole(Peak), Ratio(SumOf(values), n))
    <3>1. Below(Whole(Peak), Ratio(SumOf(values), n)) <=> Peak * n < SumOf(values)
      BY <2>9, BelowIs
    <3>2. Peak * n \in Int
      BY <1>6, <2>6
    <3> QED
      BY <2>7, <3>1, <3>2
  <2> QED
    BY <2>5, <2>8, <2>10
<1> QED
  BY <1>7, <1>8

LEMMA FinalReported ==
    ASSUME TypeOK, Tracked, Current
    PROVE  LET final == Final(snapshots) IN
              /\ final.total = Plus(realized_pnl, unrealized_pnl)
              /\ final.fill_count = Len(fed)
              /\ final.turnover = Traded
<1>1. CASE snapshots = <<>>
  <2>1. Plus(Zero, Zero) = Zero
    <3>1. Is(Zero, 0 * 1, 1) /\ 0 * 1 + 0 * 1 = 0 * 1
      BY WholeIs DEF Zero
    <3> QED
      BY <3>1, PlusWhole DEF Zero
  <2>2. /\ Final(snapshots).total = Zero /\ Final(snapshots).turnover = 0
        /\ Final(snapshots).fill_count = 0
    BY <1>1 DEF Final
  <2> QED
    BY <1>1, <2>1, <2>2 DEF Current, Tracked
<1>2. CASE snapshots # <<>>
  <2>1. /\ Final(snapshots).total = snapshots[Len(snapshots)].total
        /\ Final(snapshots).turnover = snapshots[Len(snapshots)].turnover
        /\ Final(snapshots).fill_count = snapshots[Len(snapshots)].fill_count
    BY <1>2 DEF Final, Last
  <2> QED
    BY <1>2, <2>1 DEF Current, Tracked
<1> QED
  BY <1>1, <1>2

\* The inventory kept twice and its peak kept twice agree with each other and
\* with the fills (inventory.py:38-45, report.py:83-97), and the last snapshot is
\* the run.
THEOREM TrackersStayAgreed == Spec => []TrackersAgree
<1>1. Init => ReportInv
  BY ReportInitially
<1>2. ReportInv /\ [Next]_vars => ReportInv'
  BY ReportKept
<1>3. ReportInv => TrackersAgree
  BY PeakReported, FinalReported DEF ReportInv, TrackersAgree, Tracked, Peak
<1> QED
  BY <1>1, <1>2, <1>3, PTL DEF Spec

--------------------------------------------------------------------------------
(* The drawdown.                                                                *)

\* A set that goes on to n, one number at a time.
LEMMA CountUp ==
    ASSUME NEW n \in Nat \ {0}, NEW S, 1 \in S,
           \A k \in 1 .. (n - 1) : k \in S => k + 1 \in S
    PROVE  n \in S
<1> SUFFICES ASSUME n \notin S PROVE FALSE
  OBVIOUS
<1> DEFINE T == {k \in 1 .. n : k \notin S}
<1>1. T \in SUBSET Nat /\ n \in T
  OBVIOUS
<1>2. PICK k \in T : \A l \in T : k <= l
  <2> HIDE DEF T
  <2> QED
    BY <1>1, LeastNumber
<1>3. k \in 1 .. n /\ k \notin S /\ k # 1
  BY <1>2
<1>4. k - 1 \in 1 .. (n - 1) /\ k - 1 \in 1 .. n /\ (k - 1) + 1 = k /\ ~(k <= k - 1)
  BY <1>3
<1>5. k - 1 \in S
  BY <1>2, <1>4
<1> QED
  BY <1>3, <1>4, <1>5

Drawdowns == [peak : Rationals, max_dd : Rationals]

\* One turn of the loop.
LEMMA TurnFacts ==
    ASSUME NEW acc \in Drawdowns, NEW s, s.total \in Rationals
    PROVE  LET new  == Turn(acc, s)
               drop == Minus(new.peak, s.total)
           IN  /\ new \in Drawdowns /\ drop \in Rationals
               /\ new.peak = acc.peak \/ new.peak = s.total
               /\ AtMost(acc.peak, new.peak) /\ AtMost(s.total, new.peak)
               /\ new.max_dd = acc.max_dd \/ new.max_dd = drop
               /\ AtMost(acc.max_dd, new.max_dd) /\ AtMost(drop, new.max_dd)
<1> DEFINE peak == IF Below(acc.peak, s.total) THEN s.total ELSE acc.peak
           drop == Minus(peak, s.total)
           dd   == IF Below(acc.max_dd, drop) THEN drop ELSE acc.max_dd
<1>1. Turn(acc, s) = [peak |-> peak, max_dd |-> dd]
  BY DEF Turn
<1>2. acc.peak \in Rationals /\ acc.max_dd \in Rationals
  BY DEF Drawdowns
<1>3. /\ peak \in Rationals /\ (peak = acc.peak \/ peak = s.total)
      /\ AtMost(acc.peak, peak) /\ AtMost(s.total, peak)
  BY <1>2, Ordered DEF AtMost
<1> HIDE DEF peak
<1>4. drop \in Rationals
  BY <1>3, Closures
<1> HIDE DEF drop
<1>5. /\ dd \in Rationals /\ (dd = acc.max_dd \/ dd = drop)
      /\ AtMost(acc.max_dd, dd) /\ AtMost(drop, dd)
  BY <1>2, <1>4, Ordered DEF AtMost
<1> HIDE DEF dd
<1>6. Turn(acc, s) \in Drawdowns /\ Turn(acc, s).peak = peak /\ Turn(acc, s).max_dd = dd
  BY <1>1, <1>3, <1>5 DEF Drawdowns
<1> QED
  BY <1>3, <1>4, <1>5, <1>6 DEF drop

Turning(snaps) == [i \in 1 .. Len(snaps) |-> [acc \in Drawdowns |-> Turn(acc, snaps[i])]]

LEMMA DrawdownLoop ==
    ASSUME NEW snaps \in Seq(Snaps), snaps # <<>>
    PROVE  \E f \in [0 .. Len(snaps) -> Drawdowns] :
              /\ MaxDrawdown(snaps) = f[Len(snaps)].max_dd
              /\ f[0] = [peak |-> snaps[1].total, max_dd |-> Zero]
              /\ \A i \in 1 .. Len(snaps) : f[i] = Turn(f[i - 1], snaps[i])
<1> DEFINE n == Len(snaps)
           base == [peak |-> snaps[1].total, max_dd |-> Zero]
           loop[i \in 0 .. n] == IF i = 0 THEN base ELSE Turn(loop[i - 1], snaps[i])
<1>1. n \in Nat /\ n >= 1
  OBVIOUS
<1>2. \A i \in 1 .. n : snaps[i].total \in Rationals
  <2> SUFFICES ASSUME NEW i \in 1 .. n PROVE snaps[i].total \in Rationals
    OBVIOUS
  <2>1. snaps[i] \in Snaps
    BY ElementOfSeq
  <2> QED
    BY <2>1 DEF Snaps
<1>3. base \in Drawdowns
  <2>1. snaps[1].total \in Rationals
    BY <1>1, <1>2
  <2> QED
    BY <2>1, Closures DEF Drawdowns
<1>4. Turning(snaps) \in [1 .. n -> [Drawdowns -> Drawdowns]]
  <2>1. \A i \in 1 .. n, acc \in Drawdowns : Turn(acc, snaps[i]) \in Drawdowns
    BY <1>2, TurnFacts
  <2> QED
    BY <2>1 DEF Turning
<1> HIDE DEF loop
<1>5. PICK f \in [0 .. n -> Drawdowns] : Loops(f, base, Turning(snaps), n)
  <2> HIDE DEF n, base
  <2> DEFINE turn == Turning(snaps)
  <2>1. turn \in [1 .. n -> [Drawdowns -> Drawdowns]]
    BY <1>4
  <2> HIDE DEF turn
  <2>2. \E f \in [0 .. n -> Drawdowns] : Loops(f, base, turn, n)
    BY <1>1, <1>3, <2>1, LoopExists
  <2> QED
    BY <2>2 DEF turn
<1>6. \A i \in 1 .. n : f[i] = Turn(f[i - 1], snaps[i])
  <2> SUFFICES ASSUME NEW i \in 1 .. n PROVE f[i] = Turn(f[i - 1], snaps[i])
    OBVIOUS
  <2>1. i \in 0 .. n /\ i # 0 /\ i - 1 \in 0 .. n
    BY <1>1
  <2>2. f[i] = Turning(snaps)[i][f[i - 1]]
    BY <1>5, <2>1 DEF Loops
  <2>3. f[i - 1] \in Drawdowns
    BY <2>1
  <2> QED
    BY <2>2, <2>3 DEF Turning
<1>7. f[0] = base
  BY <1>1, <1>5 DEF Loops
<1> HIDE DEF base
<1>8. f = [i \in 0 .. n |-> IF i = 0 THEN base ELSE Turn(f[i - 1], snaps[i])]
  <2>1. \A i \in 0 .. n : i = 0 \/ i \in 1 .. n
    BY <1>1
  <2>2. \A i \in 0 .. n : f[i] = IF i = 0 THEN base ELSE Turn(f[i - 1], snaps[i])
    BY <1>6, <1>7, <2>1
  <2>3. f = [i \in 0 .. n |-> f[i]]
    OBVIOUS
  <2> QED
    BY <2>2, <2>3
<1>9. loop = [i \in 0 .. n |-> IF i = 0 THEN base ELSE Turn(loop[i - 1], snaps[i])]
  BY <1>8 DEF loop
<1>10. MaxDrawdown(snaps) = loop[n].max_dd
  BY DEF MaxDrawdown, loop, base
<1>11. loop[0] = base /\ \A i \in 1 .. n : loop[i] = Turn(loop[i - 1], snaps[i])
  <2>1. \A i \in 1 .. n : i \in 0 .. n /\ i # 0
    BY <1>1
  <2> QED
    BY <1>1, <1>9, <2>1
<1>12. loop[n] = f[n]
  <2>1. \A i \in 1 .. n : loop[i - 1] = f[i - 1] => loop[i] = f[i]
    BY <1>6, <1>11
  <2> HIDE DEF n
  <2> QED
    BY <1>1, <1>7, <1>11, <2>1, SameTurns
<1> QED
  BY <1>6, <1>7, <1>10, <1>12 DEF base

\* What the loop has found after k turns: the largest total so far and the
\* largest drop from one so far to a later one.
FoundAfter(f, snaps, k) ==
    /\ \E i \in 1 .. k : f[k].peak = snaps[i].total
    /\ \A i \in 1 .. k : AtMost(snaps[i].total, f[k].peak)
    /\ \E i, j \in 1 .. k : i <= j /\ f[k].max_dd = Minus(snaps[i].total, snaps[j].total)
    /\ \A i, j \in 1 .. k :
          i <= j => AtMost(Minus(snaps[i].total, snaps[j].total), f[k].max_dd)

LEMMA DrawdownFound ==
    ASSUME NEW snaps \in Seq(Snaps), snaps # <<>>
    PROVE  /\ \E i, j \in 1 .. Len(snaps) :
                 i <= j /\ MaxDrawdown(snaps) = Minus(snaps[i].total, snaps[j].total)
           /\ \A i, j \in 1 .. Len(snaps) :
                 i <= j => AtMost(Minus(snaps[i].total, snaps[j].total), MaxDrawdown(snaps))
<1> DEFINE n == Len(snaps)
<1>1. n \in Nat \ {0}
  OBVIOUS
<1>2. \A i \in 1 .. n : snaps[i].total \in Rationals
  <2> SUFFICES ASSUME NEW i \in 1 .. n PROVE snaps[i].total \in Rationals
    OBVIOUS
  <2>1. snaps[i] \in Snaps
    BY ElementOfSeq
  <2> QED
    BY <2>1 DEF Snaps
<1>3. PICK f \in [0 .. n -> Drawdowns] :
         /\ MaxDrawdown(snaps) = f[n].max_dd
         /\ f[0] = [peak |-> snaps[1].total, max_dd |-> Zero]
         /\ \A i \in 1 .. n : f[i] = Turn(f[i - 1], snaps[i])
  BY DrawdownLoop
<1> HIDE DEF n
<1>4. \A k \in 0 .. n : f[k] \in Drawdowns /\ f[k].peak \in Rationals /\ f[k].max_dd \in Rationals
  BY DEF Drawdowns
<1>5. FoundAfter(f, snaps, 1)
  <2> DEFINE t == snaps[1].total
  <2>1. t \in Rationals /\ f[1] = Turn(f[0], snaps[1])
    <3>1. 1 \in 1 .. n /\ 1 - 1 = 0
      BY <1>1
    <3> QED
      BY <1>2, <1>3, <3>1
  <2>2. f[0].peak = t /\ f[0].max_dd = Zero
    BY <1>3
  <2>3. Minus(t, t) = Zero
    BY <2>1, MinusItself
  <2>4. f[0] \in Drawdowns
    BY <1>1, <1>4
  <2>5. f[1].peak = t
    BY <2>1, <2>2, <2>4, TurnFacts
  <2>6. f[1].max_dd = Zero
    BY <2>1, <2>2, <2>3, <2>4, <2>5, TurnFacts
  <2>7. AtMost(t, t) /\ AtMost(Zero, Zero)
    BY <2>1, Ordered, Closures
  <2>8. \A i \in 1 .. 1 : i = 1
    OBVIOUS
  <2>9. 1 \in 1 .. 1 /\ 1 <= 1
    OBVIOUS
  <2> QED
    BY <2>3, <2>5, <2>6, <2>7, <2>8, <2>9 DEF FoundAfter
<1>6. ASSUME NEW k \in 1 .. (n - 1), FoundAfter(f, snaps, k)
      PROVE  FoundAfter(f, snaps, k + 1)
  <2> DEFINE a == f[k]
             b == f[k + 1]
             t == snaps[k + 1].total
             drop == Minus(b.peak, t)
  <2>1. /\ k \in 1 .. n /\ k + 1 \in 1 .. n /\ k \in 0 .. n /\ k + 1 \in 0 .. n
        /\ (k + 1) - 1 = k
        /\ \A i \in 1 .. k : i \in 1 .. (k + 1) /\ i \in 1 .. n /\ i <= k + 1
        /\ \A i \in 1 .. (k + 1) : (i \in 1 .. k \/ i = k + 1) /\ i \in 1 .. n
        /\ k + 1 \in 1 .. (k + 1) /\ k + 1 <= k + 1
        /\ \A i \in 1 .. k : ~(k + 1 <= i)
    BY <1>1
  <2>2. /\ a \in Drawdowns /\ a.peak \in Rationals /\ a.max_dd \in Rationals
        /\ b \in Drawdowns /\ b.peak \in Rationals /\ b.max_dd \in Rationals
        /\ t \in Rationals
    BY <1>2, <1>4, <2>1
  <2>3. b = Turn(a, snaps[k + 1])
    BY <1>3, <2>1
  <2>4. /\ drop \in Rationals
        /\ b.peak = a.peak \/ b.peak = t
        /\ AtMost(a.peak, b.peak) /\ AtMost(t, b.peak)
        /\ b.max_dd = a.max_dd \/ b.max_dd = drop
        /\ AtMost(a.max_dd, b.max_dd) /\ AtMost(drop, b.max_dd)
    BY <2>2, <2>3, TurnFacts
  <2>5. /\ \E i \in 1 .. k : a.peak = snaps[i].total
        /\ \A i \in 1 .. k : AtMost(snaps[i].total, a.peak)
        /\ \E i, j \in 1 .. k : i <= j /\ a.max_dd = Minus(snaps[i].total, snaps[j].total)
        /\ \A i, j \in 1 .. k :
              i <= j => AtMost(Minus(snaps[i].total, snaps[j].total), a.max_dd)
    BY <1>6 DEF FoundAfter
  <2> HIDE DEF a, b, t, drop
  <2>6. PICK i \in 1 .. (k + 1) : b.peak = snaps[i].total
    <3>1. CASE b.peak = a.peak
      BY <2>1, <2>5, <3>1
    <3>2. CASE b.peak = t
      BY <2>1, <3>2 DEF t
    <3> QED
      BY <2>4, <3>1, <3>2
  <2>7. ASSUME NEW j \in 1 .. (k + 1)
        PROVE  AtMost(snaps[j].total, b.peak)
    <3>1. CASE j \in 1 .. k
      <4>1. AtMost(snaps[j].total, a.peak) /\ snaps[j].total \in Rationals
        BY <1>2, <2>1, <2>5, <3>1
      <4> QED
        BY <2>2, <2>4, <4>1, Ordered
    <3>2. CASE j = k + 1
      BY <2>4, <3>2 DEF t
    <3> QED
      BY <2>1, <3>1, <3>2
  <2>8. \E l, j \in 1 .. (k + 1) : l <= j /\ b.max_dd = Minus(snaps[l].total, snaps[j].total)
    <3>1. CASE b.max_dd = a.max_dd
      BY <2>1, <2>5, <3>1
    <3>2. CASE b.max_dd = drop
      <4>1. b.max_dd = Minus(snaps[i].total, snaps[k + 1].total)
        BY <2>6, <3>2 DEF drop, t
      <4>2. i <= k + 1
        BY <2>1
      <4> QED
        BY <2>1, <4>1, <4>2
    <3> QED
      BY <2>4, <3>1, <3>2
  <2>9. ASSUME NEW l \in 1 .. (k + 1), NEW j \in 1 .. (k + 1), l <= j
        PROVE  AtMost(Minus(snaps[l].total, snaps[j].total), b.max_dd)
    <3>1. /\ snaps[l].total \in Rationals /\ snaps[j].total \in Rationals
          /\ Minus(snaps[l].total, snaps[j].total) \in Rationals
      BY <1>2, <2>1, Closures
    <3>2. CASE j \in 1 .. k
      <4>1. l \in 1 .. k
        BY <2>1, <2>9, <3>2
      <4>2. AtMost(Minus(snaps[l].total, snaps[j].total), a.max_dd)
        BY <2>5, <2>9, <3>2, <4>1
      <4> QED
        BY <2>2, <2>4, <3>1, <4>2, Ordered
    <3>3. CASE j = k + 1
      <4>1. AtMost(snaps[l].total, b.peak)
        BY <2>7
      <4>2. AtMost(Minus(snaps[l].total, t), drop)
        BY <2>2, <3>1, <4>1, Ordered DEF drop
      <4>3. snaps[j].total = t
        BY <3>3 DEF t
      <4> QED
        BY <2>2, <2>4, <3>1, <4>2, <4>3, Ordered
    <3> QED
      BY <2>1, <3>2, <3>3
  <2> QED
    BY <2>6, <2>7, <2>8, <2>9 DEF FoundAfter, b
<1>7. FoundAfter(f, snaps, n)
  <2> DEFINE S == {k \in 1 .. n : FoundAfter(f, snaps, k)}
  <2>1. 1 \in S
    BY <1>1, <1>5
  <2>2. \A k \in 1 .. (n - 1) : k \in S => k + 1 \in S
    <3>1. \A k \in 1 .. (n - 1) : k + 1 \in 1 .. n
      BY <1>1
    <3> QED
      BY <1>6, <3>1
  <2>3. n \in S
    <3> HIDE DEF S
    <3> QED
      BY <1>1, <2>1, <2>2, CountUp
  <2> QED
    BY <2>3
<1> QED
  BY <1>3, <1>7 DEF FoundAfter, n

\* The one-pass loop of the report (report.py:59-66) finds the largest drop of
\* the total from any snapshot to a later one.
THEOREM DrawdownStaysLargestDrop == Spec => []DrawdownIsLargestDrop
<1>1. TypeOK => DrawdownIsLargestDrop
  <2> SUFFICES ASSUME TypeOK, snapshots # <<>>
               PROVE  LET drops == UNION {{Minus(snapshots[i].total, snapshots[j].total) :
                                  j \in i .. Len(snapshots)} : i \in DOMAIN snapshots}
                          dd == MaxDrawdown(snapshots)
                      IN  dd \in drops /\ \A drop \in drops : ~Below(dd, drop)
    BY DEF DrawdownIsLargestDrop
  <2>1. /\ snapshots \in Seq(Snaps) /\ Len(snapshots) \in Nat
        /\ DOMAIN snapshots = 1 .. Len(snapshots)
    BY DEF TypeOK
  <2>2. /\ \E i, j \in 1 .. Len(snapshots) :
              i <= j /\ MaxDrawdown(snapshots) = Minus(snapshots[i].total, snapshots[j].total)
        /\ \A i, j \in 1 .. Len(snapshots) :
              i <= j => AtMost(Minus(snapshots[i].total, snapshots[j].total),
                               MaxDrawdown(snapshots))
    BY <2>1, DrawdownFound
  <2>3. /\ \A i, j \in 1 .. Len(snapshots) : i <= j => j \in i .. Len(snapshots)
        /\ \A i \in 1 .. Len(snapshots) : \A j \in i .. Len(snapshots) :
              i <= j /\ j \in 1 .. Len(snapshots)
    BY <2>1
  <2> QED
    BY <2>1, <2>2, <2>3 DEF AtMost
<1> QED
  BY <1>1, MetricsTypes, PTL
================================================================================
