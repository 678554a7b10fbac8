------------------------- MODULE ArithmeticTheorems -------------------------
(* Facts about numbers that the proofs of several components cite.            *)
EXTENDS Integers, WellFoundedInduction, TLAPS

-----------------------------------------------------------------------------
(* Multiples and quotients.                                                   *)

LEMMA Quotient ==
    ASSUME NEW a \in Int, NEW b \in Nat \ {0}
    PROVE  /\ a \div b \in Int /\ a % b \in 0..b-1
           /\ a = b * (a \div b) + (a % b)
OBVIOUS

LEMMA Products ==
    ASSUME NEW b \in Nat \ {0}, NEW k \in Int, NEW n \in Int
    PROVE  /\ k <= n <=> b * k <= b * n
           /\ b * (k + 1) = b * k + b /\ b * k \in Int
<1>1. ASSUME k <= n PROVE b * k <= b * n
  <2>1. n - k \in Nat /\ n = k + (n - k)
      BY <1>1
  <2>2. b * (n - k) \in Nat /\ b * n = b * k + b * (n - k)
      BY <2>1
  <2> QED
      BY <2>2
<1>2. ASSUME n < k PROVE b * n < b * k
  <2>1. k - n \in Nat \ {0} /\ k = n + (k - n)
      BY <1>2
  <2>2. b * (k - n) \in Nat \ {0} /\ b * k = b * n + b * (k - n)
      BY <2>1
  <2> QED
      BY <2>2
<1>3. b * (k + 1) = b * k + b /\ b * k \in Int
    OBVIOUS
<1> QED
    BY <1>1, <1>2, <1>3

\* The quotient is the only number of times b fits into a.
LEMMA UniqueQuotient ==
    ASSUME NEW a \in Int, NEW b \in Nat \ {0}, NEW k \in Int, b * k <= a, a < b * k + b
    PROVE  a \div b = k /\ a % b = a - b * k
<1> DEFINE q == a \div b
           r == a % b
<1>1. q \in Int /\ r \in 0..b-1 /\ a = b * q + r
    BY Quotient
<1> HIDE DEF q, r
<1>2. /\ b * q \in Int /\ b * k \in Int
      /\ b * (q + 1) = b * q + b /\ b * (k + 1) = b * k + b
    BY <1>1, Products
<1>3. ~(q + 1 <= k)
    BY <1>1, <1>2, Products
<1>4. ~(k + 1 <= q)
    BY <1>1, <1>2, Products
<1>5. q = k
    BY <1>1, <1>3, <1>4
<1> QED
    BY <1>1, <1>2, <1>5 DEF q, r

LEMMA Multiple ==
    ASSUME NEW a \in Int, NEW b \in Nat \ {0}, NEW k \in Int, a = b * k
    PROVE  a % b = 0 /\ a \div b = k
BY UniqueQuotient

LEMMA NextMultiple ==
    ASSUME NEW b \in Nat \ {0}, NEW a \in Int, NEW c \in Int, a % b = 0, c % b = 0
    PROVE  /\ (a + b) % b = 0
           /\ c < a + b => c <= a
<1> DEFINE k == a \div b
           n == c \div b
<1>1. k \in Int /\ n \in Int /\ a = b * k /\ c = b * n
    BY Quotient
<1> HIDE DEF k, n
<1>2. a + b = b * (k + 1)
    BY <1>1, Products
<1>3. (a + b) % b = 0
    BY <1>1, <1>2, Multiple
<1>4. ASSUME c < a + b PROVE c <= a
  <2>1. n < k + 1
    <3> SUFFICES ASSUME k + 1 <= n PROVE FALSE
        BY <1>1
    <3> QED
        BY <1>1, <1>2, <1>4, Products
  <2> QED
      BY <1>1, <2>1, Products
<1> QED
    BY <1>3, <1>4

\* A member of a list of lists that are b long is numbered by both places.
LEMMA Places ==
    ASSUME NEW b \in Nat \ {0}, NEW q \in Int, NEW r \in 0 .. b - 1
    PROVE  q * b + r \in Int /\ (q * b + r) \div b = q /\ (q * b + r) % b = r
<1>1. q * b = b * q /\ b * q \in Int
    BY Products
<1> QED
    BY <1>1, UniqueQuotient

\* A remainder of 0 is that of a multiple.
LEMMA IsMultiple ==
    ASSUME NEW b \in Nat \ {0}, NEW a \in Int, a % b = 0
    PROVE  \E k \in Int : a = b * k
<1> DEFINE q == a \div b
           r == a % b
<1>1. q \in Int /\ a = b * q + r /\ r = 0
    BY Quotient
<1> HIDE DEF q, r
<1>2. b * q \in Int
    BY <1>1
<1>3. a = b * q
    BY <1>1, <1>2
<1> QED
    BY <1>1, <1>3

\* Counting from a or from 0 is the same in steps of b.
Aligned(b, a, c) == b \in Nat \ {0} /\ a \in Int /\ c \in Int /\ a % b = 0

LEMMA RemainderOfDifference ==
    ASSUME NEW b, NEW a, NEW c, Aligned(b, a, c)
    PROVE  (c - a) % b = 0 <=> c % b = 0
<1> SUFFICES ASSUME b \in Nat \ {0}, a \in Int, c \in Int, a % b = 0
             PROVE  (c - a) % b = 0 <=> c % b = 0
    BY DEF Aligned
<1>1. PICK k \in Int : a = b * k
    BY IsMultiple
<1>2. ASSUME NEW m \in Int, c = b * m PROVE (c - a) % b = 0
  <2>1. c - a = b * (m - k) /\ m - k \in Int
      BY <1>1, <1>2
  <2> QED
      BY <2>1, Multiple
<1>3. ASSUME NEW m \in Int, c - a = b * m PROVE c % b = 0
  <2>1. b * m \in Int /\ b * k \in Int /\ b * (m + k) = b * m + b * k
      BY <1>1
  <2>2. c = b * (m + k) /\ m + k \in Int
      BY <1>1, <1>3, <2>1
  <2> QED
      BY <2>2, Multiple
<1>4. ASSUME NEW d \in Int, d % b = 0 PROVE \E m \in Int : d = b * m
    BY <1>4, IsMultiple
<1>5. c - a \in Int
    OBVIOUS
<1> QED
    BY <1>2, <1>3, <1>4, <1>5

\* If a / b > c / d and c / d >= e / f, then a / b > e / f.
LEMMA MoreAndMore ==
    ASSUME NEW a \in Nat, NEW c \in Nat, NEW e \in Nat,
           NEW b \in Nat \ {0}, NEW d \in Nat \ {0}, NEW f \in Nat \ {0},
           a * d > c * b, c * f >= e * d
    PROVE  a * f > e * b
<1> DEFINE af == a * f
           eb == e * b
<1>1. (c * b) * f < (a * d) * f
  <2>1. a * d \in Nat /\ c * b \in Nat
      OBVIOUS
  <2>2. \A m, n \in Nat : m < n => m * f < n * f
    <3> SUFFICES ASSUME NEW m \in Nat, NEW n \in Nat, m < n PROVE m * f < n * f
        OBVIOUS
    <3>1. f * (m + 1) <= f * n /\ f * (m + 1) = f * m + f /\ f * m \in Int
        BY Products
    <3>2. f * n = n * f /\ f * m = m * f
        OBVIOUS
    <3> QED
        BY <3>1, <3>2
  <2> QED
      BY <2>1, <2>2
<1>2. b * (e * d) <= b * (c * f)
    BY Products
<1>3. (c * b) * f = b * (c * f) /\ (a * d) * f = d * (a * f) /\ b * (e * d) = d * (e * b)
    OBVIOUS
<1>4. af \in Nat /\ eb \in Nat /\ d * eb < d * af
    BY <1>1, <1>2, <1>3
<1> HIDE DEF af, eb
<1>5. ~ (af <= eb)
    BY <1>4, Products
<1>6. af > eb
    BY <1>4, <1>5
<1> QED
    BY <1>6 DEF af, eb

\* If b / d <= a / c and d is less than b, then c is less than a.
LEMMA ShareOfLongest ==
    ASSUME NEW a \in Nat, NEW b \in Nat, NEW c \in Nat \ {0}, NEW d \in Nat \ {0},
           d < b, b * c <= a * d
    PROVE  c < a
<1> SUFFICES ASSUME a <= c PROVE FALSE
    OBVIOUS
<1>1. d * a <= d * c
    BY Products
<1>2. c * (d + 1) <= c * b /\ c * (d + 1) = c * d + c
    BY Products
<1>3. c * d = d * c /\ a * d = d * a /\ b * c = c * b /\ d * c \in Int /\ d * a \in Int /\ c * b \in Int
    OBVIOUS
<1> QED
    BY <1>1, <1>2, <1>3

\* The numbers between two others.
LEMMA Between ==
    ASSUME NEW n \in Nat, NEW a \in 1 .. n, NEW b \in 1 .. n, a < b
    PROVE  a \in 0 .. n /\ b - 1 \in a .. n
OBVIOUS

LEMMA Shifted ==
    ASSUME NEW p, NEW q, NEW a \in Int, NEW b \in Int, NEW c \in Int, p = c + q, q \in (a + 1) .. b
    PROVE  p \in ((c + a) + 1) .. (c + b)
OBVIOUS

-----------------------------------------------------------------------------
(* Induction, in first-order form: a set of numbers has a least one.          *)
THEOREM LeastNumber ==
    ASSUME NEW T \in SUBSET Nat, T # {}
    PROVE  \E m \in T : \A k \in T : m <= k
<1> DEFINE Less == {p \in Nat \X Nat : p[1] < p[2]}
<1>1. IsWellFoundedOn(Less, Nat)
    BY NatLessThanWellFounded DEF OpToRel
<1>2. \A k, m \in Nat : k < m => <<k, m>> \in Less
    OBVIOUS
<1> HIDE DEF Less
<1>3. PICK m \in T : \A k \in T : <<k, m>> \notin Less
    BY <1>1, WFMin
<1>4. ASSUME NEW k \in T PROVE m <= k
  <2>1. k \in Nat /\ m \in Nat
      OBVIOUS
  <2>2. ~(k < m)
      BY <1>2, <1>3, <2>1
  <2> QED
      BY <2>1, <2>2
<1> QED
    BY <1>4

\* What holds of 0 and of the successor of any number it holds of, holds of all.
THEOREM Induction ==
    ASSUME NEW T \in SUBSET Nat, 0 \in T, \A n \in T : n + 1 \in T
    PROVE  T = Nat
<1> SUFFICES ASSUME Nat \ T # {} PROVE FALSE
    OBVIOUS
<1>1. PICK m \in Nat \ T : \A k \in Nat \ T : m <= k
    BY LeastNumber
<1>2. m - 1 \in Nat /\ m - 1 \in T
    BY <1>1
<1> QED
    BY <1>1, <1>2

-----------------------------------------------------------------------------
(* Definition by recursion on a number.                                       *)

\* A function over the first n steps of an iteration of F from a.
Iterates(a, F, n, h) ==
    h \in [0 .. n -> DOMAIN F] /\ h[0] = a /\ \A m \in 1 .. n : h[m] = F[h[m - 1]]

\* Iterations agree as far as both go, and go as far as wanted.
LEMMA IteratesAgree ==
    ASSUME NEW S, NEW F \in [S -> S], NEW a \in S,
           NEW n \in Nat, NEW g, Iterates(a, F, n, g),
           NEW k \in Nat, NEW h, Iterates(a, F, k, h), NEW m \in Nat, m <= n, m <= k
    PROVE  g[m] = h[m]
<1> DEFINE T == {i \in Nat : i <= n /\ i <= k => g[i] = h[i]}
<1>1. 0 \in T
    BY DEF Iterates
<1>2. ASSUME NEW i \in T PROVE i + 1 \in T
  <2> SUFFICES ASSUME i + 1 <= n, i + 1 <= k PROVE g[i + 1] = h[i + 1]
      OBVIOUS
  <2>1. i + 1 \in 1 .. n /\ i + 1 \in 1 .. k /\ (i + 1) - 1 = i /\ g[i] = h[i]
      OBVIOUS
  <2> QED
      BY <2>1 DEF Iterates
<1> HIDE DEF T
<1>3. T \in SUBSET Nat
    BY DEF T
<1>4. T = Nat
    BY <1>1, <1>2, <1>3, Induction
<1> QED
    BY <1>4 DEF T

LEMMA IteratesExist ==
    ASSUME NEW S, NEW F \in [S -> S], NEW a \in S, NEW n \in Nat
    PROVE  \E h : Iterates(a, F, n, h)
<1> DEFINE T == {i \in Nat : \E h : Iterates(a, F, i, h)}
<1>1. 0 \in T
  <2>1. Iterates(a, F, 0, [i \in 0 .. 0 |-> a])
      BY DEF Iterates
  <2> QED
      BY <2>1
<1>2. ASSUME NEW i \in T PROVE i + 1 \in T
  <2>1. PICK h : Iterates(a, F, i, h)
      OBVIOUS
  <2> DEFINE g == [j \in 0 .. i + 1 |-> IF j <= i THEN h[j] ELSE F[h[i]]]
  <2>2. h \in [0 .. i -> S] /\ DOMAIN F = S
      BY <2>1 DEF Iterates
  <2>3. g \in [0 .. i + 1 -> S] /\ g[0] = a
      BY <2>1, <2>2 DEF Iterates
  <2>4. ASSUME NEW m \in 1 .. i + 1 PROVE g[m] = F[g[m - 1]]
    <3>1. m - 1 \in 0 .. i /\ g[m - 1] = h[m - 1]
        OBVIOUS
    <3>2. CASE m <= i
        BY <3>1, <3>2, <2>1 DEF Iterates
    <3>3. CASE m = i + 1
        BY <3>1, <3>3
    <3> QED
        BY <3>2, <3>3
  <2>5. Iterates(a, F, i + 1, g)
      BY <2>2, <2>3, <2>4 DEF Iterates
  <2> QED
      BY <2>5
<1> HIDE DEF T
<1>3. T \in SUBSET Nat
    BY DEF T
<1>4. T = Nat
    BY <1>1, <1>2, <1>3, Induction
<1> QED
    BY <1>4 DEF T

\* A function may be defined on the naturals by its value at 0 and what one value makes of the last.
THEOREM Iteration ==
    ASSUME NEW S, NEW F \in [S -> S], NEW a \in S
    PROVE  \E h \in [Nat -> S] : h[0] = a /\ \A n \in Nat \ {0} : h[n] = F[h[n - 1]]
<1> DEFINE upto(n) == CHOOSE g : Iterates(a, F, n, g)
           h == [n \in Nat |-> upto(n)[n]]
<1>1. ASSUME NEW n \in Nat PROVE Iterates(a, F, n, upto(n))
    BY IteratesExist
<1> HIDE DEF upto
<1>2. h \in [Nat -> S]
  <2>1. ASSUME NEW n \in Nat PROVE upto(n)[n] \in S
      BY <1>1 DEF Iterates
  <2> QED
      BY <2>1
<1>3. h[0] = a
    BY <1>1 DEF Iterates
<1>4. ASSUME NEW n \in Nat \ {0} PROVE h[n] = F[h[n - 1]]
  <2>1. n - 1 \in Nat /\ n - 1 <= n /\ n \in 1 .. n /\ n \in Nat /\ n - 1 <= n - 1
      OBVIOUS
  <2>2. upto(n)[n] = F[upto(n)[n - 1]]
      BY <1>1, <2>1 DEF Iterates
  <2>3. upto(n)[n - 1] = upto(n - 1)[n - 1]
      BY <1>1, <2>1, IteratesAgree
  <2> QED
      BY <2>1, <2>2, <2>3
<1> QED
    BY <1>2, <1>3, <1>4

-----------------------------------------------------------------------------
(* Cuts divide 1 .. last into n intervals that follow each other, none empty. *)
Cuts(n, end) ==
    /\ n \in Nat \ {0} /\ end \in [0 .. n -> Nat] /\ end[0] = 0
    /\ \A i \in 1 .. n : end[i - 1] < end[i]

\* The ends of the intervals rise by at least one each.
LEMMA CutsRise ==
    ASSUME NEW n, NEW end, Cuts(n, end), NEW i \in 0 .. n, NEW j \in i .. n
    PROVE  end[i] <= end[j] /\ j - i <= end[j] - end[i]
<1> DEFINE T == {k \in Nat : i + k <= n => end[i] <= end[i + k] /\ k <= end[i + k] - end[i]}
<1>1. 0 \in T
    BY DEF Cuts
<1>2. ASSUME NEW k \in T PROVE k + 1 \in T
  <2> SUFFICES ASSUME i + (k + 1) <= n
               PROVE  end[i] <= end[i + (k + 1)] /\ k + 1 <= end[i + (k + 1)] - end[i]
      OBVIOUS
  <2>1. n \in Nat
      BY DEF Cuts
  <2>2. i + k \in 0 .. n /\ i + (k + 1) \in 1 .. n /\ (i + (k + 1)) - 1 = i + k
      BY <2>1
  <2>3. end[i + k] < end[i + (k + 1)] /\ end[i] <= end[i + k] /\ k <= end[i + k] - end[i]
      BY <2>2 DEF Cuts
  <2>4. end[i] \in Nat /\ end[i + k] \in Nat /\ end[i + (k + 1)] \in Nat
      BY <2>2 DEF Cuts
  <2> QED
      BY <2>3, <2>4
<1> HIDE DEF T
<1>3. T \in SUBSET Nat
    BY DEF T
<1>4. T = Nat
    BY <1>1, <1>2, <1>3, Induction
<1>5. j - i \in T /\ i + (j - i) = j /\ n \in Nat
    BY <1>4 DEF Cuts
<1> QED
    BY <1>5 DEF T

\* Every place is in an interval.
LEMMA CutsReach ==
    ASSUME NEW n, NEW end, Cuts(n, end), NEW p \in 1 .. end[n]
    PROVE  \E i \in 1 .. n : p \in end[i - 1] + 1 .. end[i]
<1> DEFINE T == {i \in Nat : i \in 0 .. n /\ p <= end[i]}
<1>1. n \in Nat /\ end[n] \in Nat /\ end[0] = 0
    BY DEF Cuts
<1>2. T \in SUBSET Nat /\ n \in T
    BY <1>1
<1>3. PICK i \in T : \A k \in T : i <= k
    BY <1>2, LeastNumber
<1>4. i # 0
    BY <1>1
<1>5. i \in 1 .. n /\ i - 1 \in Nat /\ i - 1 \notin T
    BY <1>1, <1>3, <1>4
<1>6. end[i - 1] \in Nat /\ end[i] \in Nat /\ p <= end[i]
    BY <1>1, <1>5 DEF Cuts
<1>7. end[i - 1] < p
    BY <1>1, <1>5, <1>6
<1> QED
    BY <1>5, <1>6, <1>7
=============================================================================
