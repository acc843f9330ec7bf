-------------------- MODULE ContributionConstantsProofs --------------------
(***************************************************************************)
(* Proofs about ContributionConstants, for every set of proportions and    *)
(* every bound on the denominators: when the weights are parts of one      *)
(* whole, in the proportions they had, and when they are lost.             *)
(***************************************************************************)
EXTENDS ContributionConstants, WellFoundedInduction, TLAPS

-----------------------------------------------------------------------------
(* Arithmetic.                                                             *)

LEMMA Cancelled ==
    ASSUME NEW a \in Int, NEW b \in Int, NEW k \in Nat \ {0}, a * k = b * k
    PROVE  a = b
  OBVIOUS

LEMMA SignOfProduct ==
    ASSUME NEW a \in Int, NEW k \in Nat \ {0}
    PROVE  /\ a * k \in Int
           /\ a >= 0 <=> a * k >= 0
           /\ a > 0 <=> a * k > 0
  OBVIOUS

LEMMA Positive ==
    ASSUME NEW a \in Nat \ {0}, NEW b \in Nat \ {0}
    PROVE  a * b \in Nat \ {0}
  OBVIOUS

LEMMA Swapped ==
    ASSUME NEW a \in Int, NEW b \in Int, NEW c \in Int
    PROVE  (a * b) * c = (a * c) * b
  OBVIOUS

LEMMA Crossed ==
    ASSUME NEW a \in Int, NEW b \in Int, NEW c \in Int, NEW d \in Int
    PROVE  (a * b) * (c * d) = (a * c) * (b * d)
  OBVIOUS

LEMMA Distributed ==
    ASSUME NEW a \in Int, NEW b \in Int, NEW k \in Int
    PROVE  (a + b) * k = a * k + b * k /\ (a - b) * k = a * k - b * k
  OBVIOUS

LEMMA LeastOfNaturals ==
    ASSUME NEW U \in SUBSET Nat, U # {}
    PROVE  \E u \in U : \A v \in U : u <= v
  <1> DEFINE R == {ss \in Nat \X Nat : ss[1] < ss[2]}
  <1>1. IsWellFoundedOn(R, Nat)
    BY NatLessThanWellFounded, Zenon DEF OpToRel
  <1>2. PICK u \in U : \A v \in U : ~ (<<v, u>> \in R)
    <2> HIDE DEF R
    <2> QED
      BY <1>1, WFMin, Zenon
  <1>3. ASSUME NEW v \in U
        PROVE  u <= v
    <2>1. u \in Nat /\ v \in Nat
      OBVIOUS
    <2>2. ~ (v < u)
      BY <1>2, <2>1
    <2> QED
      BY <2>1, <2>2
  <1> QED
    BY <1>3

LEMMA GreatestOfBounded ==
    ASSUME NEW d \in Nat, NEW T \in SUBSET (1..d), T # {}
    PROVE  \E x \in T : \A y \in T : y <= x
  <1> DEFINE U == {d - x : x \in T}
  <1>1. U \in SUBSET Nat /\ U # {}
    <2>1. \A x \in T : d - x \in Nat
      OBVIOUS
    <2> QED
      BY <2>1
  <1>2. PICK u \in U : \A v \in U : u <= v
    <2> HIDE DEF U
    <2> QED
      BY <1>1, LeastOfNaturals
  <1>3. PICK x \in T : u = d - x
    OBVIOUS
  <1>4. ASSUME NEW y \in T
        PROVE  y <= x
    <2>1. d - y \in U
      OBVIOUS
    <2>2. d - x <= d - y /\ x \in Int /\ y \in Int
      BY <1>2, <1>3, <2>1
    <2> QED
      BY <2>2
  <1> QED
    BY <1>4

LEMMA Divided ==
    ASSUME NEW n \in Int, NEW g \in Nat \ {0}, n % g = 0
    PROVE  n \div g \in Int /\ n = (n \div g) * g
  OBVIOUS

\* A fraction in lowest terms is the same number.
LEMMA ReducedIs ==
    ASSUME NEW n \in Int, NEW d \in Nat \ {0}
    PROVE  /\ Reduced(n, d) \in Fractions
           /\ Reduced(n, d)[1] * d = n * Reduced(n, d)[2]
           /\ Reduced(n, d)[1] >= 0 <=> n >= 0
           /\ Reduced(n, d)[1] > 0 <=> n > 0
  <1> DEFINE common == {g \in 1..d : n % g = 0 /\ d % g = 0}
             g == CHOOSE h \in common : \A i \in common : i <= h
             p == n \div g
             q == d \div g
  <1>1. n % 1 = 0 /\ d % 1 = 0
    OBVIOUS
  <1>2. common \in SUBSET (1..d) /\ 1 \in common
    BY <1>1
  <1>3. \E x \in common : \A y \in common : y <= x
    <2> HIDE DEF common
    <2> QED
      BY <1>2, GreatestOfBounded
  <1>4. g \in common
    <2> HIDE DEF common
    <2> QED
      BY <1>3
  <1>5. Reduced(n, d) = <<p, q>>
    BY DEF Reduced
  <1>6. g \in Nat \ {0} /\ n % g = 0 /\ d % g = 0
    <2> HIDE DEF g
    <2> QED
      BY <1>4
  <1> HIDE DEF g, common
  <1>7. p \in Int /\ n = p * g /\ q \in Int /\ d = q * g
    BY <1>6, Divided
  <1> HIDE DEF p, q
  <1>8. q \in Nat \ {0}
    BY <1>6, <1>7, SignOfProduct
  <1>9. p * (q * g) = (p * g) * q
    BY <1>6, <1>7
  <1>10. (p >= 0 <=> n >= 0) /\ (p > 0 <=> n > 0)
    BY <1>6, <1>7, SignOfProduct
  <1> QED
    BY <1>5, <1>7, <1>8, <1>9, <1>10 DEF Fractions

\* The numerator and the denominator have no common divisor but 1.
Lowest(n, d) == \A t \in Nat \ {0}, u \in Int, v \in Int : n = u * t /\ d = v * t => t = 1

LEMMA Multiple ==
    ASSUME NEW u \in Int, NEW h \in Nat \ {0}
    PROVE  (u * h) % h = 0
  OBVIOUS

LEMMA NoLessThanFactor ==
    ASSUME NEW v \in Nat \ {0}, NEW h \in Nat \ {0}
    PROVE  h <= v * h /\ (h = v * h => v = 1)
  OBVIOUS

LEMMA ReducedIsLowest ==
    ASSUME NEW n \in Int, NEW d \in Nat \ {0}
    PROVE  Lowest(Reduced(n, d)[1], Reduced(n, d)[2])
  <1> DEFINE common == {g \in 1..d : n % g = 0 /\ d % g = 0}
             g == CHOOSE h \in common : \A i \in common : i <= h
             p == n \div g
             q == d \div g
  <1>1. n % 1 = 0 /\ d % 1 = 0
    OBVIOUS
  <1>2. common \in SUBSET (1..d) /\ 1 \in common
    BY <1>1
  <1>3. \E x \in common : \A y \in common : y <= x
    <2> HIDE DEF common
    <2> QED
      BY <1>2, GreatestOfBounded
  <1>4. g \in common /\ \A i \in common : i <= g
    <2> HIDE DEF common
    <2> QED
      BY <1>3
  <1>5. Reduced(n, d) = <<p, q>>
    BY DEF Reduced
  <1>6. g \in Nat \ {0} /\ n % g = 0 /\ d % g = 0
    <2> HIDE DEF g
    <2> QED
      BY <1>4
  <1> HIDE DEF g
  <1>7. \A i \in 1..d : n % i = 0 /\ d % i = 0 => i <= g
    BY <1>4
  <1> HIDE DEF common
  <1>8. p \in Int /\ n = p * g /\ q \in Int /\ d = q * g
    BY <1>6, Divided
  <1> HIDE DEF p, q
  <1>9. q \in Nat \ {0}
    BY <1>6, <1>8, SignOfProduct
  <1>10. ASSUME NEW t \in Nat \ {0}, NEW u \in Int, NEW v \in Int, p = u * t, q = v * t
         PROVE  t = 1
    <2> DEFINE h == t * g
    <2>1. h \in Nat \ {0}
      BY <1>6, Positive
    <2>2. n = u * h /\ d = v * h
      <3>1. (u * t) * g = u * (t * g) /\ (v * t) * g = v * (t * g)
        BY <1>6
      <3> QED
        BY <1>8, <1>10, <3>1
    <2>3. v \in Nat \ {0}
      BY <1>9, <1>10, SignOfProduct
    <2>4. h \in 1..d /\ n % h = 0 /\ d % h = 0
      <3> HIDE DEF h
      <3> QED
        BY <2>1, <2>2, <2>3, Multiple, NoLessThanFactor
    <2>5. h <= g
      <3> HIDE DEF h
      <3> QED
        BY <1>7, <2>4
    <2>6. g <= t * g /\ (g = t * g => t = 1)
      BY <1>6, NoLessThanFactor
    <2>7. g = h
      <3>1. g <= h
        BY <2>6
      <3> HIDE DEF h
      <3> QED
        BY <1>6, <2>1, <2>5, <3>1
    <2> QED
      BY <2>6, <2>7
  <1> QED
    BY <1>5, <1>10 DEF Lowest

\* Division with the rest.
LEMMA DividedWithRest ==
    ASSUME NEW j \in Nat, NEW m \in Nat \ {0}
    PROVE  /\ j \div m \in Nat /\ j % m \in Nat /\ j % m < m
           /\ j = m * (j \div m) + (j % m)
  OBVIOUS

\* What divides a product and has no factor in common with the one part divides the
\* other one.
LEMMA Euclid ==
    ASSUME NEW p \in Int, NEW q \in Nat \ {0}, Lowest(p, q),
           NEW k \in Nat \ {0}, NEW l \in Int, p * k = l * q
    PROVE  \E s \in Nat : k = s * q
  <1> DEFINE M == {j \in Nat \ {0} : \E w \in Int : p * j = w * q}
  <1>1. M \in SUBSET Nat /\ q \in M /\ k \in M
    OBVIOUS
  <1>2. PICK m \in M : \A j \in M : m <= j
    <2> HIDE DEF M
    <2> QED
      BY <1>1, LeastOfNaturals
  <1>3. PICK wm \in Int : p * m = wm * q
    BY <1>2
  <1>4. m \in Nat \ {0}
    OBVIOUS
  <1>5. ASSUME NEW j \in M
        PROVE  j \div m \in Nat /\ j = m * (j \div m)
    <2>1. PICK w \in Int : p * j = w * q
      OBVIOUS
    <2> DEFINE e == j \div m
               r == j % m
    <2>2. e \in Nat /\ r \in Nat /\ r < m /\ j = m * e + r
      BY <1>4, DividedWithRest
    <2> HIDE DEF e, r
    <2>3. p * r = (w - wm * e) * q
      <3>1. p * j = p * (m * e) + p * r
        BY <1>4, <2>2
      <3>2. p * (m * e) = (p * m) * e
        BY <1>4, <2>2
      <3>3. (wm * q) * e = (wm * e) * q
        BY <2>2, Swapped
      <3>4. (w - wm * e) * q = w * q - (wm * e) * q
        <4>1. wm * e \in Int
          BY <2>2
        <4> QED
          BY <4>1, Distributed
      <3>5. p * r \in Int /\ w * q \in Int /\ (wm * e) * q \in Int
        BY <2>2
      <3> QED
        BY <1>3, <2>1, <3>1, <3>2, <3>3, <3>4, <3>5
    <2>4. r = 0
      <3>1. w - wm * e \in Int
        BY <2>2
      <3>2. r # 0 => r \in M
        BY <2>2, <2>3, <3>1
      <3> HIDE DEF M
      <3> QED
        BY <1>2, <1>4, <2>2, <3>2
    <2>5. j = m * e
      <3>1. m * e \in Int
        BY <1>4, <2>2
      <3> QED
        BY <2>2, <2>4, <3>1
    <2> QED
      BY <2>2, <2>5 DEF e
  <1>6. m = q
    <2> DEFINE t == q \div m
    <2>1. t \in Nat /\ q = m * t
      BY <1>1, <1>5
    <2> HIDE DEF t, M
    <2>2. t # 0
      BY <1>4, <2>1
    <2>3. p = wm * t
      <3>1. (wm * t) * m = p * m
        <4>1. wm * (m * t) = (wm * t) * m
          BY <1>4, <2>1
        <4> QED
          BY <1>3, <2>1, <4>1
      <3>2. wm * t \in Int
        BY <2>1
      <3> QED
        BY <1>4, <3>1, <3>2, Cancelled
    <2>4. t = 1
      <3>1. t \in Nat \ {0} /\ wm \in Int /\ m \in Int /\ p = wm * t /\ q = m * t
        BY <1>4, <2>1, <2>2, <2>3
      <3> QED
        BY <3>1, Zenon DEF Lowest
    <2> QED
      BY <1>4, <2>1, <2>4
  <1>7. k \div m \in Nat /\ k = m * (k \div m)
    BY <1>1, <1>5
  <1>8. k = (k \div m) * m
    BY <1>4, <1>7
  <1> HIDE DEF M
  <1> QED
    BY <1>6, <1>7, <1>8

\* A number has one form in lowest terms.
LEMMA LowestIsUnique ==
    ASSUME NEW p \in Int, NEW q \in Nat \ {0}, Lowest(p, q),
           NEW m \in Int, NEW e \in Nat \ {0}, Lowest(m, e), p * e = m * q
    PROVE  p = m /\ q = e
  <1>1. PICK s \in Nat : e = s * q
    BY Euclid
  <1>2. PICK r \in Nat : q = r * e
    <2>1. m * q = p * e
      OBVIOUS
    <2> QED
      BY <2>1, Euclid
  <1>3. s # 0 /\ r # 0
    BY <1>1, <1>2
  <1>4. q <= e /\ e <= q
    <2>1. q <= s * q /\ e <= r * e
      BY <1>3, NoLessThanFactor
    <2> QED
      BY <1>1, <1>2, <2>1
  <1>5. q = e
    BY <1>4
  <1> QED
    BY <1>5, Cancelled

LEMMA ReducedIsUnique ==
    ASSUME NEW n \in Int, NEW d \in Nat \ {0}, NEW m \in Int, NEW e \in Nat \ {0}, n * e = m * d
    PROVE  Reduced(n, d) = Reduced(m, e)
  <1> DEFINE f == Reduced(n, d)
             h == Reduced(m, e)
  <1>1. f \in Fractions /\ h \in Fractions /\ f[1] * d = n * f[2] /\ h[1] * e = m * h[2]
    BY ReducedIs
  <1>2. Lowest(f[1], f[2]) /\ Lowest(h[1], h[2])
    BY ReducedIsLowest
  <1> HIDE DEF f, h
  <1>3. /\ f[1] \in Int /\ f[2] \in Nat \ {0} /\ h[1] \in Int /\ h[2] \in Nat \ {0}
        /\ f = <<f[1], f[2]>> /\ h = <<h[1], h[2]>>
    BY <1>1 DEF Fractions
  <1>4. (f[1] * h[2]) * (d * e) = (h[1] * f[2]) * (d * e)
    <2>1. (f[1] * h[2]) * (d * e) = (f[1] * d) * (h[2] * e)
      BY <1>3, Crossed
    <2>2. (n * f[2]) * (h[2] * e) = (n * e) * (f[2] * h[2])
      BY <1>3
    <2>3. (h[1] * f[2]) * (d * e) = (h[1] * e) * (f[2] * d)
      BY <1>3
    <2>4. (m * h[2]) * (f[2] * d) = (m * d) * (f[2] * h[2])
      BY <1>3
    <2> QED
      BY <1>1, <2>1, <2>2, <2>3, <2>4
  <1>5. f[1] * h[2] = h[1] * f[2]
    <2>1. f[1] * h[2] \in Int /\ h[1] * f[2] \in Int /\ d * e \in Nat \ {0}
      BY <1>3, Positive
    <2> QED
      BY <1>4, <2>1, Cancelled
  <1>6. f[1] = h[1] /\ f[2] = h[2]
    BY <1>2, <1>3, <1>5, LowestIsUnique
  <1> QED
    BY <1>3, <1>6 DEF f, h

LEMMA ReducedToOne ==
    ASSUME NEW n \in Nat \ {0}
    PROVE  Reduced(n, n) = One
  <1> DEFINE common == {g \in 1..n : n % g = 0 /\ n % g = 0}
             g == CHOOSE h \in common : \A i \in common : i <= h
  <1>1. n % n = 0 /\ n \div n = 1
    OBVIOUS
  <1>2. n \in common /\ \A i \in common : i \in Int /\ i <= n
    BY <1>1
  <1>3. g = n
    <2>1. g \in common /\ \A i \in common : i <= g
      <3> HIDE DEF common
      <3> QED
        BY <1>2
    <2> HIDE DEF common, g
    <2> QED
      BY <1>2, <2>1
  <1> QED
    BY <1>1, <1>3 DEF Reduced, One

-----------------------------------------------------------------------------
(* The operations.                                                         *)

\* x is the fraction of n and d.
Is(x, n, d) ==
    x \in Fractions /\ x[1] * d = n * x[2] /\ (x[1] >= 0 <=> n >= 0) /\ (x[1] > 0 <=> n > 0)

LEMMA Parts ==
    ASSUME NEW x \in Fractions
    PROVE  x[1] \in Int /\ x[2] \in Nat \ {0} /\ x # NaN
  BY ProportionAssumption DEF Fractions

LEMMA PlusIs ==
    ASSUME NEW x \in Fractions, NEW y \in Fractions
    PROVE  Is(Plus(x, y), x[1] * y[2] + y[1] * x[2], x[2] * y[2])
  <1>1. /\ x[1] \in Int /\ x[2] \in Nat \ {0} /\ y[1] \in Int /\ y[2] \in Nat \ {0}
        /\ NaN \notin {x, y}
    BY Parts
  <1>2. x[1] * y[2] + y[1] * x[2] \in Int /\ x[2] * y[2] \in Nat \ {0}
    BY <1>1, Positive
  <1> QED
    BY <1>1, <1>2, ReducedIs DEF Plus, Is

LEMMA MinusIs ==
    ASSUME NEW x \in Fractions, NEW y \in Fractions
    PROVE  Is(Minus(x, y), x[1] * y[2] - y[1] * x[2], x[2] * y[2])
  <1>1. /\ x[1] \in Int /\ x[2] \in Nat \ {0} /\ y[1] \in Int /\ y[2] \in Nat \ {0}
        /\ NaN \notin {x, y}
    BY Parts
  <1>2. x[1] * y[2] - y[1] * x[2] \in Int /\ x[2] * y[2] \in Nat \ {0}
    BY <1>1, Positive
  <1> QED
    BY <1>1, <1>2, ReducedIs DEF Minus, Is

LEMMA TimesIs ==
    ASSUME NEW x \in Fractions, NEW y \in Fractions
    PROVE  Is(Times(x, y), x[1] * y[1], x[2] * y[2])
  <1>1. /\ x[1] \in Int /\ x[2] \in Nat \ {0} /\ y[1] \in Int /\ y[2] \in Nat \ {0}
        /\ NaN \notin {x, y}
    BY Parts
  <1>2. x[1] * y[1] \in Int /\ x[2] * y[2] \in Nat \ {0}
    BY <1>1, Positive
  <1> QED
    BY <1>1, <1>2, ReducedIs DEF Times, Is

LEMMA DividedByIs ==
    ASSUME NEW x \in Fractions, NEW y \in Fractions, y[1] > 0
    PROVE  Is(DividedBy(x, y), x[1] * y[2], x[2] * y[1])
  <1>1. /\ x[1] \in Int /\ x[2] \in Nat \ {0} /\ y[1] \in Nat \ {0} /\ y[2] \in Nat \ {0}
        /\ NaN \notin {x, y}
    BY Parts
  <1>2. y # Zero
    BY DEF Zero
  <1>3. x[1] * y[2] \in Int /\ x[2] * y[1] \in Nat \ {0}
    BY <1>1, Positive
  <1> QED
    BY <1>1, <1>2, <1>3, ReducedIs DEF DividedBy, Is

\* The same number over another denominator.
LEMMA SameNumber ==
    ASSUME NEW f, NEW n \in Int, NEW d \in Nat \ {0}, Is(f, n, d),
           NEW m \in Int, NEW e \in Nat \ {0}, n * e = m * d
    PROVE  Is(f, m, e)
  <1>1. f[1] \in Int /\ f[2] \in Nat \ {0} /\ f[1] * d = n * f[2]
    BY Parts DEF Is
  <1>2. (f[1] * e) * d = (m * f[2]) * d
    <2>1. (f[1] * e) * d = (f[1] * d) * e
      BY <1>1, Swapped
    <2>2. (n * f[2]) * e = (n * e) * f[2]
      BY <1>1, Swapped
    <2>3. (m * d) * f[2] = (m * f[2]) * d
      BY <1>1, Swapped
    <2> QED
      BY <1>1, <2>1, <2>2, <2>3
  <1>3. f[1] * e = m * f[2]
    <2>1. f[1] * e \in Int /\ m * f[2] \in Int
      BY <1>1
    <2> QED
      BY <1>2, <2>1, Cancelled
  <1>4. (n >= 0 <=> m >= 0) /\ (n > 0 <=> m > 0)
    BY SignOfProduct
  <1> QED
    BY <1>3, <1>4 DEF Is

\* Two ways to write a number have equal cross products.
LEMMA SameProducts ==
    ASSUME NEW f, NEW n \in Int, NEW d \in Nat \ {0}, Is(f, n, d),
           NEW m \in Int, NEW e \in Nat \ {0}, Is(f, m, e)
    PROVE  n * e = m * d
  <1>1. /\ f[1] \in Int /\ f[2] \in Nat \ {0}
        /\ f[1] * d = n * f[2] /\ f[1] * e = m * f[2]
    BY Parts DEF Is
  <1>2. (n * e) * f[2] = (m * d) * f[2]
    <2>1. (n * e) * f[2] = (n * f[2]) * e
      BY <1>1, Swapped
    <2>2. (f[1] * d) * e = (f[1] * e) * d
      BY <1>1, Swapped
    <2>3. (m * f[2]) * d = (m * d) * f[2]
      BY <1>1, Swapped
    <2> QED
      BY <1>1, <2>1, <2>2, <2>3
  <1>3. n * e \in Int /\ m * d \in Int
    OBVIOUS
  <1> QED
    BY <1>1, <1>2, <1>3, Cancelled

\* The operations on numbers however they are written.
LEMMA PlusOf ==
    ASSUME NEW x, NEW y, NEW a \in Int, NEW b \in Int, NEW d \in Nat \ {0},
           Is(x, a, d), Is(y, b, d)
    PROVE  Is(Plus(x, y), a + b, d)
  <1>1. /\ x \in Fractions /\ y \in Fractions
        /\ x[1] \in Int /\ x[2] \in Nat \ {0} /\ y[1] \in Int /\ y[2] \in Nat \ {0}
        /\ x[1] * d = a * x[2] /\ y[1] * d = b * y[2]
    BY Parts DEF Is
  <1> DEFINE n == x[1] * y[2] + y[1] * x[2]
             k == x[2] * y[2]
  <1>2. n \in Int /\ k \in Nat \ {0} /\ a + b \in Int /\ x[1] * y[2] \in Int /\ y[1] * x[2] \in Int
    BY <1>1, Positive
  <1>3. n * d = (a + b) * k
    <2>1. n * d = (x[1] * y[2]) * d + (y[1] * x[2]) * d
      BY <1>2, Distributed
    <2>2. (x[1] * y[2]) * d = (a * x[2]) * y[2] /\ (y[1] * x[2]) * d = (b * y[2]) * x[2]
      BY <1>1, Swapped
    <2>3. (a + b) * k = a * k + b * k
      BY <1>2, Distributed
    <2>4. (a * x[2]) * y[2] = a * k /\ (b * y[2]) * x[2] = b * k
      BY <1>1
    <2> QED
      BY <2>1, <2>2, <2>3, <2>4
  <1>4. Is(Plus(x, y), n, k)
    BY <1>1, PlusIs
  <1> HIDE DEF n, k
  <1> QED
    BY <1>2, <1>3, <1>4, SameNumber

LEMMA MinusOf ==
    ASSUME NEW x, NEW y, NEW a \in Int, NEW b \in Int, NEW d \in Nat \ {0},
           Is(x, a, d), Is(y, b, d)
    PROVE  Is(Minus(x, y), a - b, d)
  <1>1. /\ x \in Fractions /\ y \in Fractions
        /\ x[1] \in Int /\ x[2] \in Nat \ {0} /\ y[1] \in Int /\ y[2] \in Nat \ {0}
        /\ x[1] * d = a * x[2] /\ y[1] * d = b * y[2]
    BY Parts DEF Is
  <1> DEFINE n == x[1] * y[2] - y[1] * x[2]
             k == x[2] * y[2]
  <1>2. n \in Int /\ k \in Nat \ {0} /\ a - b \in Int /\ x[1] * y[2] \in Int /\ y[1] * x[2] \in Int
    BY <1>1, Positive
  <1>3. n * d = (a - b) * k
    <2>1. n * d = (x[1] * y[2]) * d - (y[1] * x[2]) * d
      BY <1>2, Distributed
    <2>2. (x[1] * y[2]) * d = (a * x[2]) * y[2] /\ (y[1] * x[2]) * d = (b * y[2]) * x[2]
      BY <1>1, Swapped
    <2>3. (a - b) * k = a * k - b * k
      BY <1>2, Distributed
    <2>4. (a * x[2]) * y[2] = a * k /\ (b * y[2]) * x[2] = b * k
      BY <1>1
    <2> QED
      BY <2>1, <2>2, <2>3, <2>4
  <1>4. Is(Minus(x, y), n, k)
    BY <1>1, MinusIs
  <1> HIDE DEF n, k
  <1> QED
    BY <1>2, <1>3, <1>4, SameNumber

LEMMA TimesOf ==
    ASSUME NEW x, NEW y, NEW a \in Int, NEW d \in Nat \ {0}, Is(x, a, d),
           NEW b \in Int, NEW e \in Nat \ {0}, Is(y, b, e)
    PROVE  Is(Times(x, y), a * b, d * e)
  <1>1. /\ x \in Fractions /\ y \in Fractions
        /\ x[1] \in Int /\ x[2] \in Nat \ {0} /\ y[1] \in Int /\ y[2] \in Nat \ {0}
        /\ x[1] * d = a * x[2] /\ y[1] * e = b * y[2]
    BY Parts DEF Is
  <1> DEFINE n == x[1] * y[1]
             k == x[2] * y[2]
             m == a * b
             f == d * e
  <1>2. n \in Int /\ k \in Nat \ {0} /\ m \in Int /\ f \in Nat \ {0}
    BY <1>1, Positive
  <1>3. n * f = m * k
    <2>1. n * f = (x[1] * d) * (y[1] * e)
      BY <1>1, Crossed
    <2>2. (a * x[2]) * (b * y[2]) = m * k
      BY <1>1, Crossed
    <2> QED
      BY <1>1, <2>1, <2>2
  <1>4. Is(Times(x, y), n, k)
    BY <1>1, TimesIs
  <1> HIDE DEF n, k, m, f
  <1>5. Is(Times(x, y), m, f)
    BY <1>2, <1>3, <1>4, SameNumber
  <1> QED
    BY <1>5 DEF m, f

LEMMA DividedByOf ==
    ASSUME NEW x, NEW y, NEW a \in Int, NEW d \in Nat \ {0}, Is(x, a, d),
           NEW b \in Nat \ {0}, NEW e \in Nat \ {0}, Is(y, b, e)
    PROVE  Is(DividedBy(x, y), a * e, d * b)
  <1>1. /\ x \in Fractions /\ y \in Fractions /\ y[1] > 0
        /\ x[1] \in Int /\ x[2] \in Nat \ {0} /\ y[1] \in Nat \ {0} /\ y[2] \in Nat \ {0}
        /\ x[1] * d = a * x[2] /\ y[1] * e = b * y[2]
    BY Parts DEF Is
  <1> DEFINE n == x[1] * y[2]
             k == x[2] * y[1]
             m == a * e
             f == d * b
  <1>2. n \in Int /\ k \in Nat \ {0} /\ m \in Int /\ f \in Nat \ {0}
    BY <1>1, Positive
  <1>3. n * f = m * k
    <2>1. n * f = (x[1] * d) * (y[2] * b)
      BY <1>1, Crossed
    <2>2. (a * x[2]) * (e * y[1]) = m * k
      BY <1>1, Crossed
    <2>3. e * y[1] = y[2] * b
      BY <1>1
    <2> QED
      BY <1>1, <2>1, <2>2, <2>3
  <1>4. Is(DividedBy(x, y), n, k)
    BY <1>1, DividedByIs
  <1> HIDE DEF n, k, m, f
  <1>5. Is(DividedBy(x, y), m, f)
    BY <1>2, <1>3, <1>4, SameNumber
  <1> QED
    BY <1>5 DEF m, f

-----------------------------------------------------------------------------
(* The weights.                                                            *)

Weights == {x \in Fractions : x[1] >= 0}

\* x, y and z add up to one whole.
Whole(x, y, z) == x[1] * (y[2] * z[2]) + y[1] * (x[2] * z[2]) + z[1] * (x[2] * y[2]) = x[2] * (y[2] * z[2])

LEMMA WholeIsOne ==
    ASSUME NEW x \in Weights, NEW y \in Weights, NEW z \in Weights, Whole(x, y, z)
    PROVE  Plus(x, Plus(y, z)) = One
  <1> DEFINE q == Plus(y, z)
             k == y[2] * z[2]
             n == y[1] * z[2] + z[1] * y[2]
  <1>1. x \in Fractions /\ y \in Fractions /\ z \in Fractions
    BY DEF Weights
  <1>2. /\ x[1] \in Int /\ x[2] \in Nat \ {0} /\ y[1] \in Int /\ y[2] \in Nat \ {0}
        /\ z[1] \in Int /\ z[2] \in Nat \ {0}
    BY <1>1, Parts
  <1>3. Is(q, n, k)
    BY <1>1, PlusIs
  <1> HIDE DEF q
  <1>4. q[1] \in Int /\ q[2] \in Nat \ {0} /\ q[1] * k = n * q[2] /\ q \in Fractions /\ q # NaN /\ x # NaN
    BY <1>1, <1>3, Parts DEF Is
  <1>5. k \in Nat \ {0} /\ n \in Int
    BY <1>2, Positive
  <1>6. x[1] * k + n * x[2] = x[2] * k
    <2>1. y[1] * (x[2] * z[2]) + z[1] * (x[2] * y[2]) = n * x[2]
      BY <1>2
    <2>2. x[1] * k \in Int /\ y[1] * (x[2] * z[2]) \in Int /\ z[1] * (x[2] * y[2]) \in Int
      BY <1>2
    <2>3. x[1] * k + y[1] * (x[2] * z[2]) + z[1] * (x[2] * y[2]) = x[2] * k
      BY DEF Whole
    <2> QED
      BY <2>1, <2>2, <2>3
  <1> HIDE DEF k, n
  <1>7. (x[1] * q[2] + q[1] * x[2]) * k = (x[2] * q[2]) * k
    <2>0. x[1] * q[2] \in Int /\ q[1] * x[2] \in Int /\ x[1] * k \in Int /\ n * x[2] \in Int
      BY <1>2, <1>4, <1>5
    <2>1. (x[1] * q[2] + q[1] * x[2]) * k = (x[1] * k) * q[2] + (q[1] * k) * x[2]
      <3>1. (x[1] * q[2] + q[1] * x[2]) * k = (x[1] * q[2]) * k + (q[1] * x[2]) * k
        BY <1>5, <2>0, Distributed
      <3> QED
        BY <1>2, <1>4, <1>5, <3>1, Swapped
    <2>2. (x[1] * k) * q[2] + (n * q[2]) * x[2] = (x[1] * k + n * x[2]) * q[2]
      <3>1. (x[1] * k + n * x[2]) * q[2] = (x[1] * k) * q[2] + (n * x[2]) * q[2]
        BY <1>4, <2>0, Distributed
      <3> QED
        BY <1>2, <1>4, <1>5, <3>1, Swapped
    <2>3. (x[2] * k) * q[2] = (x[2] * q[2]) * k
      BY <1>2, <1>4, <1>5
    <2> QED
      BY <1>4, <1>6, <2>1, <2>2, <2>3
  <1>8. x[1] * q[2] + q[1] * x[2] = x[2] * q[2]
    <2>1. x[1] * q[2] + q[1] * x[2] \in Int /\ x[2] * q[2] \in Int
      BY <1>2, <1>4
    <2> QED
      BY <1>5, <1>7, <2>1, Cancelled
  <1>9. x[2] * q[2] \in Nat \ {0}
    BY <1>2, <1>4, Positive
  <1> QED
    BY <1>4, <1>8, <1>9, ReducedToOne DEF Plus, q

LEMMA WholeTurns ==
    ASSUME NEW x \in Weights, NEW y \in Weights, NEW z \in Weights, Whole(x, y, z)
    PROVE  Whole(y, x, z) /\ Whole(y, z, x)
  <1>1. /\ x[1] \in Int /\ x[2] \in Nat \ {0} /\ y[1] \in Int /\ y[2] \in Nat \ {0}
        /\ z[1] \in Int /\ z[2] \in Nat \ {0}
    BY Parts DEF Weights
  <1> QED
    BY <1>1 DEF Whole

\* What three weights must be for the third to be the rest of the other two.
LEMMA WholeWithRest ==
    ASSUME NEW x \in Weights, NEW y \in Weights, NEW z \in Weights,
           Is(Plus(y, z), x[2] - x[1], x[2])
    PROVE  Whole(x, y, z)
  <1>1. /\ x[1] \in Int /\ x[2] \in Nat \ {0} /\ y[1] \in Int /\ y[2] \in Nat \ {0}
        /\ z[1] \in Int /\ z[2] \in Nat \ {0} /\ y \in Fractions /\ z \in Fractions
    BY Parts DEF Weights
  <1> DEFINE n == y[1] * z[2] + z[1] * y[2]
             k == y[2] * z[2]
  <1>2. n \in Int /\ k \in Nat \ {0}
    BY <1>1, Positive
  <1>3. Is(Plus(y, z), n, k)
    BY <1>1, PlusIs
  <1>4. n * x[2] = (x[2] - x[1]) * k
    <2> HIDE DEF n, k
    <2>1. x[2] - x[1] \in Int
      BY <1>1
    <2> QED
      BY <1>1, <1>2, <1>3, <2>1, SameProducts
  <1>5. x[1] * k + n * x[2] = x[2] * k
    <2> HIDE DEF n, k
    <2>1. (x[2] - x[1]) * k = x[2] * k - x[1] * k
      BY <1>1, <1>2, Distributed
    <2>2. x[2] * k \in Int /\ x[1] * k \in Int
      BY <1>1, <1>2
    <2> QED
      BY <1>4, <2>1, <2>2
  <1>6. n * x[2] = y[1] * (x[2] * z[2]) + z[1] * (x[2] * y[2])
    BY <1>1
  <1>7. x[1] * k \in Int /\ y[1] * (x[2] * z[2]) \in Int /\ z[1] * (x[2] * y[2]) \in Int
    BY <1>1
  <1> QED
    BY <1>5, <1>6, <1>7 DEF Whole

LEMMA OneIs == Is(One, 1, 1)
  BY DEF Is, One, Fractions

\* The two weights that are not set share what the one that is set leaves.
LEMMA ShareIs ==
    ASSUME NEW x \in Weights, NEW y \in Weights, x[1] > 0 \/ y[1] > 0, NEW c \in Fractions
    PROVE  /\ x[1] * y[2] + y[1] * x[2] \in Nat \ {0}
           /\ Is(Share(x, y, c), (x[1] * y[2]) * (c[2] - c[1]),
                 (x[1] * y[2] + y[1] * x[2]) * c[2])
  <1>1. /\ x \in Fractions /\ y \in Fractions /\ x[1] \in Nat /\ y[1] \in Nat
        /\ x[2] \in Nat \ {0} /\ y[2] \in Nat \ {0} /\ c[1] \in Int /\ c[2] \in Nat \ {0}
    BY Parts DEF Weights
  <1> DEFINE a == x[1] * y[2]
             b == y[1] * x[2]
             k == x[2] * y[2]
             r == c[2] - c[1]
  <1>2. a \in Nat /\ b \in Nat /\ (a > 0 \/ b > 0) /\ k \in Nat \ {0} /\ r \in Int
    BY <1>1, SignOfProduct, Positive
  <1>3. a + b \in Nat \ {0}
    <2> HIDE DEF a, b
    <2> QED
      BY <1>2
  <1>4. Is(DividedBy(x, Plus(x, y)), a, a + b)
    <2>1. Is(x, x[1], x[2])
      BY <1>1 DEF Is
    <2>2. Is(Plus(x, y), a + b, k)
      BY <1>1, PlusIs
    <2> DEFINE s == a + b
    <2>3. s \in Nat \ {0}
      BY <1>3
    <2>4. (x[1] * k) * s = a * (x[2] * s)
      <3>1. x[1] * k = a * x[2]
        BY <1>1
      <3> HIDE DEF a, k, s
      <3>2. (a * x[2]) * s = a * (x[2] * s)
        BY <1>1, <1>2, <2>3
      <3> QED
        BY <3>1, <3>2
    <2>5. x[1] * k \in Int /\ x[2] * s \in Nat \ {0}
      <3> HIDE DEF k, s
      <3> QED
        BY <1>1, <1>2, <2>3, Positive
    <2>6. Is(DividedBy(x, Plus(x, y)), x[1] * k, x[2] * s)
      <3> HIDE DEF a, b, k
      <3> QED
        BY <1>1, <1>2, <2>1, <2>2, <2>3, DividedByOf
    <2> HIDE DEF a, k, s
    <2>7. Is(DividedBy(x, Plus(x, y)), a, s)
      BY <1>2, <2>3, <2>4, <2>5, <2>6, SameNumber
    <2> QED
      BY <2>7 DEF s
  <1>5. Is(Minus(One, c), r, c[2])
    <2>1. Is(One, c[2], c[2])
      BY <1>1, OneIs, SameNumber
    <2>2. Is(c, c[1], c[2])
      BY <1>1 DEF Is
    <2> HIDE DEF a, b, k
    <2>3. c[2] \in Int
      BY <1>1
    <2> QED
      BY <1>1, <2>1, <2>2, <2>3, MinusOf
  <1>6. Is(Share(x, y, c), a * r, (a + b) * c[2])
    <2> HIDE DEF a, b, r
    <2> QED
      BY <1>1, <1>2, <1>3, <1>4, <1>5, TimesOf DEF Share
  <1> QED
    BY <1>3, <1>6

\* Setting one weight leaves a whole, if the other two are not both nothing.
LEMMA WholeShared ==
    ASSUME NEW x \in Weights, NEW y \in Weights, x[1] > 0 \/ y[1] > 0,
           NEW c \in Fractions, InRange(c)
    PROVE  /\ c \in Weights /\ Share(x, y, c) \in Weights /\ Share(y, x, c) \in Weights
           /\ Whole(c, Share(x, y, c), Share(y, x, c))
  <1>1. /\ x \in Fractions /\ y \in Fractions /\ x[1] \in Nat /\ y[1] \in Nat
        /\ x[2] \in Nat \ {0} /\ y[2] \in Nat \ {0} /\ c[1] \in Int /\ c[2] \in Nat \ {0}
        /\ 0 <= c[1] /\ c[1] <= c[2]
    BY Parts DEF Weights, InRange
  <1> DEFINE a == x[1] * y[2]
             b == y[1] * x[2]
             r == c[2] - c[1]
             u == Share(x, y, c)
             v == Share(y, x, c)
             k == (a + b) * c[2]
  <1>2. a \in Nat /\ b \in Nat /\ r \in Nat
    BY <1>1, SignOfProduct
  <1>3. a + b \in Nat \ {0} /\ b + a = a + b
    <2>1. a + b \in Nat \ {0}
      BY ShareIs
    <2> HIDE DEF a, b
    <2> QED
      BY <1>2, <2>1
  <1>4. Is(u, a * r, k)
    BY ShareIs
  <1>5. Is(v, b * r, k)
    <2>1. Is(v, b * r, (b + a) * c[2])
      BY ShareIs
    <2> QED
      BY <1>3, <2>1
  <1>6. k \in Nat \ {0} /\ a * r \in Int /\ b * r \in Int
        /\ a * r >= 0 /\ b * r >= 0
    <2> HIDE DEF a, b, r
    <2>1. k \in Nat \ {0}
      BY <1>1, <1>3, Positive
    <2> QED
      BY <1>2, <2>1
  <1> HIDE DEF u, v
  <1>7. u \in Weights /\ v \in Weights
    <2> HIDE DEF a, b, r, k
    <2> QED
      BY <1>4, <1>5, <1>6 DEF Is, Weights
  <1>8. Is(Plus(u, v), r, c[2])
    <2>1. Is(Plus(u, v), a * r + b * r, k)
      <3> HIDE DEF a, b, r, k
      <3> QED
        BY <1>4, <1>5, <1>6, PlusOf
    <2>2. (a * r + b * r) * c[2] = r * k
      <3> HIDE DEF a, b, r
      <3>1. a * r + b * r = (a + b) * r
        BY <1>2, Distributed
      <3> DEFINE s == a + b
      <3>2. s \in Nat
        BY <1>3
      <3>3. (s * r) * c[2] = r * (s * c[2])
        <4> HIDE DEF s
        <4> QED
          BY <1>1, <1>2, <3>2
      <3> QED
        BY <3>1, <3>3
    <2>3. a * r + b * r \in Int
      <3> HIDE DEF a, b, r
      <3> QED
        BY <1>6
    <2> HIDE DEF a, b, r, k
    <2> QED
      BY <1>1, <1>2, <1>6, <2>1, <2>2, <2>3, SameNumber
  <1>9. c \in Weights
    BY <1>1 DEF Weights
  <1>10. Whole(c, u, v)
    BY <1>7, <1>8, <1>9, WholeWithRest
  <1> QED
    BY <1>7, <1>9, <1>10 DEF u, v

\* Setting two weights leaves a whole.
LEMMA WholeRested ==
    ASSUME NEW c \in Weights, NEW d \in Weights, InRange(Plus(c, d))
    PROVE  Rest(c, d) \in Weights /\ Whole(Rest(c, d), c, d)
  <1> DEFINE p == Plus(c, d)
             z == Rest(c, d)
  <1>1. p \in Fractions /\ p[1] \in Int /\ p[2] \in Nat \ {0} /\ p[1] <= p[2] /\ p[1] >= 0
    <2>1. /\ c \in Fractions /\ d \in Fractions /\ c[1] \in Nat /\ d[1] \in Nat
          /\ c[2] \in Nat \ {0} /\ d[2] \in Nat \ {0}
      BY Parts DEF Weights
    <2> DEFINE n == c[1] * d[2] + d[1] * c[2]
    <2>2. Is(p, n, c[2] * d[2])
      BY <2>1, PlusIs
    <2>3. n >= 0
      <3>1. c[1] * d[2] >= 0 /\ d[1] * c[2] >= 0 /\ c[1] * d[2] \in Int /\ d[1] * c[2] \in Int
        BY <2>1, SignOfProduct
      <3> QED
        BY <3>1
    <2> HIDE DEF p, n
    <2> QED
      BY <2>2, <2>3, Parts DEF Is, InRange, p
  <1> HIDE DEF p
  <1>2. Is(z, p[2] - p[1], p[2])
    <2>1. Is(One, p[2], p[2])
      BY <1>1, OneIs, SameNumber
    <2>2. Is(p, p[1], p[2])
      BY <1>1 DEF Is
    <2>3. Is(Minus(One, p), p[2] - p[1], p[2])
      BY <1>1, <2>1, <2>2, MinusOf
    <2> QED
      BY <2>3 DEF Rest, p
  <1> HIDE DEF z
  <1>3. z \in Fractions /\ z[1] \in Int /\ z[2] \in Nat \ {0} /\ z[1] >= 0
    BY <1>1, <1>2, Parts DEF Is
  <1>4. Is(p, z[2] - z[1], z[2])
    <2>1. z[1] * p[2] = (p[2] - p[1]) * z[2]
      BY <1>2 DEF Is
    <2>2. /\ (p[2] - p[1]) * z[2] = p[2] * z[2] - p[1] * z[2]
          /\ (z[2] - z[1]) * p[2] = z[2] * p[2] - z[1] * p[2]
      BY <1>1, <1>3, Distributed
    <2>3. p[2] * z[2] = z[2] * p[2] /\ p[2] * z[2] \in Int /\ p[1] * z[2] \in Int /\ z[1] * p[2] \in Int
      BY <1>1, <1>3
    <2>4. p[1] * z[2] = (z[2] - z[1]) * p[2]
      BY <2>1, <2>2, <2>3
    <2>5. Is(p, p[1], p[2]) /\ z[2] - z[1] \in Int
      BY <1>1, <1>3 DEF Is
    <2> QED
      BY <1>1, <1>3, <2>4, <2>5, SameNumber
  <1>5. z \in Weights
    BY <1>3 DEF Weights
  <1>6. Whole(z, c, d)
    BY <1>4, <1>5, WholeWithRest DEF p
  <1> QED
    BY <1>5, <1>6 DEF z

-----------------------------------------------------------------------------
(* When the weights that are not set are both nothing.                     *)

LEMMA NothingIsZero ==
    ASSUME NEW x \in Weights, NEW y \in Weights, x[1] = 0, y[1] = 0
    PROVE  Plus(x, y) = Zero
  <1>1. /\ x \in Fractions /\ y \in Fractions /\ x[2] \in Nat \ {0} /\ y[2] \in Nat \ {0}
        /\ NaN \notin {x, y}
    BY Parts DEF Weights
  <1> DEFINE k == x[2] * y[2]
             p == Plus(x, y)
  <1>2. k \in Nat \ {0} /\ x[1] * y[2] + y[1] * x[2] = 0
    BY <1>1, Positive
  <1>3. Is(p, 0, k) /\ p = Reduced(0, k)
    BY <1>1, <1>2, PlusIs DEF Plus
  <1>4. Lowest(p[1], p[2])
    <2> HIDE DEF k
    <2> QED
      BY <1>2, <1>3, ReducedIsLowest
  <1> HIDE DEF k, p
  <1>5. p \in Fractions /\ p[1] \in Int /\ p[2] \in Nat \ {0} /\ p[1] = 0
    BY <1>3, Parts DEF Is
  <1>6. p[2] = 1
    <2>1. p[1] = 0 * p[2] /\ p[2] = 1 * p[2]
      BY <1>5
    <2> QED
      BY <1>4, <1>5, <2>1 DEF Lowest
  <1> QED
    BY <1>5, <1>6 DEF Fractions, Zero, p

LEMMA SharedNothing ==
    ASSUME NEW x, NEW y, NEW c, Plus(x, y) \in {Zero, NaN}
    PROVE  Share(x, y, c) = NaN
  <1>1. DividedBy(x, Plus(x, y)) = NaN
    BY DEF DividedBy
  <1> QED
    BY <1>1 DEF Share, Times

\* One of three weights is less than the whole iff the other two are not both nothing.
LEMMA RestOfWhole ==
    ASSUME NEW x \in Weights, NEW y \in Weights, NEW z \in Weights, Whole(x, y, z)
    PROVE  LessThanWhole(x) <=> y[1] > 0 \/ z[1] > 0
  <1>1. /\ x[1] \in Nat /\ x[2] \in Nat \ {0} /\ y[1] \in Nat /\ y[2] \in Nat \ {0}
        /\ z[1] \in Nat /\ z[2] \in Nat \ {0}
    BY Parts DEF Weights
  <1> DEFINE k == y[2] * z[2]
             l == x[2] * z[2]
             m == x[2] * y[2]
             n == x[2] - x[1]
  <1>2. k \in Nat \ {0} /\ l \in Nat \ {0} /\ m \in Nat \ {0} /\ n \in Int
    BY <1>1, Positive
  <1>3. /\ y[1] * l \in Nat /\ (y[1] > 0 <=> y[1] * l > 0)
        /\ z[1] * m \in Nat /\ (z[1] > 0 <=> z[1] * m > 0)
        /\ n * k \in Int /\ (n > 0 <=> n * k > 0)
    <2> HIDE DEF k, l, m, n
    <2> QED
      BY <1>1, <1>2, SignOfProduct
  <1>4. n * k = y[1] * l + z[1] * m
    <2>1. x[1] * k + y[1] * l + z[1] * m = x[2] * k
      BY DEF Whole
    <2>2. n * k = x[2] * k - x[1] * k /\ x[2] * k \in Int /\ x[1] * k \in Int
      <3> HIDE DEF k
      <3> QED
        BY <1>1, <1>2, Distributed
    <2> HIDE DEF k, l, m, n
    <2> QED
      BY <1>3, <2>1, <2>2
  <1>5. n > 0 <=> x[1] < x[2]
    BY <1>1
  <1> HIDE DEF k, l, m, n
  <1> QED
    BY <1>1, <1>3, <1>4, <1>5 DEF LessThanWhole

\* The weight x of a whole is set to c: the other two share the rest, or are lost.
LEMMA OneIsSet ==
    ASSUME NEW x \in Weights, NEW y \in Weights, NEW z \in Weights, Whole(x, y, z),
           NEW c \in Fractions, InRange(c)
    PROVE  /\ LessThanWhole(x) =>
                 /\ c \in Weights /\ Share(y, z, c) \in Weights /\ Share(z, y, c) \in Weights
                 /\ Whole(c, Share(y, z, c), Share(z, y, c))
           /\ ~LessThanWhole(x) => Share(y, z, c) = NaN /\ Share(z, y, c) = NaN
  <1>1. CASE LessThanWhole(x)
    BY <1>1, RestOfWhole, WholeShared
  <1>2. CASE ~LessThanWhole(x)
    <2>1. y[1] = 0 /\ z[1] = 0
      <3>1. ~(y[1] > 0 \/ z[1] > 0)
        BY <1>2, RestOfWhole
      <3>2. y[1] \in Int /\ z[1] \in Int /\ y[1] >= 0 /\ z[1] >= 0
        BY Parts DEF Weights
      <3> QED
        BY <3>1, <3>2
    <2>2. Plus(y, z) = Zero /\ Plus(z, y) = Zero
      BY <2>1, NothingIsZero
    <2> QED
      BY <1>2, <2>2, SharedNothing
  <1> QED
    BY <1>1, <1>2

-----------------------------------------------------------------------------
(* The invariant.                                                          *)

\* The weights make one whole ...
Right(x, y, z) == x \in Weights /\ y \in Weights /\ z \in Weights /\ Whole(x, y, z)

\* ... or two of them are lost.
Lost(x, y, z) == (x = NaN /\ y = NaN) \/ (x = NaN /\ z = NaN) \/ (y = NaN /\ z = NaN)

WeightsInv == Right(time, size, reference) \/ Lost(time, size, reference)

LEMMA RightIsOne == Right(time, size, reference) => SumsToOne
  BY WholeIsOne, Parts DEF Right, Weights, SumsToOne

LEMMA LostIsNotOne == Lost(time, size, reference) => ~SumsToOne
  BY DEF Lost, SumsToOne

LEMMA WeightsInit == Init => Right(time, size, reference)
  <1>1. <<1, 3>> \in Weights /\ Whole(<<1, 3>>, <<1, 3>>, <<1, 3>>)
    BY DEF Weights, Fractions, Whole
  <1> QED
    BY <1>1 DEF Init, Right

\* A setter of one weight keeps a whole unless that weight was all of it, and never
\* makes one of what is lost.
LEMMA WeightsSetOne ==
    ASSUME NEW c \in Proportions, NEW x, NEW y, NEW z, NEW xn, NEW yn, NEW zn,
           InRange(c), xn = c, yn = Share(y, z, c), zn = Share(z, y, c)
    PROVE  /\ Right(x, y, z) /\ LessThanWhole(x) => Right(xn, yn, zn)
           /\ Right(x, y, z) /\ ~LessThanWhole(x) => yn = NaN /\ zn = NaN
           /\ Lost(x, y, z) => yn = NaN /\ zn = NaN
  <1>1. c \in Fractions
    BY ProportionAssumption
  <1>2. ASSUME Right(x, y, z)
        PROVE  /\ LessThanWhole(x) => Right(xn, yn, zn)
               /\ ~LessThanWhole(x) => yn = NaN /\ zn = NaN
    BY <1>1, <1>2, OneIsSet DEF Right
  <1>3. ASSUME Lost(x, y, z)
        PROVE  yn = NaN /\ zn = NaN
    <2>1. Plus(y, z) = NaN /\ Plus(z, y) = NaN
      BY <1>3 DEF Lost, Plus
    <2> QED
      BY <2>1, SharedNothing
  <1> QED
    BY <1>2, <1>3

LEMMA RightTurns ==
    ASSUME NEW x, NEW y, NEW z
    PROVE  /\ Right(x, y, z) <=> Right(y, x, z)
           /\ Right(x, y, z) <=> Right(z, x, y)
           /\ Lost(x, y, z) <=> Lost(y, x, z)
           /\ Lost(x, y, z) <=> Lost(z, x, y)
  <1>1. ASSUME NEW u, NEW v, NEW w, Right(u, v, w)
        PROVE  Right(v, u, w) /\ Right(v, w, u)
    BY <1>1, WholeTurns DEF Right
  <1>2. Right(x, y, z) <=> Right(y, x, z)
    BY <1>1
  <1>3. Right(x, y, z) => Right(z, x, y)
    <2>1. Right(x, y, z) => Right(y, z, x)
      BY <1>1
    <2>2. Right(y, z, x) => Right(z, x, y)
      BY <1>1
    <2> QED
      BY <2>1, <2>2
  <1>4. Right(z, x, y) => Right(x, y, z)
    BY <1>1
  <1> QED
    BY <1>2, <1>3, <1>4 DEF Lost

\* What each setter of one weight does.
LEMMA SetterEffects ==
    ASSUME WeightsInv, NEW c \in Proportions
    PROVE  /\ SetTimeContributionConstant(c) =>
                 IF Right(time, size, reference) /\ LessThanWhole(time)
                 THEN Right(time, size, reference)'
                 ELSE size' = NaN /\ reference' = NaN
           /\ SetSizeContributionConstant(c) =>
                 IF Right(time, size, reference) /\ LessThanWhole(size)
                 THEN Right(time, size, reference)'
                 ELSE time' = NaN /\ reference' = NaN
           /\ SetReferenceContributionConstant(c) =>
                 IF Right(time, size, reference) /\ LessThanWhole(reference)
                 THEN Right(time, size, reference)'
                 ELSE time' = NaN /\ size' = NaN
  <1>1. ASSUME SetTimeContributionConstant(c)
        PROVE  IF Right(time, size, reference) /\ LessThanWhole(time)
               THEN Right(time', size', reference')
               ELSE size' = NaN /\ reference' = NaN
    BY <1>1, WeightsSetOne DEF SetTimeContributionConstant, WeightsInv
  <1>2. ASSUME SetSizeContributionConstant(c)
        PROVE  IF Right(time, size, reference) /\ LessThanWhole(size)
               THEN Right(time', size', reference')
               ELSE time' = NaN /\ reference' = NaN
    <2>1. /\ Right(size, time, reference) /\ LessThanWhole(size) => Right(size', time', reference')
          /\ Right(size, time, reference) /\ ~LessThanWhole(size) => time' = NaN /\ reference' = NaN
          /\ Lost(size, time, reference) => time' = NaN /\ reference' = NaN
      BY <1>2, WeightsSetOne DEF SetSizeContributionConstant
    <2> QED
      BY <2>1, RightTurns DEF WeightsInv
  <1>3. ASSUME SetReferenceContributionConstant(c)
        PROVE  IF Right(time, size, reference) /\ LessThanWhole(reference)
               THEN Right(time', size', reference')
               ELSE time' = NaN /\ size' = NaN
    <2>1. /\ Right(reference, time, size) /\ LessThanWhole(reference) => Right(reference', time', size')
          /\ Right(reference, time, size) /\ ~LessThanWhole(reference) => time' = NaN /\ size' = NaN
          /\ Lost(reference, time, size) => time' = NaN /\ size' = NaN
      BY <1>3, WeightsSetOne DEF SetReferenceContributionConstant
    <2> QED
      BY <2>1, RightTurns DEF WeightsInv
  <1> QED
    BY <1>1, <1>2, <1>3

LEMMA WeightsSetTwo ==
    ASSUME NEW c \in Proportions, NEW d \in Proportions, SetTwo(c, d)
    PROVE  Right(time', size', reference')
  <1>1. c \in Weights /\ d \in Weights
    <2>1. c \in Fractions /\ d \in Fractions
      BY ProportionAssumption
    <2>2. InRange(c) /\ InRange(d)
      BY DEF SetTwo, SetReferenceAndTimeContributionConstant,
             SetReferenceAndSizeContributionConstant, SetTimeAndSizeContributionConstant
    <2> QED
      BY <2>1, <2>2, Parts DEF Weights, InRange
  <1>2. Plus(c, d) = Plus(d, c)
    <2>1. c[1] \in Int /\ c[2] \in Int /\ d[1] \in Int /\ d[2] \in Int
      BY <1>1, Parts DEF Weights
    <2>2. c[1] * d[2] + d[1] * c[2] = d[1] * c[2] + c[1] * d[2] /\ c[2] * d[2] = d[2] * c[2]
      BY <2>1
    <2> QED
      BY <2>2 DEF Plus
  <1>3. CASE SetReferenceAndTimeContributionConstant(c, d)
    <2>1. size' \in Weights /\ Whole(size', d, c)
      BY <1>1, <1>2, <1>3, WholeRested DEF SetReferenceAndTimeContributionConstant
    <2>2. Whole(d, size', c)
      BY <1>1, <2>1, WholeTurns
    <2> QED
      BY <1>1, <1>3, <2>1, <2>2 DEF SetReferenceAndTimeContributionConstant, Right
  <1>4. CASE SetReferenceAndSizeContributionConstant(c, d)
    <2>1. time' \in Weights /\ Whole(time', d, c)
      BY <1>1, <1>2, <1>4, WholeRested DEF SetReferenceAndSizeContributionConstant
    <2> QED
      BY <1>1, <1>4, <2>1 DEF SetReferenceAndSizeContributionConstant, Right
  <1>5. CASE SetTimeAndSizeContributionConstant(c, d)
    <2>1. reference' \in Weights /\ Whole(reference', d, c)
      BY <1>1, <1>2, <1>5, WholeRested DEF SetTimeAndSizeContributionConstant
    <2>2. Whole(d, c, reference')
      BY <1>1, <2>1, WholeTurns
    <2>3. Whole(c, d, reference')
      BY <1>1, <2>1, <2>2, WholeTurns
    <2> QED
      BY <1>1, <1>5, <2>1, <2>3 DEF SetTimeAndSizeContributionConstant, Right
  <1> QED
    BY <1>3, <1>4, <1>5 DEF SetTwo

LEMMA WeightsInvariant == Spec => []WeightsInv
  <1>1. Init => WeightsInv
    BY WeightsInit DEF WeightsInv
  <1>2. WeightsInv /\ [Next]_vars => WeightsInv'
    <2>1. ASSUME WeightsInv, NEW c \in Proportions, SetOne(c)
          PROVE  WeightsInv'
      BY <2>1, SetterEffects DEF SetOne, WeightsInv, Lost
    <2>2. ASSUME NEW c \in Proportions, NEW d \in Proportions, SetTwo(c, d)
          PROVE  WeightsInv'
      BY <2>2, WeightsSetTwo DEF WeightsInv
    <2>3. ASSUME WeightsInv, UNCHANGED vars
          PROVE  WeightsInv'
      BY <2>3 DEF WeightsInv, vars
    <2> QED
      BY <2>1, <2>2, <2>3 DEF Next
  <1> QED
    BY <1>1, <1>2, PTL DEF Spec

\* The three weights of the default policy make one whole after any setter of two, and
\* after a setter of one exactly if they did before and it was not the whole that was
\* set: then, and only then, the other two become NaN.  This is so for all proportions,
\* nothing and the whole included.
THEOREM WeightsAreOneWhole == Spec => SumIsOne
  <1> DEFINE Kept(c) ==
          /\ (\E d \in Proportions : SetTwo(c, d)) => SumsToOne'
          /\ SetTimeContributionConstant(c) => (SumsToOne' <=> SumsToOne /\ LessThanWhole(time))
          /\ SetSizeContributionConstant(c) => (SumsToOne' <=> SumsToOne /\ LessThanWhole(size))
          /\ SetReferenceContributionConstant(c) =>
                 (SumsToOne' <=> SumsToOne /\ LessThanWhole(reference))
  <1>1. Init => SumsToOne
    BY WeightsInit, RightIsOne
  <1>2. /\ Right(time', size', reference') => SumsToOne'
        /\ Lost(time', size', reference') => ~SumsToOne'
    <2>1. Right(time, size, reference)' => SumsToOne'
      BY RightIsOne, PTL
    <2>2. Lost(time, size, reference)' => ~SumsToOne'
      BY LostIsNotOne, PTL
    <2> QED
      BY <2>1, <2>2
  <1>3. WeightsInv => (SumsToOne <=> Right(time, size, reference))
    BY RightIsOne, LostIsNotOne DEF WeightsInv
  <1>4. WeightsInv /\ [Next]_vars => [\A c \in Proportions : Kept(c)]_vars
    <2> SUFFICES ASSUME WeightsInv, NEW c \in Proportions
                 PROVE  Kept(c)
      OBVIOUS
    <2>1. (\E d \in Proportions : SetTwo(c, d)) => SumsToOne'
      BY <1>2, WeightsSetTwo
    <2>2. ASSUME SetTimeContributionConstant(c)
          PROVE  SumsToOne' <=> SumsToOne /\ LessThanWhole(time)
      BY <1>2, <1>3, <2>2, SetterEffects DEF Lost
    <2>3. ASSUME SetSizeContributionConstant(c)
          PROVE  SumsToOne' <=> SumsToOne /\ LessThanWhole(size)
      BY <1>2, <1>3, <2>3, SetterEffects DEF Lost
    <2>4. ASSUME SetReferenceContributionConstant(c)
          PROVE  SumsToOne' <=> SumsToOne /\ LessThanWhole(reference)
      BY <1>2, <1>3, <2>4, SetterEffects DEF Lost
    <2> QED
      BY <2>1, <2>2, <2>3, <2>4
  <1> QED
    BY <1>1, <1>4, WeightsInvariant, PTL DEF Spec, SumIsOne

-----------------------------------------------------------------------------
(* The proportion of the weights that are not set.                         *)

\* Fractions in lowest terms that are the same number are equal.
LEMMA SameFraction ==
    ASSUME NEW f, NEW h, NEW n \in Int, NEW d \in Nat \ {0}, Is(f, n, d), Is(h, n, d),
           Lowest(f[1], f[2]), Lowest(h[1], h[2])
    PROVE  f = h
  <1>1. /\ f[1] \in Int /\ f[2] \in Nat \ {0} /\ h[1] \in Int /\ h[2] \in Nat \ {0}
        /\ f = <<f[1], f[2]>> /\ h = <<h[1], h[2]>> /\ f[1] * d = n * f[2]
    BY DEF Is, Fractions
  <1>2. Is(h, f[1], f[2])
    BY <1>1, SameNumber
  <1>3. f[1] * h[2] = h[1] * f[2]
    BY <1>2 DEF Is
  <1>4. f[1] = h[1] /\ f[2] = h[2]
    BY <1>1, <1>3, LowestIsUnique
  <1> QED
    BY <1>1, <1>4

LEMMA TimesIsLowest ==
    ASSUME NEW x \in Fractions, NEW y \in Fractions
    PROVE  Lowest(Times(x, y)[1], Times(x, y)[2])
  <1>1. /\ x[1] \in Int /\ x[2] \in Nat \ {0} /\ y[1] \in Int /\ y[2] \in Nat \ {0}
        /\ NaN \notin {x, y}
    BY Parts
  <1>2. x[1] * y[1] \in Int /\ x[2] * y[2] \in Nat \ {0}
    BY <1>1, Positive
  <1> QED
    BY <1>1, <1>2, ReducedIsLowest DEF Times

LEMMA SharesKeepProportion ==
    ASSUME NEW x \in Weights, NEW y \in Weights, x[1] > 0 \/ y[1] > 0, NEW c \in Fractions
    PROVE  Times(x, Share(y, x, c)) = Times(Share(x, y, c), y)
  <1>1. /\ x \in Fractions /\ y \in Fractions /\ x[1] \in Nat /\ y[1] \in Nat
        /\ x[2] \in Nat \ {0} /\ y[2] \in Nat \ {0} /\ c[1] \in Int /\ c[2] \in Nat \ {0}
    BY Parts DEF Weights
  <1> DEFINE a == x[1] * y[2]
             b == y[1] * x[2]
             r == c[2] - c[1]
             u == Share(x, y, c)
             v == Share(y, x, c)
             k == (a + b) * c[2]
  <1>2. a \in Nat /\ b \in Nat /\ r \in Int
    BY <1>1, SignOfProduct
  <1>3. b + a = a + b
    <2> HIDE DEF a, b
    <2> QED
      BY <1>2
  <1>4. Is(u, a * r, k) /\ a + b \in Nat \ {0}
    BY ShareIs
  <1>5. Is(v, b * r, k)
    <2>1. Is(v, b * r, (b + a) * c[2])
      BY ShareIs
    <2> QED
      BY <1>3, <2>1
  <1>6. k \in Nat \ {0} /\ a * r \in Int /\ b * r \in Int
    <2> HIDE DEF a, b, r
    <2> QED
      BY <1>1, <1>2, <1>4, Positive
  <1> HIDE DEF u, v, k
  <1> DEFINE n == x[1] * (b * r)
             d == x[2] * k
             m == (a * r) * y[1]
             e == k * y[2]
  <1>7. n \in Int /\ d \in Nat \ {0} /\ m \in Int /\ e \in Nat \ {0}
    <2> HIDE DEF a, b, r
    <2> QED
      BY <1>1, <1>6, Positive
  <1>8. Is(Times(x, v), n, d) /\ Is(Times(u, y), m, e)
    <2>1. Is(x, x[1], x[2]) /\ Is(y, y[1], y[2])
      BY <1>1 DEF Is
    <2> HIDE DEF a, b, r
    <2> QED
      BY <1>1, <1>4, <1>5, <1>6, <2>1, TimesOf
  <1>9. m * d = n * e
    <2>1. n = ((x[1] * y[1]) * r) * x[2]
      BY <1>1, <1>2
    <2>2. m = ((x[1] * y[1]) * r) * y[2]
      BY <1>1, <1>2
    <2> DEFINE w == (x[1] * y[1]) * r
    <2>3. w \in Int
      BY <1>1, <1>2
    <2> HIDE DEF w
    <2>4. (w * y[2]) * (x[2] * k) = (w * x[2]) * (k * y[2])
      BY <1>1, <1>6, <2>3
    <2> QED
      BY <2>1, <2>2, <2>4 DEF w
  <1> HIDE DEF n, d, m, e
  <1>10. Is(Times(u, y), n, d)
    BY <1>7, <1>8, <1>9, SameNumber
  <1>11. u \in Fractions /\ v \in Fractions
    BY <1>4, <1>5 DEF Is
  <1>12. /\ Lowest(Times(x, v)[1], Times(x, v)[2])
         /\ Lowest(Times(u, y)[1], Times(u, y)[2])
    BY <1>1, <1>11, TimesIsLowest
  <1>13. Times(x, v) = Times(u, y)
    BY <1>7, <1>8, <1>10, <1>12, SameFraction
  <1> QED
    BY <1>13 DEF u, v

LEMMA ProportionOfOthers ==
    ASSUME NEW x, NEW y, NEW z, Right(x, y, z), LessThanWhole(x), NEW c \in Proportions
    PROVE  Times(y, Share(z, y, c)) = Times(Share(y, z, c), z)
  <1>1. y[1] > 0 \/ z[1] > 0
    BY RestOfWhole DEF Right
  <1> QED
    BY <1>1, SharesKeepProportion, ProportionAssumption DEF Right

\* Setting one weight leaves the proportion of the other two as it was, exactly, as
\* long as they are numbers.
THEOREM ProportionsAreKept == Spec => ProportionKept
  <1> DEFINE Kept(c) ==
          /\ SetTimeContributionConstant(c) => Times(size, reference') = Times(size', reference)
          /\ SetSizeContributionConstant(c) => Times(time, reference') = Times(time', reference)
          /\ SetReferenceContributionConstant(c) => Times(time, size') = Times(time', size)
  <1>1. WeightsInv /\ [Next]_vars => [\A c \in Proportions : Kept(c)]_vars
    <2> SUFFICES ASSUME WeightsInv, NEW c \in Proportions
                 PROVE  Kept(c)
      OBVIOUS
    <2>0. \A x, y : Times(x, NaN) = Times(NaN, y)
      BY DEF Times
    <2>1. ASSUME SetTimeContributionConstant(c)
          PROVE  Times(size, reference') = Times(size', reference)
      BY <2>0, <2>1, SetterEffects, ProportionOfOthers DEF SetTimeContributionConstant
    <2>2. ASSUME SetSizeContributionConstant(c)
          PROVE  Times(time, reference') = Times(time', reference)
      BY <2>0, <2>2, SetterEffects, RightTurns, ProportionOfOthers DEF SetSizeContributionConstant
    <2>3. ASSUME SetReferenceContributionConstant(c)
          PROVE  Times(time, size') = Times(time', size)
      BY <2>0, <2>3, SetterEffects, RightTurns, ProportionOfOthers
         DEF SetReferenceContributionConstant
    <2> QED
      BY <2>1, <2>2, <2>3
  <1> QED
    BY <1>1, WeightsInvariant, PTL DEF ProportionKept, Spec
=============================================================================
