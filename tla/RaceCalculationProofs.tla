------------------------- MODULE RaceCalculationProofs -------------------------
(***************************************************************************)
(* What is proved of the race calculation, for every length of lap, tank,  *)
(* fuel burned, race, stored laps and unit of fuel.                        *)
(*                                                                         *)
(* The median and the MAD are pinned down by ranks: how many values are    *)
(* under a value and how many are up to it. From there on BaseInv says     *)
(* what the main loop knows, LimitInv where the race ends, EnoughInv for   *)
(* how many steps the fuel is enough, and NowInv that a stop said to be    *)
(* the last one is.                                                        *)
(***************************************************************************)
EXTENDS RaceCalculation, FiniteSetTheorems, WellFoundedInduction, TLAPS

(* Arithmetic: division, and laps of q steps. *)

\* Division of a natural number leaves a remainder below the divisor.
LEMMA Divided ==
  ASSUME NEW q \in Nat \ {0}, NEW p \in Nat
  PROVE  p \div q \in Nat /\ p % q \in 0 .. q - 1 /\ p = q * (p \div q) + (p % q)
OBVIOUS

\* The remainder of a number that is given as quotient and remainder.
LEMMA Quotient ==
  ASSUME NEW q \in Nat \ {0}, NEW a \in Nat, NEW r \in 0 .. q - 1
  PROVE  (q * a + r) % q = r
<1> DEFINE p == q * a + r
           b == p \div q
           s == p % q
<1>1. p \in Nat /\ b \in Nat /\ s \in 0 .. q - 1 /\ p = q * b + s
  <2>1. q * a \in Nat
    OBVIOUS
  <2>2. p \in Nat
    BY <2>1
  <2> HIDE DEF p
  <2>3. QED
    BY <2>2, Divided
<1> HIDE DEF b, s
<1>2. q * (a - b) = s - r
  BY <1>1
<1>3. \A x, y, z \in Int : x > 0 /\ x * y = z /\ z < x /\ - x < z => y = 0
  <2>1. SUFFICES ASSUME NEW x \in Int, NEW y \in Int, NEW z \in Int,
                        x > 0, x * y = z, z < x, - x < z
                 PROVE  y = 0
    OBVIOUS
  <2>2. CASE y >= 1
    <3>1. x * y >= x
      BY <2>1, <2>2
    <3>2. QED
      BY <3>1, <2>1
  <2>3. CASE y <= -1
    <3>1. x * y <= - x
      BY <2>1, <2>3
    <3>2. QED
      BY <3>1, <2>1
  <2>4. QED
    BY <2>1, <2>2, <2>3
<1>4. a - b = 0
  <2>1. s - r < q /\ - q < s - r /\ a - b \in Int /\ s - r \in Int /\ q \in Int /\ q > 0
    BY <1>1
  <2>2. QED
    BY <2>1, <1>2, <1>3
<1>5. QED
  BY <1>1, <1>4 DEF s

\* One step further on a track of q steps.
LEMMA NextLine ==
  ASSUME NEW q \in Nat \ {0}, NEW p \in Nat
  PROVE  (p + 1) % q = IF p % q = q - 1 THEN 0 ELSE (p % q) + 1
<1> DEFINE a == p \div q
           r == p % q
<1>1. a \in Nat /\ r \in 0 .. q - 1 /\ p = q * a + r
  BY Divided
<1> HIDE DEF a, r
<1>2. CASE r = q - 1
  <2>1. p + 1 = q * (a + 1) + 0 /\ a + 1 \in Nat /\ 0 \in 0 .. q - 1
    BY <1>1, <1>2
  <2>2. QED
    BY <2>1, <1>2, Quotient DEF r
<1>3. CASE r # q - 1
  <2>1. p + 1 = q * a + (r + 1) /\ r + 1 \in 0 .. q - 1
    BY <1>1, <1>3
  <2>2. (q * a + (r + 1)) % q = r + 1
    BY <1>1, <2>1, Quotient
  <2>3. QED
    BY <2>1, <2>2, <1>3 DEF r
<1>4. QED
  BY <1>2, <1>3

\* A positive factor cancels.
LEMMA Cancelled ==
  ASSUME NEW x \in Int, NEW y \in Int, NEW d \in Nat \ {0}, x * d <= y * d
  PROVE  x <= y
OBVIOUS

\* The same for the strict order.
LEMMA CancelledLess ==
  ASSUME NEW x \in Int, NEW y \in Int, NEW d \in Nat \ {0}, x * d < y * d
  PROVE  x < y
OBVIOUS

\* A multiple is divided exactly.
LEMMA Exact ==
  ASSUME NEW q \in Nat \ {0}, NEW a \in Nat
  PROVE  (q * a) \div q = a /\ (q * a) % q = 0
<1>1. q * a + 0 = q * a /\ 0 \in 0 .. q - 1 /\ q * a \in Nat
  OBVIOUS
<1>2. (q * a) % q = 0
  <2>1. (q * a + 0) % q = 0
    BY <1>1, Quotient
  <2>2. QED
    BY <2>1, <1>1
<1> DEFINE b == (q * a) \div q
<1>3. b \in Nat /\ q * a = q * b + ((q * a) % q)
  BY <1>1, Divided
<1> HIDE DEF b
<1>4. a * q = b * q
  BY <1>2, <1>3
<1>5. a <= b /\ b <= a
  BY <1>3, <1>4, Cancelled
<1>6. QED
  BY <1>2, <1>3, <1>5 DEF b

\* The next line, at most q further.
LEMMA LineAhead ==
  ASSUME NEW q \in Nat \ {0}, NEW p \in Nat
  PROVE  \E k \in Nat \ {0} : p <= q * k /\ q * k <= p + q
<1> DEFINE k == (p \div q) + 1
<1>1. p \div q \in Nat /\ p % q \in 0 .. q - 1 /\ p = q * (p \div q) + (p % q)
  BY Divided
<1>2. \A a \in Nat : q * (a + 1) = q * a + q
  OBVIOUS
<1>3. q * k = q * (p \div q) + q
  BY <1>1, <1>2
<1>4. q * (p \div q) \in Nat
  BY <1>1
<1>5. p <= q * k /\ q * k <= p + q
  BY <1>1, <1>3, <1>4
<1>6. k \in Nat \ {0}
  BY <1>1
<1>7. QED
  BY <1>5, <1>6

\* Division keeps the order.
LEMMA QuotientsGrow ==
  ASSUME NEW q \in Nat \ {0}, NEW a \in Nat, NEW b \in Nat, a <= b
  PROVE  a \div q <= b \div q
<1> DEFINE m == a \div q
           n == b \div q
<1>1. /\ m \in Nat /\ a % q \in 0 .. q - 1 /\ a = q * m + (a % q)
      /\ n \in Nat /\ b % q \in 0 .. q - 1 /\ b = q * n + (b % q)
  BY Divided
<1> HIDE DEF m, n
<1>2. q * m < q * n + q
  BY <1>1
<1>3. m * q < (n + 1) * q
  BY <1>1, <1>2
<1>4. m < n + 1
  BY <1>1, <1>3, CancelledLess
<1>5. QED
  BY <1>1, <1>4 DEF m, n

\* Fuel for n / d laps of q steps, of which a lap needs e, is fuel for each step.
LEMMA StepsOfLaps ==
  ASSUME NEW q \in Nat \ {0}, NEW n \in Nat, NEW d \in Nat \ {0}, NEW e \in Nat,
         NEW left \in Nat, NEW b \in Nat,
         n * e <= 4 * left * d, 4 * q * b <= e
  PROVE  ((q * n) \div d) * b <= left
<1> DEFINE x == (q * n) \div d
<1>1. q * n \in Nat
  OBVIOUS
<1>2. x \in Nat /\ (q * n) % d \in 0 .. d - 1 /\ q * n = d * x + ((q * n) % d)
  BY <1>1, Divided
<1> HIDE DEF x
<1>3. d * x <= q * n
  <2>1. d * x \in Nat
    BY <1>2
  <2>2. QED
    BY <2>1, <1>1, <1>2
<1>4. \A u, w, z \in Nat : u <= w => u * z <= w * z
  OBVIOUS
<1>5. (d * x) * (4 * b) <= (q * n) * (4 * b)
  <2>1. d * x \in Nat /\ 4 * b \in Nat
    BY <1>2
  <2>2. QED
    BY <2>1, <1>1, <1>3, <1>4
<1>6. (4 * q * b) * n <= e * n
  <2>1. 4 * q * b \in Nat
    OBVIOUS
  <2>2. QED
    BY <2>1, <1>4
<1>7. (q * n) * (4 * b) = (4 * q * b) * n /\ e * n = n * e
  OBVIOUS
<1>8. (d * x) * (4 * b) = (x * b) * (4 * d) /\ 4 * left * d = left * (4 * d)
  BY <1>2
<1>9. /\ (x * b) * (4 * d) \in Nat /\ left * (4 * d) \in Nat
      /\ (q * n) * (4 * b) \in Nat /\ e * n \in Nat
  BY <1>2
<1>10. (x * b) * (4 * d) <= left * (4 * d)
  <2>1. \A t, u, w, z \in Nat : t <= u /\ u <= w /\ w <= z => t <= z
    OBVIOUS
  <2>2. QED
    BY <2>1, <1>5, <1>6, <1>7, <1>8, <1>9
<1>11. x * b \in Int /\ 4 * d \in Nat \ {0}
  BY <1>2
<1>12. x * b <= left
  BY <1>10, <1>11, Cancelled
<1>13. QED
  BY <1>12 DEF x

-------------------------------------------------------------------------------

(* The median and the median absolute deviation. *)

\* A set of natural numbers that is not empty has a least element.
LEMMA LeastElement ==
  ASSUME NEW T, T \subseteq Nat, T # {}
  PROVE  \E x \in T : \A y \in T : x <= y
<1>1. \E x \in T : \A y \in T : << y, x >> \notin OpToRel(<, Nat)
  BY NatLessThanWellFounded, WFMin
<1>2. PICK x \in T : \A y \in T : << y, x >> \notin OpToRel(<, Nat)
  BY <1>1
<1>3. ASSUME NEW y \in T
      PROVE  x <= y
  <2>1. x \in Nat /\ y \in Nat
    OBVIOUS
  <2>2. << y, x >> \notin OpToRel(<, Nat)
    BY <1>2
  <2>3. ~(y < x)
    BY <2>1, <2>2 DEF OpToRel
  <2>4. QED
    BY <2>1, <2>3
<1>4. QED
  BY <1>3

\* So has a function with natural values.
LEMMA LeastValue ==
  ASSUME NEW S, S # {}, NEW f, \A i \in S : f[i] \in Nat
  PROVE  \E i \in S : \A j \in S : f[i] <= f[j]
<1> DEFINE T == {f[i] : i \in S}
<1>1. T \subseteq Nat /\ T # {}
  OBVIOUS
<1>2. PICK x \in T : \A y \in T : x <= y
  <2> HIDE DEF T
  <2>1. QED
    BY <1>1, LeastElement
<1>3. PICK i \in S : x = f[i]
  OBVIOUS
<1>4. \A j \in S : f[j] \in T
  OBVIOUS
<1>5. QED
  BY <1>2, <1>3, <1>4

\* A part of a finite set is finite, and smaller unless it is the whole.
LEMMA Counted ==
  ASSUME NEW S, IsFiniteSet(S), NEW T, T \subseteq S
  PROVE  /\ IsFiniteSet(T)
         /\ Cardinality(T) \in Nat /\ Cardinality(S) \in Nat
         /\ Cardinality(T) <= Cardinality(S)
         /\ T # S => Cardinality(T) < Cardinality(S)
<1>1. T \in SUBSET S
  OBVIOUS
<1>2. IsFiniteSet(T) /\ Cardinality(T) <= Cardinality(S) /\ (Cardinality(S) = Cardinality(T) => S = T)
  BY <1>1, FS_Subset
<1>3. Cardinality(T) \in Nat /\ Cardinality(S) \in Nat
  BY <1>2, FS_CardinalityType
<1>4. QED
  BY <1>2, <1>3

\* A finite set has the elements of a part and those of the rest.
LEMMA Parted ==
  ASSUME NEW S, IsFiniteSet(S), NEW T, T \subseteq S
  PROVE  Cardinality(S) = Cardinality(T) + Cardinality(S \ T)
<1>1. IsFiniteSet(T) /\ IsFiniteSet(S \ T)
  BY Counted
<1>2. T \cup (S \ T) = S /\ T \cap (S \ T) = {}
  OBVIOUS
<1>3. Cardinality(S) = Cardinality(T) + Cardinality(S \ T) - Cardinality({})
  BY <1>1, <1>2, FS_Union
<1>4. QED
  BY <1>1, <1>3, FS_EmptySet, FS_CardinalityType

\* A function with natural values on a finite set has a greatest one: one that the
\* fewest values exceed.
LEMMA GreatestValue ==
  ASSUME NEW S, S # {}, IsFiniteSet(S), NEW f, \A i \in S : f[i] \in Nat
  PROVE  \E i \in S : \A j \in S : f[j] <= f[i]
<1> DEFINE more(i) == {j \in S : f[j] > f[i]}
           g       == [i \in S |-> Cardinality(more(i))]
<1>1. \A i \in S : more(i) \subseteq S /\ g[i] \in Nat
  BY Counted
<1>2. PICK i \in S : \A j \in S : g[i] <= g[j]
  <2> HIDE DEF g
  <2>1. QED
    BY <1>1, LeastValue
<1>3. ASSUME NEW j \in S, f[j] > f[i]
      PROVE  FALSE
  <2>1. more(j) \subseteq more(i) /\ j \in more(i) /\ j \notin more(j)
    BY <1>3
  <2>2. IsFiniteSet(more(i)) /\ more(j) # more(i)
    BY <2>1, <1>1, Counted
  <2> HIDE DEF more
  <2>3. g[j] < g[i]
    BY <2>1, <2>2, Counted
  <2>4. QED
    BY <2>3, <1>1, <1>2
<1>4. QED
  BY <1>3

\* What there is a median of: finitely many natural numbers, at least one.
Numbers(f) ==
  /\ IsFiniteSet(DOMAIN f)
  /\ DOMAIN f # {}
  /\ \A i \in DOMAIN f : f[i] \in Nat

Upto(f, v) == {i \in DOMAIN f : f[i] <= v}
Under(f, v) == {i \in DOMAIN f : f[i] < v}

\* The ranks of a value are counts of laps.
LEMMA Ranks ==
  ASSUME NEW f, Numbers(f)
  PROVE  /\ Cardinality(DOMAIN f) \in Nat \ {0}
         /\ \A v : Cardinality(Upto(f, v)) \in Nat /\ Cardinality(Under(f, v)) \in Nat
         /\ \A v : Cardinality(Upto(f, v)) <= Cardinality(DOMAIN f)
<1>1. \A v : Upto(f, v) \subseteq DOMAIN f /\ Under(f, v) \subseteq DOMAIN f
  BY DEF Upto, Under
<1>2. Cardinality(DOMAIN f) # 0 /\ Cardinality(DOMAIN f) \in Nat
  BY FS_EmptySet, FS_CardinalityType DEF Numbers
<1>3. QED
  BY <1>1, <1>2, Counted DEF Numbers

\* The k-th value exists: fewer than k values are under it, at least k are up to it.
LEMMA SmallestFacts ==
  ASSUME NEW f, Numbers(f), NEW k \in 1 .. Cardinality(DOMAIN f)
  PROVE  /\ Smallest(f, k) \in Nat
         /\ \E i \in DOMAIN f : f[i] = Smallest(f, k)
         /\ Cardinality(Under(f, Smallest(f, k))) < k
         /\ k <= Cardinality(Upto(f, Smallest(f, k)))
<1> DEFINE I     == DOMAIN f
           high  == {i \in I : k <= Cardinality(Upto(f, f[i]))}
           Is(i) == /\ Cardinality(Under(f, f[i])) < k
                    /\ Cardinality(Upto(f, f[i])) >= k
<1>1. IsFiniteSet(I) /\ I # {} /\ \A i \in I : f[i] \in Nat
  BY DEF Numbers
<1>2. high # {}
  <2>1. PICK i \in I : \A j \in I : f[j] <= f[i]
    BY <1>1, GreatestValue
  <2>2. Upto(f, f[i]) = I
    BY <2>1 DEF Upto
  <2>3. k <= Cardinality(I)
    BY Ranks
  <2>4. QED
    BY <2>2, <2>3
<1>3. PICK i \in high : \A j \in high : f[i] <= f[j]
  <2>1. \A j \in high : f[j] \in Nat
    BY <1>1
  <2> HIDE DEF high
  <2>2. QED
    BY <2>1, <1>2, LeastValue
<1>4. Cardinality(Under(f, f[i])) < k
  <2> DEFINE low == Under(f, f[i])
  <2>1. SUFFICES ASSUME k <= Cardinality(low)
                 PROVE  FALSE
    BY Ranks
  <2>2. low \subseteq I /\ IsFiniteSet(low) /\ \A j \in low : f[j] \in Nat
    BY <1>1, Counted DEF Under
  <2>3. low # {}
    BY <2>1, FS_EmptySet
  <2>4. PICK j \in low : \A l \in low : f[l] <= f[j]
    <3> HIDE DEF low
    <3>1. QED
      BY <2>2, <2>3, GreatestValue
  <2>5. low \subseteq Upto(f, f[j])
    BY <2>4 DEF Under, Upto
  <2>6. Upto(f, f[j]) \subseteq I
    BY DEF Upto
  <2>7. Cardinality(low) <= Cardinality(Upto(f, f[j]))
    <3>1. IsFiniteSet(Upto(f, f[j]))
      BY <2>6, <1>1, Counted
    <3>2. QED
      BY <3>1, <2>5, Counted
  <2>8. k <= Cardinality(Upto(f, f[j]))
    BY <2>1, <2>7, Ranks
  <2>9. j \in high /\ f[j] < f[i] /\ f[j] \in Nat /\ f[i] \in Nat
    BY <2>8, <1>1 DEF Under
  <2>10. QED
    BY <2>9, <1>3
<1>5. i \in I /\ Is(i)
  BY <1>4, Ranks
<1>6. Smallest(f, k) = f[CHOOSE j \in I : Is(j)]
  BY DEF Smallest, Under, Upto
<1> DEFINE c == CHOOSE j \in I : Is(j)
<1>7. c \in I /\ Is(c)
  <2> HIDE DEF Is
  <2>1. QED
    BY <1>5
<1> HIDE DEF c
<1>8. Smallest(f, k) = f[c]
  BY <1>6 DEF c
<1>9. QED
  BY <1>7, <1>8, <1>1, Ranks

\* The ranks follow the order of the values.
LEMMA Order ==
  ASSUME NEW f, Numbers(f), NEW v \in Nat, NEW w \in Nat
  PROVE  /\ v <= w => Cardinality(Upto(f, v)) <= Cardinality(Upto(f, w))
         /\ v < w => Cardinality(Upto(f, v)) <= Cardinality(Under(f, w))
         /\ Cardinality(Under(f, w)) + Cardinality({i \in DOMAIN f : f[i] >= w})
              = Cardinality(DOMAIN f)
         /\ Cardinality(Upto(f, w)) + Cardinality({i \in DOMAIN f : f[i] > w})
              = Cardinality(DOMAIN f)
<1>1. IsFiniteSet(DOMAIN f) /\ \A i \in DOMAIN f : f[i] \in Nat
  BY DEF Numbers
<1>2. /\ Upto(f, w) \subseteq DOMAIN f /\ Under(f, w) \subseteq DOMAIN f
      /\ IsFiniteSet(Upto(f, w)) /\ IsFiniteSet(Under(f, w))
  <2>1. Upto(f, w) \subseteq DOMAIN f /\ Under(f, w) \subseteq DOMAIN f
    BY DEF Upto, Under
  <2>2. QED
    BY <2>1, <1>1, Counted
<1>3. v <= w => Cardinality(Upto(f, v)) <= Cardinality(Upto(f, w))
  <2>1. v <= w => Upto(f, v) \subseteq Upto(f, w)
    BY <1>1 DEF Upto
  <2>2. QED
    BY <2>1, <1>2, Counted
<1>4. v < w => Cardinality(Upto(f, v)) <= Cardinality(Under(f, w))
  <2>1. v < w => Upto(f, v) \subseteq Under(f, w)
    BY <1>1 DEF Upto, Under
  <2>2. QED
    BY <2>1, <1>2, Counted
<1>5. DOMAIN f \ Under(f, w) = {i \in DOMAIN f : f[i] >= w}
  BY <1>1 DEF Under
<1>6. DOMAIN f \ Upto(f, w) = {i \in DOMAIN f : f[i] > w}
  BY <1>1 DEF Upto
<1>7. Cardinality(DOMAIN f) = Cardinality(Under(f, w)) + Cardinality(DOMAIN f \ Under(f, w))
  BY <1>1, <1>2, Parted
<1>8. Cardinality(DOMAIN f) = Cardinality(Upto(f, w)) + Cardinality(DOMAIN f \ Upto(f, w))
  BY <1>1, <1>2, Parted
<1>9. QED
  BY <1>3, <1>4, <1>5, <1>6, <1>7, <1>8

\* The middle of an odd number of values is one of them,
LEMMA OddMiddle ==
  ASSUME NEW f, Numbers(f), NEW h \in Nat, Cardinality(DOMAIN f) = 2 * h + 1
  PROVE  Middle(f) = Smallest(f, h + 1)
<1>1. (2 * h + 1) % 2 # 0 /\ (2 * h + 1) \div 2 + 1 = h + 1
  OBVIOUS
<1>2. QED
  BY <1>1 DEF Middle

\* of an even number the average of two neighbours.
LEMMA EvenMiddle ==
  ASSUME NEW f, Numbers(f), NEW h \in Nat, Cardinality(DOMAIN f) = 2 * h
  PROVE  /\ h \in 1 .. Cardinality(DOMAIN f) /\ h + 1 \in 1 .. Cardinality(DOMAIN f)
         /\ Middle(f) = (Smallest(f, h + 1) + Smallest(f, h)) \div 2
         /\ Smallest(f, h) <= Smallest(f, h + 1)
<1>1. (2 * h) % 2 = 0 /\ (2 * h) \div 2 + 1 = h + 1 /\ h + 1 - 1 = h
  OBVIOUS
<1>2. Middle(f) = (Smallest(f, h + 1) + Smallest(f, h)) \div 2
  BY <1>1 DEF Middle
<1>3. 2 * h # 0
  BY Ranks
<1>4. h \in 1 .. Cardinality(DOMAIN f) /\ h + 1 \in 1 .. Cardinality(DOMAIN f)
  BY <1>3
<1> DEFINE a == Smallest(f, h)
           b == Smallest(f, h + 1)
<1>5. /\ a \in Nat /\ b \in Nat
      /\ Cardinality(Under(f, a)) < h
      /\ h + 1 <= Cardinality(Upto(f, b))
  BY <1>4, SmallestFacts
<1> HIDE DEF a, b
<1>6. ~(b < a)
  <2>1. b < a => Cardinality(Upto(f, b)) <= Cardinality(Under(f, a))
    BY <1>5, Order
  <2>2. Cardinality(Under(f, a)) \in Nat /\ Cardinality(Upto(f, b)) \in Nat
    BY Ranks
  <2>3. QED
    BY <2>1, <2>2, <1>5
<1>7. a <= b
  BY <1>5, <1>6
<1>8. QED
  BY <1>2, <1>4, <1>7 DEF a, b

\* At most half of the values are under the middle, at least half are up to it.
LEMMA MiddleFacts ==
  ASSUME NEW f, Numbers(f)
  PROVE  /\ Middle(f) \in Nat
         /\ 2 * Cardinality(Under(f, Middle(f))) <= Cardinality(DOMAIN f)
         /\ Cardinality(DOMAIN f) <= 2 * Cardinality(Upto(f, Middle(f)))
<1> DEFINE n == Cardinality(DOMAIN f)
           m == Middle(f)
<1>1. n \in Nat \ {0} /\ \A v : Cardinality(Upto(f, v)) \in Nat /\ Cardinality(Under(f, v)) \in Nat
  BY Ranks
<1>2. (\E h \in Nat : n = 2 * h) \/ (\E h \in Nat : n = 2 * h + 1)
  <2> HIDE DEF n
  <2>1. n = 2 * (n \div 2) \/ n = 2 * (n \div 2) + 1
    BY <1>1
  <2>2. n \div 2 \in Nat
    BY <1>1
  <2>3. QED
    BY <2>1, <2>2
<1>3. ASSUME NEW h \in Nat, n = 2 * h + 1
      PROVE  m \in Nat /\ 2 * Cardinality(Under(f, m)) <= n /\ n <= 2 * Cardinality(Upto(f, m))
  <2>1. h + 1 \in 1 .. n /\ m = Smallest(f, h + 1)
    BY <1>3, OddMiddle
  <2>2. m \in Nat /\ Cardinality(Under(f, m)) < h + 1 /\ h + 1 <= Cardinality(Upto(f, m))
    BY <2>1, SmallestFacts
  <2> HIDE DEF m, n
  <2>3. QED
    BY <2>2, <1>1, <1>3
<1>4. ASSUME NEW h \in Nat, n = 2 * h
      PROVE  m \in Nat /\ 2 * Cardinality(Under(f, m)) <= n /\ n <= 2 * Cardinality(Upto(f, m))
  <2> DEFINE a == Smallest(f, h)
             b == Smallest(f, h + 1)
  <2>1. h \in 1 .. n /\ h + 1 \in 1 .. n /\ m = (b + a) \div 2 /\ a <= b
    BY <1>4, EvenMiddle
  <2>2. a \in Nat /\ h <= Cardinality(Upto(f, a))
    BY <2>1, SmallestFacts
  <2>3. b \in Nat /\ Cardinality(Under(f, b)) < h + 1
    BY <2>1, SmallestFacts
  <2> HIDE DEF a, b, n, m
  <2>4. m \in Nat /\ a <= m /\ m <= b
    BY <2>1, <2>2, <2>3
  <2>5. Cardinality(Upto(f, a)) <= Cardinality(Upto(f, m))
    BY <2>2, <2>4, Order
  <2>6. Cardinality(Under(f, m)) <= Cardinality(Under(f, b))
    <3>1. Under(f, m) \subseteq Under(f, b) /\ Under(f, b) \subseteq DOMAIN f
      BY <2>3, <2>4 DEF Under, Numbers
    <3>2. IsFiniteSet(Under(f, b))
      BY <3>1, Counted DEF Numbers
    <3>3. QED
      BY <3>1, <3>2, Counted
  <2>7. QED
    BY <2>2, <2>3, <2>4, <2>5, <2>6, <1>1, <1>4
<1>5. QED
  BY <1>2, <1>3, <1>4

\* The middle is at most d if half of the values are, and more than half are at most
\* d + 1: an average of two neighbours is rounded down.
LEMMA MiddleBound ==
  ASSUME NEW f, Numbers(f), NEW d \in Nat,
         Cardinality(DOMAIN f) <= 2 * Cardinality(Upto(f, d)),
         Cardinality(DOMAIN f) < 2 * Cardinality(Upto(f, d + 1))
  PROVE  Middle(f) <= d
<1> DEFINE n == Cardinality(DOMAIN f)
           m == Middle(f)
<1>1. n \in Nat \ {0} /\ \A v : Cardinality(Upto(f, v)) \in Nat /\ Cardinality(Under(f, v)) \in Nat
  BY Ranks
<1>2. (\E h \in Nat : n = 2 * h) \/ (\E h \in Nat : n = 2 * h + 1)
  <2> HIDE DEF n
  <2>1. n = 2 * (n \div 2) \/ n = 2 * (n \div 2) + 1
    BY <1>1
  <2>2. n \div 2 \in Nat
    BY <1>1
  <2>3. QED
    BY <2>1, <2>2
<1>3. ASSUME NEW k \in 1 .. n, NEW e \in Nat, k <= Cardinality(Upto(f, e))
      PROVE  Smallest(f, k) <= e
  <2> DEFINE v == Smallest(f, k)
  <2>1. v \in Nat /\ Cardinality(Under(f, v)) < k
    BY SmallestFacts
  <2> HIDE DEF v
  <2>2. e < v => Cardinality(Upto(f, e)) <= Cardinality(Under(f, v))
    BY <2>1, Order
  <2>3. ~(e < v)
    BY <2>1, <2>2, <1>1, <1>3
  <2>4. QED
    BY <2>1, <2>3 DEF v
<1>4. ASSUME NEW h \in Nat, n = 2 * h + 1
      PROVE  m <= d
  <2>1. h + 1 \in 1 .. n /\ m = Smallest(f, h + 1)
    BY <1>4, OddMiddle
  <2>2. Cardinality(Upto(f, d)) \in Nat /\ n <= 2 * Cardinality(Upto(f, d))
    BY <1>1
  <2>3. h + 1 <= Cardinality(Upto(f, d))
    <3> HIDE DEF n
    <3>1. QED
      BY <2>2, <1>4
  <2>4. QED
    BY <2>1, <2>3, <1>3
<1>5. ASSUME NEW h \in Nat, n = 2 * h
      PROVE  m <= d
  <2> DEFINE a == Smallest(f, h)
             b == Smallest(f, h + 1)
  <2>1. h \in 1 .. n /\ h + 1 \in 1 .. n /\ m = (b + a) \div 2 /\ a <= b
    BY <1>5, EvenMiddle
  <2>2. a \in Nat /\ b \in Nat
    BY <2>1, SmallestFacts
  <2>3. /\ Cardinality(Upto(f, d)) \in Nat /\ n <= 2 * Cardinality(Upto(f, d))
        /\ Cardinality(Upto(f, d + 1)) \in Nat /\ n < 2 * Cardinality(Upto(f, d + 1))
    BY <1>1
  <2>4. h <= Cardinality(Upto(f, d)) /\ h + 1 <= Cardinality(Upto(f, d + 1))
    <3> HIDE DEF n
    <3>1. QED
      BY <2>3, <1>5
  <2>5. a <= d /\ b <= d + 1
    BY <2>1, <2>4, <1>3
  <2> HIDE DEF a, b, m
  <2>6. QED
    BY <2>1, <2>2, <2>5
<1>6. QED
  BY <1>2, <1>4, <1>5

\* The distances from a value are values themselves.
LEMMA DeviationFacts ==
  ASSUME NEW f, Numbers(f), NEW m \in Nat
  PROVE  /\ Numbers(Deviations(f, m))
         /\ DOMAIN Deviations(f, m) = DOMAIN f
         /\ \A i \in DOMAIN f : Deviations(f, m)[i] = IF m < f[i] THEN f[i] - m ELSE m - f[i]
<1>1. DOMAIN Deviations(f, m) = DOMAIN f
  BY DEF Deviations
<1>2. \A i \in DOMAIN f : Deviations(f, m)[i] = IF m < f[i] THEN f[i] - m ELSE m - f[i]
  BY DEF Deviations, Distance
<1>3. \A i \in DOMAIN f : Deviations(f, m)[i] \in Nat
  BY <1>2 DEF Numbers
<1>4. QED
  BY <1>1, <1>2, <1>3 DEF Numbers

\* The middle lies between two of the values.
LEMMA Attained ==
  ASSUME NEW f, Numbers(f)
  PROVE  /\ \E i \in DOMAIN f : f[i] <= Middle(f)
         /\ \E i \in DOMAIN f : f[i] >= Middle(f)
<1> DEFINE n == Cardinality(DOMAIN f)
           m == Middle(f)
<1>1. n \in Nat \ {0} /\ \A v : Cardinality(Upto(f, v)) \in Nat /\ Cardinality(Under(f, v)) \in Nat
  BY Ranks
<1>2. m \in Nat /\ 2 * Cardinality(Under(f, m)) <= n /\ n <= 2 * Cardinality(Upto(f, m))
  BY MiddleFacts
<1>3. Cardinality(Upto(f, m)) # 0
  BY <1>1, <1>2
<1>4. \E i \in DOMAIN f : f[i] <= m
  BY <1>3, FS_EmptySet DEF Upto
<1>5. Cardinality(Under(f, m)) # n
  BY <1>1, <1>2
<1>6. Under(f, m) # DOMAIN f
  BY <1>5
<1>7. \E i \in DOMAIN f : f[i] >= m
  BY <1>6, <1>2 DEF Under, Numbers
<1>8. QED
  BY <1>4, <1>7

\* Some value is as far below the median as the MAD,
LEMMA LowSide ==
  ASSUME NEW f, Numbers(f)
  PROVE  /\ Middle(Deviations(f, Middle(f))) \in Nat
         /\ \E i \in DOMAIN f : f[i] <= Middle(f) - Middle(Deviations(f, Middle(f)))
<1> DEFINE m == Middle(f)
           g == Deviations(f, m)
           I == DOMAIN f
           n == Cardinality(I)
<1>1. m \in Nat /\ n <= 2 * Cardinality(Upto(f, m))
  BY MiddleFacts
<1>2. IsFiniteSet(I) /\ I # {} /\ \A i \in I : f[i] \in Nat
  BY DEF Numbers
<1>3. /\ Numbers(g) /\ DOMAIN g = I
      /\ \A i \in I : g[i] = IF m < f[i] THEN f[i] - m ELSE m - f[i]
  BY <1>1, DeviationFacts
<1>4. Middle(g) \in Nat
  BY <1>3, MiddleFacts
<1>5. PICK o \in I : \A j \in I : f[o] <= f[j]
  BY <1>2, LeastValue
<1> DEFINE D == m - f[o]
<1>6. D \in Nat /\ f[o] \in Nat
  <2>1. PICK i \in I : f[i] <= m
    BY Attained
  <2>2. QED
    BY <2>1, <1>1, <1>2, <1>5
<1> HIDE DEF m, g, n
<1>7. Cardinality(Upto(f, m)) <= Cardinality(Upto(g, D))
  <2>1. Upto(f, m) \subseteq Upto(g, D)
    BY <1>1, <1>2, <1>3, <1>5 DEF Upto
  <2>2. Upto(g, D) \subseteq I
    BY <1>3 DEF Upto
  <2>3. IsFiniteSet(Upto(g, D))
    BY <2>2, <1>2, Counted
  <2>4. QED
    BY <2>1, <2>3, Counted
<1>8. /\ n \in Nat \ {0}
      /\ \A v : Cardinality(Upto(f, v)) \in Nat
      /\ \A v : Cardinality(Upto(g, v)) \in Nat
  BY <1>3, Ranks DEF n
<1>9. n <= 2 * Cardinality(Upto(g, D))
  BY <1>1, <1>7, <1>8
<1>10. Cardinality(Upto(g, D)) <= Cardinality(Upto(g, D + 1))
  <2> HIDE DEF D
  <2>1. D + 1 \in Nat /\ D <= D + 1
    BY <1>6
  <2>2. QED
    BY <2>1, <1>3, <1>6, Order
<1>11. n < 2 * Cardinality(Upto(g, D + 1))
  <2>1. n = 2 * (n \div 2) \/ n = 2 * (n \div 2) + 1
    BY <1>8
  <2>2. CASE n = 2 * (n \div 2) + 1
    <3>1. \A h, c \in Nat : 2 * h + 1 <= 2 * c => 2 * h + 1 < 2 * c
      OBVIOUS
    <3>2. n \div 2 \in Nat
      BY <1>8
    <3>3. n < 2 * Cardinality(Upto(g, D))
      BY <3>1, <3>2, <2>2, <1>8, <1>9
    <3>4. QED
      BY <3>3, <1>8, <1>10
  <2>3. CASE n = 2 * (n \div 2)
    <3> DEFINE h == n \div 2
               a == Smallest(f, h)
               b == Smallest(f, h + 1)
    <3>1. h \in Nat /\ n = 2 * h
      BY <2>3, <1>8
    <3>2. /\ h \in 1 .. n /\ h + 1 \in 1 .. n
          /\ m = (b + a) \div 2 /\ a <= b
      BY <3>1, EvenMiddle DEF n, m
    <3>3. a \in Nat /\ \E i \in I : f[i] = a
      BY <3>2, SmallestFacts DEF n
    <3>4. b \in Nat /\ h + 1 <= Cardinality(Upto(f, b))
      BY <3>2, SmallestFacts DEF n
    <3> HIDE DEF a, b, h
    <3>5. b <= 2 * m - a + 1 /\ f[o] <= a
      BY <3>2, <3>3, <3>4, <1>5, <1>1
    <3>6. Upto(f, b) \subseteq Upto(g, D + 1)
      <4>1. SUFFICES ASSUME NEW i \in I, f[i] <= b
                     PROVE  g[i] <= D + 1
        BY <1>3 DEF Upto
      <4>2. g[i] = IF m < f[i] THEN f[i] - m ELSE m - f[i]
        BY <1>3
      <4>3. f[i] \in Nat /\ f[o] <= f[i]
        BY <1>2, <1>5
      <4>4. CASE m < f[i]
        BY <4>1, <4>2, <4>3, <4>4, <3>3, <3>4, <3>5, <1>1, <1>6
      <4>5. CASE ~(m < f[i])
        BY <4>2, <4>3, <4>5, <1>1, <1>6
      <4>6. QED
        BY <4>4, <4>5
    <3>7. IsFiniteSet(Upto(g, D + 1))
      <4>1. Upto(g, D + 1) \subseteq I
        BY <1>3 DEF Upto
      <4>2. QED
        BY <4>1, <1>2, Counted
    <3>8. Cardinality(Upto(f, b)) <= Cardinality(Upto(g, D + 1))
      BY <3>6, <3>7, Counted
    <3>9. QED
      BY <3>1, <3>4, <3>8, <1>8
  <2>4. QED
    BY <2>1, <2>2, <2>3
<1>12. Middle(g) <= D
  BY <1>3, <1>6, <1>9, <1>11, MiddleBound DEF n
<1>13. f[o] <= m - Middle(g)
  BY <1>1, <1>4, <1>6, <1>12
<1>14. QED
  BY <1>4, <1>13 DEF m, g

\* and some value as far above it.
LEMMA HighSide ==
  ASSUME NEW f, Numbers(f)
  PROVE  \E i \in DOMAIN f : f[i] >= Middle(f) + Middle(Deviations(f, Middle(f)))
<1> DEFINE m == Middle(f)
           g == Deviations(f, m)
           I == DOMAIN f
           n == Cardinality(I)
           above(v) == {i \in I : f[i] >= v}
<1>1. m \in Nat /\ 2 * Cardinality(Under(f, m)) <= n
  BY MiddleFacts
<1>2. IsFiniteSet(I) /\ I # {} /\ \A i \in I : f[i] \in Nat
  BY DEF Numbers
<1>3. /\ Numbers(g) /\ DOMAIN g = I
      /\ \A i \in I : g[i] = IF m < f[i] THEN f[i] - m ELSE m - f[i]
  BY <1>1, DeviationFacts
<1>4. Middle(g) \in Nat
  BY <1>3, MiddleFacts
<1>5. PICK o \in I : \A j \in I : f[j] <= f[o]
  BY <1>2, GreatestValue
<1> DEFINE D == f[o] - m
<1>6. D \in Nat /\ f[o] \in Nat
  <2>1. PICK i \in I : f[i] >= m
    BY Attained
  <2>2. QED
    BY <2>1, <1>1, <1>2, <1>5
<1> HIDE DEF m, g, n
<1>7. ASSUME NEW v \in Nat, above(v) \subseteq Upto(g, D)
      PROVE  n - Cardinality(Under(f, v)) <= Cardinality(Upto(g, D))
  <2>1. IsFiniteSet(Upto(g, D))
    <3>1. Upto(g, D) \subseteq I
      BY <1>3 DEF Upto
    <3>2. QED
      BY <3>1, <1>2, Counted
  <2>2. Cardinality(above(v)) <= Cardinality(Upto(g, D)) /\ Cardinality(above(v)) \in Nat
    BY <2>1, <1>7, Counted
  <2>3. Cardinality(Under(f, v)) + Cardinality(above(v)) = n
    BY Order DEF n
  <2>4. Cardinality(Under(f, v)) \in Nat /\ Cardinality(Upto(g, D)) \in Nat
    BY <1>3, Ranks
  <2> HIDE DEF above
  <2>5. QED
    BY <2>2, <2>3, <2>4
<1>8. /\ n \in Nat \ {0}
      /\ \A v : Cardinality(Under(f, v)) \in Nat
      /\ \A v : Cardinality(Upto(g, v)) \in Nat
  BY <1>3, Ranks DEF n
<1>9. n <= 2 * Cardinality(Upto(g, D))
  <2>1. above(m) \subseteq Upto(g, D)
    BY <1>1, <1>2, <1>3, <1>5 DEF Upto
  <2>2. n - Cardinality(Under(f, m)) <= Cardinality(Upto(g, D))
    BY <2>1, <1>1, <1>7
  <2>3. QED
    BY <2>2, <1>1, <1>8
<1>10. Cardinality(Upto(g, D)) <= Cardinality(Upto(g, D + 1))
  <2> HIDE DEF D
  <2>1. D + 1 \in Nat /\ D <= D + 1
    BY <1>6
  <2>2. QED
    BY <2>1, <1>3, <1>6, Order
<1>11. n < 2 * Cardinality(Upto(g, D))
  <2>1. n = 2 * (n \div 2) \/ n = 2 * (n \div 2) + 1
    BY <1>8
  <2>2. CASE n = 2 * (n \div 2) + 1
    <3>1. \A h, c \in Nat : 2 * h + 1 <= 2 * c => 2 * h + 1 < 2 * c
      OBVIOUS
    <3>2. n \div 2 \in Nat
      BY <1>8
    <3>3. QED
      BY <3>1, <3>2, <2>2, <1>8, <1>9
  <2>3. CASE n = 2 * (n \div 2)
    <3> DEFINE h == n \div 2
               a == Smallest(f, h)
               b == Smallest(f, h + 1)
    <3>1. h \in Nat /\ n = 2 * h
      BY <2>3, <1>8
    <3>2. /\ h \in 1 .. n /\ h + 1 \in 1 .. n
          /\ m = (b + a) \div 2 /\ a <= b
      BY <3>1, EvenMiddle DEF n, m
    <3>3. a \in Nat /\ Cardinality(Under(f, a)) < h
      BY <3>2, SmallestFacts DEF n
    <3>4. b \in Nat /\ \E i \in I : f[i] = b
      BY <3>2, SmallestFacts DEF n
    <3> HIDE DEF a, b, h
    <3>5. 2 * m <= a + b /\ b <= f[o]
      BY <3>2, <3>3, <3>4, <1>5, <1>1
    <3>6. above(a) \subseteq Upto(g, D)
      <4>1. SUFFICES ASSUME NEW i \in I, f[i] >= a
                     PROVE  g[i] <= D
        BY <1>3 DEF Upto
      <4>2. g[i] = IF m < f[i] THEN f[i] - m ELSE m - f[i]
        BY <1>3
      <4>3. f[i] \in Nat /\ f[i] <= f[o]
        BY <1>2, <1>5
      <4>4. CASE m < f[i]
        BY <4>2, <4>3, <4>4, <1>1, <1>6
      <4>5. CASE ~(m < f[i])
        BY <4>1, <4>2, <4>3, <4>5, <3>3, <3>4, <3>5, <1>1, <1>6
      <4>6. QED
        BY <4>4, <4>5
    <3>7. n - Cardinality(Under(f, a)) <= Cardinality(Upto(g, D))
      BY <3>3, <3>6, <1>7
    <3>8. QED
      BY <3>1, <3>3, <3>7, <1>8
  <2>4. QED
    BY <2>1, <2>2, <2>3
<1>12. Middle(g) <= D
  <2>1. n < 2 * Cardinality(Upto(g, D + 1))
    BY <1>8, <1>10, <1>11
  <2>2. QED
    BY <2>1, <1>3, <1>6, <1>9, MiddleBound DEF n
<1>13. f[o] >= m + Middle(g)
  BY <1>1, <1>4, <1>6, <1>12
<1>14. QED
  BY <1>13 DEF m, g

\* What one median calculation returns for the laps it keeps.
LEMMA KeptFacts ==
  ASSUME NEW v, NEW S, IsFiniteSet(S), S # {}, \A i \in S : v[i] \in Nat
  PROVE  LET temp == [i \in S |-> v[i]]
             m    == Middle(temp)
             d    == Middle(Deviations(temp, m))
         IN /\ m \in Nat /\ d \in Nat
            /\ \E i \in S : v[i] <= m - d
            /\ \E i \in S : v[i] >= m + d
            /\ \E i \in S : v[i] <= m
            /\ \E i \in S : Distance(v[i], m) <= d
            /\ 2 * Cardinality({i \in S : v[i] < m - d}) <= Cardinality(S)
            /\ 2 * Cardinality({i \in S : v[i] > m + d}) <= Cardinality(S)
<1> DEFINE temp == [i \in S |-> v[i]]
           m    == Middle(temp)
           g    == Deviations(temp, m)
           d    == Middle(g)
<1>1. Numbers(temp) /\ DOMAIN temp = S /\ \A i \in S : temp[i] = v[i]
  BY DEF Numbers
<1> HIDE DEF temp
<1>2. /\ m \in Nat
      /\ 2 * Cardinality(Under(temp, m)) <= Cardinality(S)
      /\ Cardinality(S) <= 2 * Cardinality(Upto(temp, m))
  BY <1>1, MiddleFacts
<1>3. d \in Nat /\ \E i \in S : v[i] <= m - d
  BY <1>1, LowSide
<1>4. \E i \in S : v[i] >= m + d
  BY <1>1, HighSide
<1>5. \E i \in S : v[i] <= m
  BY <1>1, Attained
<1>6. \E i \in S : Distance(v[i], m) <= d
  <2>1. /\ Numbers(g) /\ DOMAIN g = S
        /\ \A i \in S : g[i] = IF m < temp[i] THEN temp[i] - m ELSE m - temp[i]
    BY <1>1, <1>2, DeviationFacts
  <2>2. PICK i \in S : g[i] <= d
    BY <2>1, Attained
  <2> HIDE DEF m, g, d
  <2>3. Distance(v[i], m) = g[i]
    BY <2>1, <1>1, <1>2 DEF Distance
  <2>4. QED
    BY <2>2, <2>3
<1> HIDE DEF m, g, d
<1>7. /\ Cardinality(S) \in Nat
      /\ Cardinality(Under(temp, m)) \in Nat /\ Cardinality(Upto(temp, m)) \in Nat
  BY <1>1, Ranks
<1>8. 2 * Cardinality({i \in S : v[i] < m - d}) <= Cardinality(S)
  <2>1. {i \in S : v[i] < m - d} \subseteq Under(temp, m) /\ Under(temp, m) \subseteq S
    BY <1>1, <1>2, <1>3 DEF Under
  <2>2. IsFiniteSet(Under(temp, m))
    BY <2>1, Counted
  <2>3. /\ Cardinality({i \in S : v[i] < m - d}) \in Nat
        /\ Cardinality({i \in S : v[i] < m - d}) <= Cardinality(Under(temp, m))
    BY <2>1, <2>2, Counted
  <2>4. QED
    BY <2>3, <1>2, <1>7
<1>9. 2 * Cardinality({i \in S : v[i] > m + d}) <= Cardinality(S)
  <2> DEFINE more == {i \in S : temp[i] > m}
  <2>1. {i \in S : v[i] > m + d} \subseteq more /\ more \subseteq S
    BY <1>1, <1>2, <1>3
  <2>2. IsFiniteSet(more) /\ Cardinality(more) \in Nat
    BY <2>1, Counted
  <2>3. /\ Cardinality({i \in S : v[i] > m + d}) \in Nat
        /\ Cardinality({i \in S : v[i] > m + d}) <= Cardinality(more)
    BY <2>1, <2>2, Counted
  <2>4. Cardinality(Upto(temp, m)) + Cardinality(more) = Cardinality(S)
    BY <1>1, <1>2, Order
  <2>5. QED
    BY <2>2, <2>3, <2>4, <1>2, <1>7
<1>10. QED
  BY <1>2, <1>3, <1>4, <1>5, <1>6, <1>8, <1>9 DEF m, g, d, temp

\* calcMedianValues: the laps it does not exclude, and where its median and MAD lie
\* among them.
LEMMA MedianFacts ==
  ASSUME NEW v, IsFiniteSet(DOMAIN v), DOMAIN v # {}, \A i \in DOMAIN v : v[i] \in Nat \ {0}
  PROVE  LET t     == calcMedian(v, FALSE, Unknown)
             r     == calcMedianValues(v)
             usual == IF t.mad = 0 THEN DOMAIN v ELSE Usual(v, t)
         IN /\ r.median \in Nat /\ r.mad \in Nat
            /\ 2 * Cardinality({i \in usual : v[i] < r.median - r.mad}) <= Cardinality(usual)
            /\ 2 * Cardinality({i \in usual : v[i] > r.median + r.mad}) <= Cardinality(usual)
            /\ \E i \in DOMAIN v : v[i] <= r.median - r.mad
            /\ \E i \in DOMAIN v : v[i] >= r.median + r.mad
<1> DEFINE I     == DOMAIN v
           t     == calcMedian(v, FALSE, Unknown)
           r     == calcMedianValues(v)
           usual == IF t.mad = 0 THEN I ELSE Usual(v, t)
           med(S) == Middle([i \in S |-> v[i]])
           mad(S) == Middle(Deviations([i \in S |-> v[i]], med(S)))
<1>1. t = [median |-> med(I), mad |-> mad(I)]
  BY DEF calcMedian
<1>2. /\ med(I) \in Nat /\ mad(I) \in Nat
      /\ \E i \in I : v[i] <= med(I)
      /\ \E i \in I : Distance(v[i], med(I)) <= mad(I)
  BY KeptFacts
<1> HIDE DEF t, r, med, mad
<1>3. t.median = med(I) /\ t.mad = mad(I)
  BY <1>1
<1>4. t.median > 0
  BY <1>2, <1>3
<1>5. usual # {} /\ usual \subseteq I
  <2>1. PICK i \in I : Distance(v[i], t.median) <= t.mad
    BY <1>2, <1>3
  <2>2. Distance(v[i], t.median) \in Nat
    BY <1>2, <1>3 DEF Distance
  <2>3. Distance(v[i], t.median) <= 3 * t.mad
    BY <2>1, <2>2, <1>2, <1>3
  <2>4. QED
    BY <2>3 DEF Usual
<1>6. usual = IF t.median > 0 /\ t.mad > 0 THEN Usual(v, t) ELSE I
  BY <1>2, <1>3, <1>4
<1>7. IsFiniteSet(usual) /\ \A i \in usual : v[i] \in Nat
  BY <1>5, Counted
<1>8. r = calcMedian(v, TRUE, t)
  BY DEF r, t, calcMedianValues
<1> HIDE DEF usual
<1>9. r = [median |-> med(usual), mad |-> mad(usual)]
  BY <1>5, <1>6, <1>8 DEF calcMedian, med, mad
<1>10. /\ med(usual) \in Nat /\ mad(usual) \in Nat
       /\ \E i \in usual : v[i] <= med(usual) - mad(usual)
       /\ \E i \in usual : v[i] >= med(usual) + mad(usual)
       /\ 2 * Cardinality({i \in usual : v[i] < med(usual) - mad(usual)}) <= Cardinality(usual)
       /\ 2 * Cardinality({i \in usual : v[i] > med(usual) + mad(usual)}) <= Cardinality(usual)
  BY <1>5, <1>7, KeptFacts DEF med, mad
<1>11. r.median = med(usual) /\ r.mad = mad(usual)
  BY <1>9
<1>12. /\ r.median \in Nat /\ r.mad \in Nat
       /\ 2 * Cardinality({i \in usual : v[i] < r.median - r.mad}) <= Cardinality(usual)
       /\ 2 * Cardinality({i \in usual : v[i] > r.median + r.mad}) <= Cardinality(usual)
       /\ \E i \in DOMAIN v : v[i] <= r.median - r.mad
       /\ \E i \in DOMAIN v : v[i] >= r.median + r.mad
  BY <1>5, <1>10, <1>11
<1>13. QED
  BY <1>12 DEF t, r, usual

-------------------------------------------------------------------------------

(* What the main loop knows. *)

\* A lap as it is recorded: no faster than the leader, and driven with fuel of the tank.
Lap == [time : 4 * Q .. 4 * MaxTime, fuel : 1 .. 4 * Tank]

\* Estimates of at least one lap are on the safe side, and can be driven.
LEMMA EstimateFacts ==
  ASSUME NEW list \in Seq(Lap), list # << >>
  PROVE  LET times == Times(list)
             fuels == Fuels(list)
             e     == EstimateOf(list)
             t == calcMedian(times, FALSE, Unknown)
             f == calcMedian(fuels, FALSE, Unknown)
             usualTime == IF t.mad = 0 THEN DOMAIN list ELSE Usual(times, t)
             usualFuel == IF f.mad = 0 THEN DOMAIN list ELSE Usual(fuels, f)
         IN /\ e.time \in 4 * Q .. 4 * MaxTime
            /\ e.fuel \in 1 .. 4 * Tank
            /\ 2 * Cardinality({i \in usualTime : times[i] < e.time}) <= Cardinality(usualTime)
            /\ 2 * Cardinality({i \in usualFuel : fuels[i] > e.fuel}) <= Cardinality(usualFuel)
            /\ \E i \in DOMAIN list : times[i] <= e.time
            /\ \E i \in DOMAIN list : fuels[i] >= e.fuel
<1> DEFINE I     == DOMAIN list
           times == Times(list)
           fuels == Fuels(list)
           e     == EstimateOf(list)
           t == calcMedian(times, FALSE, Unknown)
           f == calcMedian(fuels, FALSE, Unknown)
           usualTime == IF t.mad = 0 THEN I ELSE Usual(times, t)
           usualFuel == IF f.mad = 0 THEN I ELSE Usual(fuels, f)
           rt == calcMedianValues(times)
           rf == calcMedianValues(fuels)
<1>1. I = 1 .. Len(list) /\ Len(list) \in Nat /\ I # {} /\ IsFiniteSet(I)
  <2>1. I = 1 .. Len(list) /\ Len(list) \in Nat /\ Len(list) # 0
    OBVIOUS
  <2> HIDE DEF I
  <2>2. IsFiniteSet(I)
    BY <2>1, FS_Interval
  <2>3. I # {}
    BY <2>1
  <2>4. QED
    BY <2>1, <2>2, <2>3
<1>2. /\ DOMAIN times = I /\ DOMAIN fuels = I
      /\ \A i \in I : times[i] = list[i].time /\ fuels[i] = list[i].fuel
  BY DEF Times, Fuels
<1>3. \A i \in I : list[i].time \in 4 * Q .. 4 * MaxTime /\ list[i].fuel \in 1 .. 4 * Tank
  <2>1. \A i \in 1 .. Len(list) : list[i] \in Lap
    OBVIOUS
  <2>2. QED
    BY <2>1, <1>1 DEF Lap
<1>4. e.time = rt.median - rt.mad /\ e.fuel = rf.median + rf.mad
  BY DEF EstimateOf, Estimate
<1> HIDE DEF times, fuels, e
<1>5. \A i \in I : /\ times[i] \in Nat \ {0} /\ 4 * Q <= times[i] /\ times[i] <= 4 * MaxTime
                   /\ fuels[i] \in Nat \ {0} /\ fuels[i] <= 4 * Tank
  <2>1. 4 * Q \in Nat \ {0} /\ 4 * MaxTime \in Nat /\ 4 * Tank \in Nat
    BY RaceAssumption
  <2>2. QED
    BY <2>1, <1>2, <1>3
<1>6. /\ rt.median \in Nat /\ rt.mad \in Nat
      /\ 2 * Cardinality({i \in usualTime : times[i] < rt.median - rt.mad}) <= Cardinality(usualTime)
      /\ \E i \in I : times[i] <= rt.median - rt.mad
      /\ \E i \in I : times[i] >= rt.median + rt.mad
  BY <1>1, <1>2, <1>5, MedianFacts
<1>7. /\ rf.median \in Nat /\ rf.mad \in Nat
      /\ 2 * Cardinality({i \in usualFuel : fuels[i] > rf.median + rf.mad}) <= Cardinality(usualFuel)
      /\ \E i \in I : fuels[i] <= rf.median - rf.mad
      /\ \E i \in I : fuels[i] >= rf.median + rf.mad
  BY <1>1, <1>2, <1>5, MedianFacts
<1> HIDE DEF rt, rf, t, f, I, usualTime, usualFuel
<1>8. e.time \in 4 * Q .. 4 * MaxTime
  <2>1. PICK i \in I : times[i] <= rt.median - rt.mad
    BY <1>6
  <2>2. PICK j \in I : times[j] >= rt.median + rt.mad
    BY <1>6
  <2>3. 4 * Q \in Nat \ {0} /\ 4 * MaxTime \in Nat
    BY RaceAssumption
  <2>4. times[i] \in Nat /\ times[j] \in Nat /\ 4 * Q <= times[i] /\ times[j] <= 4 * MaxTime
    BY <1>5
  <2>5. QED
    BY <2>1, <2>2, <2>3, <2>4, <1>4, <1>6, SMTT(30)
<1>9. e.fuel \in 1 .. 4 * Tank
  <2>1. PICK i \in I : fuels[i] <= rf.median - rf.mad
    BY <1>7
  <2>2. PICK j \in I : fuels[j] >= rf.median + rf.mad
    BY <1>7
  <2>3. 4 * Tank \in Nat
    BY RaceAssumption
  <2>4. fuels[i] \in Nat \ {0} /\ fuels[j] \in Nat /\ fuels[j] <= 4 * Tank
    BY <1>5
  <2>5. rf.median \in Nat /\ rf.mad \in Nat /\ e.fuel = rf.median + rf.mad
    BY <1>4, <1>7
  <2>6. e.fuel >= 1
    BY <2>1, <2>4, <2>5
  <2>7. e.fuel <= 4 * Tank
    BY <2>2, <2>3, <2>4, <2>5
  <2>8. e.fuel \in Nat
    BY <2>5
  <2>9. QED
    BY <2>3, <2>6, <2>7, <2>8
<1>10. QED
  BY <1>4, <1>6, <1>7, <1>8, <1>9 DEF t, f, times, fuels, e, I, usualTime, usualFuel

\* Without a lap they are unknown.
LEMMA NoEstimate == EstimateOf(<< >>) = [time |-> 0, fuel |-> 0]
<1> DEFINE times == Times(<< >>)
           fuels == Fuels(<< >>)
<1>1. DOMAIN times = {} /\ DOMAIN fuels = {}
  BY DEF Times, Fuels
<1> HIDE DEF times, fuels
<1>2. ASSUME NEW v, DOMAIN v = {}
      PROVE  calcMedianValues(v) = Unknown
  <2>1. \A b, u : calcMedian(v, b, u) = Unknown
    BY <1>2 DEF calcMedian, Usual
  <2>2. QED
    BY <2>1 DEF calcMedianValues
<1>3. calcMedianValues(times) = Unknown /\ calcMedianValues(fuels) = Unknown
  BY <1>1, <1>2
<1>4. QED
  BY <1>3 DEF EstimateOf, Estimate, Unknown, times, fuels

-------------------------------------------------------------------------------

\* Where the car is: it does not outrun the leader, no lap takes less than Q, and a race
\* of laps ends at the line.
CarInv ==
  /\ pos <= clock /\ pos % Q <= clock - lapStart
  /\ lastLap = 0 \/ lastLap >= Q
  /\ race.laps > 0 => pos <= Q * race.laps

\* The estimates are those of the laps recorded.
LapsInv == laps \in Seq(Lap) /\ est = EstimateOf(laps)

\* What is published is calculated from the limits of the session and from the estimates.
SessionInv ==
  /\ g_SessionNum = number => g_SessionTotal = race
  /\ ~due => g_SessionNum = number /\ pub.remaining = remainingLapsMax(race, est)
  /\ pub.pit >= 0 => est.fuel > 0
  /\ pub.required \in Int \X (Nat \ {0})

\* What the proofs of all four properties rest on.
BaseInv == TypeOK /\ CarInv /\ LapsInv /\ SessionInv

\* The limits of a session are numbers.
LEMMA RaceFacts ==
  ASSUME NEW r \in Races
  PROVE  r.laps \in Nat /\ r.time \in Nat
BY RaceAssumption

\* The estimates are unknown or those of laps that can be driven.
LEMMA EstimateType ==
  ASSUME NEW list \in Seq(Lap)
  PROVE  /\ EstimateOf(list).time \in {0} \cup 4 * Q .. 4 * MaxTime
         /\ EstimateOf(list).fuel \in 0 .. 4 * Tank
<1>1. 4 * Tank \in Nat
  BY RaceAssumption
<1>2. CASE list = << >>
  BY <1>1, <1>2, NoEstimate
<1>3. CASE list # << >>
  <2>1. /\ EstimateOf(list).time \in 4 * Q .. 4 * MaxTime
        /\ EstimateOf(list).fuel \in 1 .. 4 * Tank
    BY <1>3, EstimateFacts
  <2>2. QED
    BY <2>1, <1>1
<1>4. QED
  BY <1>2, <1>3

\* BaseInv is inductive: it holds at first, and each action keeps it.
LEMMA BaseInit == Init => BaseInv
<1> SUFFICES ASSUME Init
             PROVE  BaseInv
  OBVIOUS
<1>1. /\ race \in Races /\ number = 0
      /\ clock = 0 /\ pos = 0 /\ lapStart = 0 /\ lastLap = 0 /\ over = FALSE
      /\ fuel \in {Tank, (Tank + MinFuel) \div 2} /\ due = TRUE
      /\ useDriverLaps \in BOOLEAN /\ factor \in Factors
      /\ g_SessionNum = -1 /\ g_SessionTotal = Unlimited
      /\ g_oldLapLastLapTime = -1 /\ m_lastFuelValue = -1
      /\ laps \in Histories /\ est = EstimateOf(laps)
      /\ pub = Nothing /\ limit = NoLimit /\ enough = FALSE
  BY DEF Init
<1>2. /\ Q \in Nat \ {0} /\ Tank \in Nat /\ Tank > 4 /\ MaxTime \in Nat
  BY RaceAssumption DEF MinFuel
<1>3. laps \in Seq(Lap) /\ Len(laps) <= MaxLaps
  BY <1>1, RaceAssumption DEF Lap
<1>4. LapsInv
  BY <1>1, <1>3 DEF LapsInv
<1>5. CarInv
  <2>1. 0 % Q = 0
    BY <1>2
  <2>2. race.laps \in Nat
    BY <1>1, RaceFacts
  <2>3. Q * race.laps \in Nat
    BY <1>2, <2>2
  <2>4. QED
    BY <1>1, <2>1, <2>3 DEF CarInv
<1>6. SessionInv
  BY <1>1 DEF SessionInv, Nothing, None
<1>7. TypeOK
  <2>1. fuel \in 0 .. Tank
    BY <1>1, <1>2 DEF MinFuel
  <2>2. limit \in 0 .. NoLimit
    <3>1. Q * (MaxTime + 3) \in Nat
      BY <1>2
    <3>2. QED
      BY <1>1, <3>1 DEF NoLimit
  <2>3. est.time \in 0 .. 4 * MaxTime /\ est.fuel \in 0 .. 4 * Tank
    <3>1. est.time \in {0} \cup 4 * Q .. 4 * MaxTime /\ est.fuel \in 0 .. 4 * Tank
      BY <1>1, <1>3, EstimateType
    <3>2. 4 * Q \in Nat /\ 4 * MaxTime \in Nat
      BY <1>2
    <3>3. QED
      BY <3>1, <3>2
  <2>4. \A i \in DOMAIN laps : laps[i].time \in 4 * Q .. 4 * MaxTime /\ laps[i].fuel \in 1 .. 4 * Tank
    <3>1. \A i \in DOMAIN laps : laps[i] \in Lap
      BY <1>3
    <3>2. QED
      BY <3>1 DEF Lap
  <2>5. /\ race \in Races /\ number \in {0, 1} /\ clock \in 0 .. MaxTime /\ pos \in 0 .. MaxTime
        /\ lapStart \in 0 .. clock /\ lastLap \in 0 .. MaxTime
    BY <1>1, <1>2
  <2>9. over \in BOOLEAN /\ due \in BOOLEAN /\ useDriverLaps \in BOOLEAN /\ factor \in Factors
    BY <1>1
  <2>6. /\ g_SessionNum \in {-1, 0, 1} /\ g_SessionTotal \in Races \cup {Unlimited}
        /\ g_oldLapLastLapTime \in -1 .. MaxTime /\ m_lastFuelValue \in -1 .. Tank
    BY <1>1, <1>2
  <2>7. pub.pit \in Nat \cup {-1} /\ pub.enough \in BOOLEAN /\ enough \in BOOLEAN
    BY <1>1 DEF Nothing
  <2>8. QED
    BY <1>3, <2>1, <2>2, <2>3, <2>4, <2>5, <2>6, <2>7, <2>9 DEF TypeOK
<1>8. QED
  BY <1>4, <1>5, <1>6, <1>7 DEF BaseInv

\* The laps of a race of laps that remain, counted by the driver or by the leader.
LEMMA LapsRemain ==
  ASSUME BaseInv, race.laps > 0
  PROVE  /\ RaceLapsRemain(race)[1] \in Nat /\ RaceLapsRemain(race)[2] = 1
         /\ RaceLapsRemain(race) = << RaceLapsRemain(race)[1], 1 >>
         /\ useDriverLaps => Q * race.laps <= pos + Q * RaceLapsRemain(race)[1]
         /\ clock < Q * race.laps => Q * race.laps - clock <= Q * RaceLapsRemain(race)[1]
         /\ useDriverLaps => RaceLapsRemain(race)[1] = race.laps - (pos \div Q)
         /\ ~useDriverLaps => RaceLapsRemain(race)[1] =
              IF clock >= Q * race.laps THEN 0 ELSE race.laps - (clock \div Q)
<1> DEFINE n == RaceLapsRemain(race)[1]
           total == race.laps
           p == pos \div Q
           c == clock \div Q
<1>1. /\ Q \in Nat \ {0} /\ total \in Nat \ {0} /\ pos \in Nat /\ clock \in Nat
      /\ pos <= clock /\ pos <= Q * total
  BY RaceAssumption, RaceFacts, SMTT(30) DEF BaseInv, TypeOK, CarInv
<1>2. p \in Nat /\ c \in Nat
  BY <1>1, Divided
<1>3. /\ RaceLapsRemain(race) = << n, 1 >>
      /\ useDriverLaps => n = total - (p + 1) + 1
      /\ ~useDriverLaps => n = IF clock >= Q * total THEN 0 ELSE total - c
  BY DEF RaceLapsRemain, DriverLap, SessionLapsRemainEx
<1>4. /\ pos % Q \in 0 .. Q - 1 /\ pos = Q * p + (pos % Q)
      /\ clock % Q \in 0 .. Q - 1 /\ clock = Q * c + (clock % Q)
  BY <1>1, Divided
<1> HIDE DEF n, p, c, total
<1>5. Q * p <= pos /\ Q * c <= clock
  BY <1>1, <1>2, <1>4
<1>6. p <= total
  <2>1. p * Q <= total * Q
    BY <1>1, <1>2, <1>5
  <2>2. QED
    BY <2>1, <1>1, <1>2, Cancelled
<1>7. clock < Q * total => c < total
  <2>1. clock < Q * total => c * Q < total * Q
    BY <1>1, <1>2, <1>5
  <2>2. QED
    BY <2>1, <1>1, <1>2, CancelledLess
<1>8. \A q, t, x \in Nat : q * (t - x) = q * t - q * x
  OBVIOUS
<1>9. CASE useDriverLaps
  <2>1. n = total - p /\ n \in Nat
    BY <1>1, <1>2, <1>3, <1>6, <1>9
  <2>2. Q * n = Q * total - Q * p
    BY <2>1, <1>1, <1>2, <1>8
  <2>3. QED
    BY <2>1, <2>2, <1>1, <1>2, <1>3, <1>5, <1>9 DEF n, p, c, total
<1>10. CASE ~useDriverLaps /\ clock >= Q * total
  <2>1. n = 0
    BY <1>3, <1>10
  <2>2. QED
    BY <2>1, <1>1, <1>3, <1>10 DEF n, p, c, total
<1>11. CASE ~useDriverLaps /\ ~(clock >= Q * total)
  <2>1. n = total - c /\ n \in Nat
    BY <1>1, <1>2, <1>3, <1>7, <1>11
  <2>2. Q * n = Q * total - Q * c
    BY <2>1, <1>1, <1>2, <1>8
  <2>3. QED
    BY <2>1, <2>2, <1>1, <1>2, <1>3, <1>5, <1>11 DEF n, p, c, total
<1>12. QED
  BY <1>9, <1>10, <1>11

\* The laps that remain are of a race of laps or of time, and the smaller one in a race
\* of both; 0 in a race with a time limit while there is no estimate.
LEMMA Remaining ==
  ASSUME BaseInv, NEW e, e.time \in Nat
  PROVE  LET time == 4 * (race.time - clock) + 2 * e.time
             rem  == remainingLapsMax(race, e)
         IN \/ rem = None /\ race.laps = 0
            \/ race.laps > 0 /\ rem = RaceLapsRemain(race)
            \/ /\ race.time > 0 /\ e.time > 0
               /\ rem = << IF time < 0 THEN 0 ELSE time, e.time >>
            \/ race.time > 0 /\ e.time = 0 /\ rem = << 0, 1 >>
<1>1. race.laps \in Nat /\ race.time \in Nat /\ clock \in Nat
  BY RaceFacts DEF BaseInv, TypeOK
<1>2. CASE race.time = 0
  <2>1. RemainingByTime(race, e) = << -1, 1 >>
    BY <1>2 DEF RemainingByTime, None
  <2>2. RemainingByTime(race, e)[1] < 0
    BY <2>1
  <2>3. QED
    BY <2>1, <2>2, <1>1 DEF remainingLapsMax, None
<1>3. CASE race.time # 0 /\ e.time = 0
  <2>1. RemainingByTime(race, e) = << 0, 1 >>
    BY <1>3 DEF RemainingByTime, NoLapTime
  <2>2. race.time > 0
    BY <1>1, <1>3
  <2>3. QED
    BY <2>1, <2>2, <1>1, <1>3 DEF remainingLapsMax
<1>4. CASE race.time # 0 /\ e.time # 0
  <2>1. race.time > 0 /\ e.time > 0
    BY <1>1, <1>4
  <2>2. RemainingByTime(race, e) =
          << IF 4 * (race.time - clock) + 2 * e.time < 0 THEN 0
             ELSE 4 * (race.time - clock) + 2 * e.time, e.time >>
    BY <1>4 DEF RemainingByTime, SessionTimeRemain
  <2>3. QED
    BY <2>1, <2>2 DEF remainingLapsMax
<1>5. QED
  BY <1>2, <1>3, <1>4

\* What the plugin publishes is of its type, whatever the estimates.
LEMMA Published ==
  ASSUME BaseInv, NEW e, e.time \in Nat, e.fuel \in Nat
  PROVE  LET rem == remainingLapsMax(race, e)
         IN /\ rem[1] \in Int /\ rem[2] \in Nat \ {0}
            /\ rem # None => rem[1] \in Nat /\ (Q * rem[1]) \div rem[2] \in Nat
            /\ fuelRequired(rem, e) \in Int \X (Nat \ {0})
            /\ fuelRequired(rem, e) # None => rem[1] > 0
            /\ isEnoughFuel(rem, e) \in BOOLEAN
            /\ optionalPit(rem, e) \in Nat \cup {-1}
            /\ optionalPit(rem, e) >= 0 => e.fuel > 0
            /\ optionalPit(rem, e) = 0 => ~Over(rem, lapsOfFuelFull(e))
<1> DEFINE rem == remainingLapsMax(race, e)
           full == lapsOfFuelFull(e)
           n == rem[1] * full[2] - full[1] * rem[2]
           d == rem[2] * full[2]
<1>1. rem = None \/ (rem[1] \in Nat /\ rem[2] \in Nat \ {0})
  <2>1. CASE race.laps > 0 /\ rem = RaceLapsRemain(race)
    BY <2>1, LapsRemain
  <2>2. CASE \E time \in Int : rem = << IF time < 0 THEN 0 ELSE time, e.time >> /\ e.time > 0
    BY <2>2
  <2>3. 4 * (race.time - clock) + 2 * e.time \in Int
    <3>1. race.time \in Nat /\ clock \in Nat
      BY RaceFacts DEF BaseInv, TypeOK
    <3>2. QED
      BY <3>1
  <2>4. QED
    BY <2>1, <2>2, <2>3, Remaining
<1> HIDE DEF rem
<1>2. rem[1] \in Int /\ rem[2] \in Nat \ {0}
  BY <1>1 DEF None
<1>3. Q \in Nat \ {0} /\ Tank \in Nat
  BY RaceAssumption
<1>4. rem # None => rem[1] \in Nat /\ (Q * rem[1]) \div rem[2] \in Nat
  <2>1. ASSUME rem # None
        PROVE  (Q * rem[1]) \div rem[2] \in Nat
    <3>1. Q * rem[1] \in Nat /\ rem[2] \in Nat \ {0}
      BY <2>1, <1>1, <1>3
    <3>2. QED
      BY <3>1, Divided
  <2>2. QED
    BY <2>1, <1>1
<1>5. fuelRequired(rem, e) \in Int \X (Nat \ {0})
  <2>1. rem[1] * e.fuel + 4 * MinFuel * rem[2] \in Int /\ 4 * rem[2] \in Nat \ {0}
    BY <1>2 DEF MinFuel
  <2>2. QED
    BY <2>1 DEF fuelRequired, None
<1>6. fuelRequired(rem, e) # None => rem[1] > 0
  BY <1>2 DEF fuelRequired
<1>7. isEnoughFuel(rem, e) \in BOOLEAN
  BY DEF isEnoughFuel
<1>8. full[1] \in Int /\ full[2] = e.fuel
  BY <1>3 DEF lapsOfFuelFull, MinFuel
<1> HIDE DEF full
<1>9. n \in Int
  BY <1>2, <1>8
<1>10. e.fuel # 0 => d \in Nat \ {0}
  BY <1>2, <1>8
<1>11. optionalPit(rem, e) =
         IF e.fuel = 0 \/ isEnoughFuel(rem, e) \/ ~Over(lapsOfFuel(e), << n, d >>) THEN -1
         ELSE IF n <= 0 THEN 0 ELSE (n + d - 1) \div d
  BY DEF optionalPit, full
<1>12. ~Over(rem, full) <=> n <= 0
  BY <1>2, <1>8 DEF Over
<1> HIDE DEF n, d
<1>13. e.fuel # 0 /\ n > 0 => (n + d - 1) \div d \in Nat \ {0}
  <2>1. ASSUME e.fuel # 0, n > 0
        PROVE  (n + d - 1) \div d \in Nat \ {0}
    <3> DEFINE x == n + d - 1
    <3>1. x \in Nat /\ d \in Nat \ {0} /\ x >= d
      BY <2>1, <1>9, <1>10
    <3> HIDE DEF x
    <3>2. x \div d \in Nat /\ x % d \in 0 .. d - 1 /\ x = d * (x \div d) + (x % d)
      BY <3>1, Divided
    <3>3. x \div d # 0
      BY <3>1, <3>2
    <3>4. QED
      BY <3>2, <3>3 DEF x
  <2>2. QED
    BY <2>1
<1>14. /\ optionalPit(rem, e) \in Nat \cup {-1}
       /\ optionalPit(rem, e) >= 0 => e.fuel # 0
       /\ optionalPit(rem, e) = 0 => n <= 0
  <2> DEFINE pit == optionalPit(rem, e)
  <2>1. CASE e.fuel = 0 \/ isEnoughFuel(rem, e) \/ ~Over(lapsOfFuel(e), << n, d >>)
    <3>1. pit = -1
      BY <2>1, <1>11
    <3>2. QED
      BY <3>1
  <2>2. CASE ~(e.fuel = 0 \/ isEnoughFuel(rem, e) \/ ~Over(lapsOfFuel(e), << n, d >>)) /\ n <= 0
    <3>1. pit = 0 /\ e.fuel # 0
      BY <2>2, <1>11
    <3>2. QED
      BY <3>1, <2>2
  <2>3. CASE ~(e.fuel = 0 \/ isEnoughFuel(rem, e) \/ ~Over(lapsOfFuel(e), << n, d >>)) /\ ~(n <= 0)
    <3>1. pit = (n + d - 1) \div d /\ e.fuel # 0
      BY <2>3, <1>11
    <3>2. n > 0
      BY <2>3, <1>9
    <3>3. pit \in Nat \ {0}
      BY <3>1, <3>2, <1>13
    <3>4. QED
      BY <3>1, <3>3
  <2>4. QED
    BY <2>1, <2>2, <2>3
<1>15. QED
  BY <1>2, <1>4, <1>5, <1>6, <1>7, <1>12, <1>14 DEF rem, full

\* A lap that is recorded has been driven, and has used fuel.
LEMMA LapRecorded ==
  ASSUME BaseInv, AddLapData
  PROVE  /\ laps' \in Seq(Lap) /\ Len(laps') <= MaxLaps /\ est' = EstimateOf(laps')
         /\ g_oldLapLastLapTime' \in -1 .. MaxTime /\ m_lastFuelValue' \in -1 .. Tank
<1>1. /\ Q \in Nat \ {0} /\ Tank \in Nat /\ MaxTime \in Nat /\ MaxLaps \in Nat
      /\ laps \in Seq(Lap) /\ Len(laps) <= MaxLaps /\ est = EstimateOf(laps)
      /\ lastLap \in 0 .. MaxTime /\ (lastLap = 0 \/ lastLap >= Q)
      /\ fuel \in 0 .. Tank /\ m_lastFuelValue \in -1 .. Tank
  BY RaceAssumption DEF BaseInv, TypeOK, CarInv, LapsInv
<1>2. g_oldLapLastLapTime' \in -1 .. MaxTime /\ m_lastFuelValue' \in -1 .. Tank
  BY <1>1 DEF AddLapData
<1>3. CASE IsRecorded
  <2> DEFINE lap == [time |-> 4 * lastLap, fuel |-> 4 * (m_lastFuelValue - fuel)]
  <2>1. lastLap > 0 /\ fuel < m_lastFuelValue /\ Len(laps) < MaxLaps
    BY <1>3 DEF IsRecorded, IsUsed
  <2>2. 4 * lastLap \in 4 * Q .. 4 * MaxTime
    BY <2>1, <1>1
  <2>3. 4 * (m_lastFuelValue - fuel) \in 1 .. 4 * Tank
    BY <2>1, <1>1
  <2>4. lap \in Lap
    BY <2>2, <2>3 DEF Lap
  <2>5. laps' = Append(laps, lap) /\ est' = EstimateOf(laps')
    BY <1>3 DEF AddLapData
  <2> HIDE DEF lap
  <2>6. laps' \in Seq(Lap) /\ Len(laps') = Len(laps) + 1
    BY <2>4, <2>5, <1>1
  <2>7. Len(laps') <= MaxLaps
    BY <2>1, <2>6, <1>1
  <2>8. QED
    BY <2>5, <2>6, <2>7, <1>2
<1>4. CASE ~IsRecorded
  BY <1>1, <1>2, <1>4 DEF AddLapData
<1>5. QED
  BY <1>3, <1>4

LEMMA BaseDrive ==
  ASSUME BaseInv, Drive
  PROVE  BaseInv'
<1>1. /\ ~due /\ ~MustEnd /\ clock < MaxTime
      /\ clock' = clock + 1 /\ pos' = pos + 1 /\ due' = TRUE
      /\ IF AtLine(pos') THEN lastLap' = clock' - lapStart /\ lapStart' = clock'
         ELSE UNCHANGED << lapStart, lastLap >>
      /\ UNCHANGED << race, number, over, useDriverLaps, factor, g_SessionNum, g_SessionTotal,
                      g_oldLapLastLapTime, m_lastFuelValue, laps, est, pub, limit, enough >>
  BY DEF Drive, loop, told
<1>2. PICK burn \in Burns : fuel >= burn /\ fuel' = fuel - burn
  BY DEF Drive
<1>3. /\ Q \in Nat \ {0} /\ Tank \in Nat /\ MaxTime \in Nat /\ burn \in Nat
  BY RaceAssumption
<1>4. /\ race \in Races /\ clock \in 0 .. MaxTime /\ pos \in 0 .. MaxTime
      /\ fuel \in 0 .. Tank /\ lapStart \in 0 .. clock /\ lastLap \in 0 .. MaxTime
      /\ pos <= clock /\ pos % Q <= clock - lapStart
      /\ lastLap = 0 \/ lastLap >= Q
      /\ race.laps > 0 => pos <= Q * race.laps
  BY DEF BaseInv, TypeOK, CarInv
<1>5. fuel' \in 0 .. Tank /\ clock' \in 0 .. MaxTime /\ pos' \in 0 .. MaxTime /\ pos' <= clock'
  BY <1>1, <1>2, <1>3, <1>4
<1>6. pos % Q \in 0 .. Q - 1 /\ (pos + 1) % Q = IF pos % Q = Q - 1 THEN 0 ELSE (pos % Q) + 1
  <2>1. Q \in Nat \ {0} /\ pos \in Nat
    BY <1>3, <1>4
  <2>2. pos % Q \in 0 .. Q - 1
    BY <2>1, Divided
  <2>3. (pos + 1) % Q = IF pos % Q = Q - 1 THEN 0 ELSE (pos % Q) + 1
    BY <2>1, NextLine
  <2>4. QED
    BY <2>2, <2>3
<1>7. /\ lapStart' \in 0 .. clock' /\ lastLap' \in 0 .. MaxTime
      /\ pos' % Q <= clock' - lapStart'
      /\ lastLap' = 0 \/ lastLap' >= Q
  <2>1. CASE AtLine(pos')
    <3>0. lastLap' = clock' - lapStart /\ lapStart' = clock'
      BY <2>1 DEF Drive
    <3>4. clock' = clock + 1
      BY <1>1
    <3>1. lastLap' = clock + 1 - lapStart /\ lapStart' = clock + 1
      BY <3>0, <3>4, <1>3, <1>4, <1>5
    <3>2. pos' % Q = 0 /\ pos % Q = Q - 1
      BY <1>1, <1>3, <1>6, <2>1 DEF AtLine
    <3>3. QED
      BY <3>1, <3>2, <1>1, <1>3, <1>4
  <2>2. CASE ~AtLine(pos')
    <3>1. pos' % Q = (pos % Q) + 1
      BY <1>1, <1>3, <1>6, <2>2 DEF AtLine
    <3>2. QED
      BY <3>1, <1>1, <1>3, <1>4, <1>6, <2>2
  <2>3. QED
    BY <2>1, <2>2
<1>8. race'.laps > 0 => pos' <= Q * race'.laps
  <2>1. SUFFICES ASSUME race.laps > 0
                 PROVE  pos + 1 <= Q * race.laps
    BY <1>1
  <2>2. race.laps \in Nat
    BY <1>4, RaceFacts
  <2>3. Q * race.laps \in Nat \ {0} /\ (Q * race.laps) % Q = 0
    <3>1. Q * race.laps + 0 = Q * race.laps /\ 0 \in 0 .. Q - 1
      BY <1>3, <2>2
    <3>2. (Q * race.laps + 0) % Q = 0
      BY <1>3, <2>2, <3>1, Quotient
    <3>3. QED
      BY <3>1, <3>2, <1>3, <2>1, <2>2
  <2>4. pos # Q * race.laps
    BY <2>1, <2>3, <1>1, <1>4 DEF MustEnd, AtLine
  <2>5. QED
    BY <2>1, <2>3, <2>4, <1>4
<1>9. TypeOK'
  BY <1>1, <1>5, <1>7 DEF BaseInv, TypeOK
<1>10. CarInv'
  BY <1>5, <1>7, <1>8 DEF CarInv
<1>11. LapsInv' /\ SessionInv'
  BY <1>1 DEF BaseInv, LapsInv, SessionInv
<1>12. QED
  BY <1>9, <1>10, <1>11 DEF BaseInv

LEMMA BaseLoseTime ==
  ASSUME BaseInv, LoseTime
  PROVE  BaseInv'
<1>1. /\ clock < MaxTime /\ clock' = clock + 1 /\ due' = TRUE
      /\ UNCHANGED << race, number, pos, fuel, lapStart, lastLap, over, useDriverLaps, factor,
                      g_SessionNum, g_SessionTotal, g_oldLapLastLapTime, m_lastFuelValue, laps,
                      est, pub, limit, enough >>
  BY DEF LoseTime, loop, told
<1>2. /\ Q \in Nat \ {0} /\ MaxTime \in Nat
      /\ clock \in 0 .. MaxTime /\ pos \in 0 .. MaxTime /\ lapStart \in 0 .. clock
      /\ pos <= clock /\ pos % Q <= clock - lapStart
  BY RaceAssumption DEF BaseInv, TypeOK, CarInv
<1>3. pos % Q \in Int
  BY <1>2
<1>4. /\ clock' \in 0 .. MaxTime /\ lapStart' \in 0 .. clock'
      /\ pos' <= clock' /\ pos' % Q <= clock' - lapStart'
  BY <1>1, <1>2, <1>3
<1>5. TypeOK'
  BY <1>1, <1>4 DEF BaseInv, TypeOK
<1>6. CarInv'
  BY <1>1, <1>4 DEF BaseInv, CarInv
<1>7. LapsInv' /\ SessionInv'
  BY <1>1 DEF BaseInv, LapsInv, SessionInv
<1>8. QED
  BY <1>5, <1>6, <1>7 DEF BaseInv

LEMMA BaseFinish ==
  ASSUME BaseInv, Finish
  PROVE  BaseInv'
<1>1. /\ over' = TRUE
      /\ UNCHANGED << race, number, clock, pos, fuel, lapStart, lastLap, due, useDriverLaps, factor,
                      g_SessionNum, g_SessionTotal, g_oldLapLastLapTime, m_lastFuelValue, laps,
                      est, pub, limit, enough >>
  BY DEF Finish, loop, told
<1>2. TypeOK'
  BY <1>1 DEF BaseInv, TypeOK
<1>3. CarInv' /\ LapsInv'
  BY <1>1 DEF BaseInv, CarInv, LapsInv
<1>4. remainingLapsMax(race, est)' = remainingLapsMax(race, est)
  BY <1>1 DEF remainingLapsMax, RemainingByTime, RaceLapsRemain, SessionTimeRemain,
              SessionLapsRemainEx, DriverLap
<1>5. SessionInv'
  BY <1>1, <1>4 DEF BaseInv, SessionInv
<1>6. QED
  BY <1>2, <1>3, <1>5 DEF BaseInv

LEMMA BaseRefuel ==
  ASSUME BaseInv, NEW litres \in Nat, Refuel(litres)
  PROVE  BaseInv'
<1>1. /\ fuel' = Least(Tank, fuel + litres) /\ due' = TRUE /\ enough' = FALSE
      /\ UNCHANGED << race, number, clock, pos, lapStart, lastLap, over, useDriverLaps, factor,
                      g_SessionNum, g_SessionTotal, g_oldLapLastLapTime, m_lastFuelValue, laps,
                      est, pub, limit >>
  BY DEF Refuel, loop
<1>2. fuel' \in 0 .. Tank
  <2>1. fuel \in 0 .. Tank /\ Tank \in Nat
    BY RaceAssumption DEF BaseInv, TypeOK
  <2>2. QED
    BY <2>1, <1>1 DEF Least
<1>3. TypeOK'
  <2>1. enough' \in BOOLEAN /\ due' \in BOOLEAN
    BY <1>1
  <2>2. QED
    BY <1>1, <1>2, <2>1 DEF BaseInv, TypeOK
<1>4. CarInv' /\ LapsInv' /\ SessionInv'
  BY <1>1 DEF BaseInv, CarInv, LapsInv, SessionInv
<1>5. QED
  BY <1>3, <1>4 DEF BaseInv

\* What is added is some number of litres.
LEMMA StopAmount ==
  ASSUME BaseInv
  PROVE  fuelToAdd \in Nat /\ fuelToAddInLitres(fuelToAdd) \in Nat
<1>1. /\ pub.required[1] \in Int /\ pub.required[2] \in Nat \ {0} /\ fuel \in Nat
      /\ factor[1] \in Nat \ {0} /\ factor[2] \in Nat \ {0}
  <2>1. pub.required \in Int \X (Nat \ {0})
    BY DEF BaseInv, SessionInv
  <2>2. factor \in Factors /\ fuel \in 0 .. Tank
    BY DEF BaseInv, TypeOK
  <2>3. factor \in (Nat \ {0}) \X (Nat \ {0}) /\ Tank \in Nat
    BY <2>2, RaceAssumption
  <2>4. QED
    BY <2>1, <2>2, <2>3
<1> DEFINE n == (pub.required[1] - fuel * pub.required[2]) * factor[1]
           d == pub.required[2] * 10 * factor[2]
<1>2. n \in Int /\ d \in Nat \ {0}
  BY <1>1
<1>3. fuelToAdd = IF n > 0 THEN n \div d + 1 ELSE 0
  BY DEF fuelToAdd
<1> HIDE DEF n, d
<1>4. fuelToAdd \in Nat
  <2>1. n > 0 => n \div d \in Nat
    BY <1>2, Divided
  <2>2. QED
    BY <2>1, <1>3
<1>5. fuelToAddInLitres(fuelToAdd) \in Nat
  <2>1. 2 * fuelToAdd * factor[2] + factor[1] \in Nat /\ 2 * factor[1] \in Nat \ {0}
    BY <1>1, <1>4
  <2>2. QED
    BY <2>1, Divided DEF fuelToAddInLitres
<1>6. QED
  BY <1>4, <1>5

LEMMA BaseNextSession ==
  ASSUME BaseInv, NextSession
  PROVE  BaseInv'
<1>1. /\ ~due /\ number = 0 /\ number' = 1
      /\ clock' = 0 /\ pos' = 0 /\ lapStart' = 0 /\ lastLap' = 0 /\ over' = FALSE
      /\ limit' = NoLimit /\ enough' = FALSE /\ fuel' = Tank /\ due' = TRUE
      /\ race' \in Races
      /\ UNCHANGED << useDriverLaps, factor, g_SessionNum, g_SessionTotal, g_oldLapLastLapTime,
                      m_lastFuelValue, laps, est, pub >>
  BY DEF NextSession, Grid, loop
<1>2. Q \in Nat \ {0} /\ MaxTime \in Nat /\ Tank \in Nat
  BY RaceAssumption
<1>3. TypeOK'
  <2>1. NoLimit \in Nat
    BY <1>2 DEF NoLimit
  <2>2. /\ race' \in Races /\ number' \in {0, 1} /\ clock' \in 0 .. MaxTime /\ pos' \in 0 .. MaxTime
        /\ fuel' \in 0 .. Tank /\ lapStart' \in 0 .. clock' /\ lastLap' \in 0 .. MaxTime
        /\ limit' \in 0 .. NoLimit
    BY <1>1, <1>2, <2>1
  <2>3. over' \in BOOLEAN /\ due' \in BOOLEAN /\ enough' \in BOOLEAN
    BY <1>1
  <2>4. QED
    BY <1>1, <2>2, <2>3 DEF BaseInv, TypeOK
<1>4. CarInv'
  <2>1. 0 % Q = 0
    BY <1>2
  <2>2. race'.laps \in Nat
    BY <1>1, RaceFacts
  <2>3. Q * race'.laps \in Nat
    BY <1>2, <2>2
  <2>4. pos' % Q <= clock' - lapStart'
    BY <1>1, <2>1
  <2>5. QED
    BY <1>1, <2>3, <2>4 DEF CarInv
<1>5. LapsInv'
  BY <1>1 DEF BaseInv, LapsInv
<1>6. SessionInv'
  <2>1. g_SessionNum = 0
    BY <1>1 DEF BaseInv, SessionInv
  <2>2. g_SessionNum' # number'
    BY <1>1, <2>1
  <2>3. QED
    BY <1>1, <2>2 DEF BaseInv, SessionInv
<1>7. QED
  BY <1>3, <1>4, <1>5, <1>6 DEF BaseInv

\* The state after the data branch: the estimates are those of the laps, and what is
\* published follows from them and the session.
LEMMA PublishFacts ==
  ASSUME BaseInv, Publish
  PROVE  LET rem     == remainingLapsMax(race, est')
             promise == pos + ((Q * rem[1]) \div rem[2]) + (IF useDriverLaps THEN 0 ELSE Q)
             holds   == LeaderRaces /\ (race.time > 0 => Sound(est'))
         IN /\ est'.time \in {0} \cup 4 * Q .. 4 * MaxTime /\ est'.time \in Nat
            /\ est'.fuel \in 0 .. 4 * Tank
            /\ g_SessionNum' = number /\ g_SessionTotal' = race
            /\ due /\ due' = FALSE /\ UNCHANGED << car, useDriverLaps, factor >>
            /\ pub' = [remaining |-> rem, required |-> fuelRequired(rem, est'),
                       enough |-> isEnoughFuel(rem, est'), pit |-> optionalPit(rem, est')]
            /\ limit' = IF rem # None /\ holds THEN Least(limit, promise) ELSE limit
            /\ enough' = (enough \/ (/\ isEnoughFuel(rem, est') /\ fuelRequired(rem, est') # None
                                     /\ holds /\ Sound(est') /\ useDriverLaps))
            /\ now' = IF optionalPit(rem, est') = 0 THEN est' ELSE now
<1>1. est'.time \in {0} \cup 4 * Q .. 4 * MaxTime /\ est'.fuel \in 0 .. 4 * Tank
  BY LapRecorded, EstimateType DEF Publish
<1>2. est'.time \in Nat
  <2>1. 4 * Q \in Nat
    BY RaceAssumption
  <2>2. QED
    BY <1>1, <2>1
<1>3. g_SessionNum' = number /\ g_SessionTotal' = race
  BY DEF Publish, ParseSession, BaseInv, SessionInv
<1> DEFINE rem == remainingLapsMax(g_SessionTotal', est')
<1>4. /\ due /\ due' = FALSE /\ UNCHANGED << car, useDriverLaps, factor >>
      /\ pub' = [remaining |-> rem, required |-> fuelRequired(rem, est'),
                 enough |-> isEnoughFuel(rem, est'), pit |-> optionalPit(rem, est')]
  BY DEF Publish
<1>5. /\ limit' = IF rem # None /\ LeaderRaces /\ (race.time > 0 => Sound(est'))
                  THEN Least(limit, pos + ((Q * rem[1]) \div rem[2]) + (IF useDriverLaps THEN 0 ELSE Q))
                  ELSE limit
      /\ enough' = (enough \/ (/\ pub'.enough /\ pub'.required # None
                               /\ LeaderRaces /\ (race.time > 0 => Sound(est'))
                               /\ Sound(est') /\ useDriverLaps))
      /\ now' = IF pub'.pit = 0 THEN est' ELSE now
  BY DEF Publish
<1> HIDE DEF rem
<1>6. /\ pub'.enough = isEnoughFuel(rem, est') /\ pub'.required = fuelRequired(rem, est')
      /\ pub'.pit = optionalPit(rem, est')
  BY <1>4
<1>7. rem = remainingLapsMax(race, est')
  BY <1>3 DEF rem
<1>8. QED
  BY <1>1, <1>2, <1>3, <1>4, <1>5, <1>6, <1>7

LEMMA BasePublish ==
  ASSUME BaseInv, Publish
  PROVE  BaseInv'
<1> DEFINE rem     == remainingLapsMax(race, est')
           promise == pos + ((Q * rem[1]) \div rem[2]) + (IF useDriverLaps THEN 0 ELSE Q)
<1>1. /\ est'.time \in {0} \cup 4 * Q .. 4 * MaxTime /\ est'.time \in Nat
      /\ est'.fuel \in 0 .. 4 * Tank
      /\ g_SessionNum' = number /\ g_SessionTotal' = race
      /\ due /\ due' = FALSE /\ UNCHANGED << car, useDriverLaps, factor >>
      /\ pub' = [remaining |-> rem, required |-> fuelRequired(rem, est'),
                 enough |-> isEnoughFuel(rem, est'), pit |-> optionalPit(rem, est')]
      /\ limit' = limit \/ (rem # None /\ limit' = Least(limit, promise))
      /\ enough' \in BOOLEAN
  BY PublishFacts DEF BaseInv, TypeOK
<1>2. /\ Q \in Nat \ {0} /\ Tank \in Nat /\ MaxTime \in Nat
      /\ 4 * Q \in Nat /\ 4 * Tank \in Nat /\ 4 * MaxTime \in Nat
  BY RaceAssumption
<1>3. est'.fuel \in Nat
  BY <1>1, <1>2
<1>4. /\ rem[1] \in Int /\ rem[2] \in Nat \ {0}
      /\ rem # None => (Q * rem[1]) \div rem[2] \in Nat
      /\ fuelRequired(rem, est') \in Int \X (Nat \ {0})
      /\ isEnoughFuel(rem, est') \in BOOLEAN
      /\ optionalPit(rem, est') \in Nat \cup {-1}
      /\ optionalPit(rem, est') >= 0 => est'.fuel > 0
  BY <1>1, <1>3, Published
<1>5. /\ laps' \in Seq(Lap) /\ Len(laps') <= MaxLaps /\ est' = EstimateOf(laps')
      /\ g_oldLapLastLapTime' \in -1 .. MaxTime /\ m_lastFuelValue' \in -1 .. Tank
  BY LapRecorded DEF Publish
<1>6. remainingLapsMax(race, est)' = rem
  BY <1>1 DEF car, remainingLapsMax, RemainingByTime, RaceLapsRemain, SessionTimeRemain,
              SessionLapsRemainEx, DriverLap
<1>7. pub'.remaining = rem /\ pub'.required = fuelRequired(rem, est')
      /\ pub'.enough = isEnoughFuel(rem, est') /\ pub'.pit = optionalPit(rem, est')
  BY <1>1
<1>8. limit' \in 0 .. NoLimit
  <2>1. limit \in 0 .. NoLimit /\ pos \in Nat /\ NoLimit \in Nat
    BY <1>2 DEF BaseInv, TypeOK, NoLimit
  <2>2. rem # None => promise \in Nat
    BY <2>1, <1>2, <1>4
  <2> HIDE DEF promise
  <2>3. QED
    BY <2>1, <2>2, <1>1 DEF Least
<1> HIDE DEF rem, promise
<1>9. SessionInv'
  BY <1>1, <1>4, <1>6, <1>7 DEF SessionInv, car
<1>10. CarInv' /\ LapsInv'
  BY <1>1, <1>5 DEF BaseInv, CarInv, LapsInv, car
<1>11. TypeOK'
  <2>1. \A i \in DOMAIN laps' : laps'[i].time \in 4 * Q .. 4 * MaxTime
                                /\ laps'[i].fuel \in 1 .. 4 * Tank
    <3>1. \A i \in DOMAIN laps' : laps'[i] \in Lap
      BY <1>5
    <3>2. QED
      BY <3>1 DEF Lap
  <2>2. est'.time \in 0 .. 4 * MaxTime
    BY <1>1, <1>2
  <2>3. /\ race' \in Races /\ number' \in {0, 1} /\ clock' \in 0 .. MaxTime /\ pos' \in 0 .. MaxTime
        /\ fuel' \in 0 .. Tank /\ lapStart' \in 0 .. clock' /\ lastLap' \in 0 .. MaxTime
        /\ over' \in BOOLEAN /\ useDriverLaps' \in BOOLEAN /\ factor' \in Factors
    BY <1>1 DEF BaseInv, TypeOK, car
  <2>4. g_SessionNum' \in {-1, 0, 1} /\ g_SessionTotal' \in Races \cup {Unlimited}
    BY <1>1 DEF BaseInv, TypeOK
  <2>5. due' \in BOOLEAN /\ enough' \in BOOLEAN
    BY <1>1
  <2>6. pub'.pit \in Nat \cup {-1} /\ pub'.enough \in BOOLEAN
    BY <1>4, <1>7
  <2>7. QED
    BY <2>1, <2>2, <2>3, <2>4, <2>5, <2>6, <1>1, <1>5, <1>8 DEF TypeOK
<1>12. QED
  BY <1>9, <1>10, <1>11 DEF BaseInv

\* Every step keeps BaseInv.
LEMMA BaseStep == BaseInv /\ [Next]_vars => BaseInv'
<1> SUFFICES ASSUME BaseInv, [Next]_vars
             PROVE  BaseInv'
  OBVIOUS
<1>1. CASE ApplyAndStop
  <2>1. 10 * fuelToAddInLitres(fuelToAdd) \in Nat /\ Refuel(10 * fuelToAddInLitres(fuelToAdd))
    BY <1>1, StopAmount DEF ApplyAndStop
  <2>2. QED
    BY <2>1, BaseRefuel
<1>2. CASE FillUp
  BY <1>2, BaseRefuel, RaceAssumption DEF FillUp
<1>3. CASE Splash
  BY <1>3, BaseRefuel, RaceAssumption DEF Splash
<1>4. CASE UNCHANGED vars
  <2>1. remainingLapsMax(race, est)' = remainingLapsMax(race, est)
    BY <1>4 DEF vars, car, loop, remainingLapsMax, RemainingByTime, RaceLapsRemain,
                SessionTimeRemain, SessionLapsRemainEx, DriverLap
  <2>2. TypeOK'
    BY <1>4 DEF BaseInv, TypeOK, vars, car, loop, told
  <2>3. CarInv' /\ LapsInv' /\ SessionInv'
    BY <1>4, <2>1 DEF BaseInv, CarInv, LapsInv, SessionInv, vars, car, loop
  <2>4. QED
    BY <2>2, <2>3 DEF BaseInv
<1>5. QED
  BY <1>1, <1>2, <1>3, <1>4, BaseDrive, BaseLoseTime, BaseFinish, BaseNextSession, BasePublish
     DEF Next

\* BaseInv holds in every state.
LEMMA Base == Spec => []BaseInv
BY BaseInit, BaseStep, PTL DEF Spec

\* The estimates of lap time and fuel per lap are never optimistic, whatever laps were
\* stored and recorded.
THEOREM EstimatesSafe == Spec => []EstimatesConservative
<1>1. BaseInv => EstimatesConservative
  <2> SUFFICES ASSUME BaseInv, laps # << >>
               PROVE  LET times == Times(laps)
                          fuels == Fuels(laps)
                          t == calcMedian(times, FALSE, Unknown)
                          f == calcMedian(fuels, FALSE, Unknown)
                          usualTime == IF t.mad = 0 THEN DOMAIN laps ELSE Usual(times, t)
                          usualFuel == IF f.mad = 0 THEN DOMAIN laps ELSE Usual(fuels, f)
                      IN /\ 2 * Cardinality({i \in usualTime : times[i] < est.time}) <= Cardinality(usualTime)
                         /\ 2 * Cardinality({i \in usualFuel : fuels[i] > est.fuel}) <= Cardinality(usualFuel)
                         /\ \E i \in DOMAIN laps : times[i] <= est.time
                         /\ \E i \in DOMAIN laps : fuels[i] >= est.fuel
    BY DEF EstimatesConservative
  <2>1. laps \in Seq(Lap) /\ est = EstimateOf(laps)
    BY DEF BaseInv, LapsInv
  <2>2. QED
    BY <2>1, EstimateFacts
<1>2. QED
  BY <1>1, Base, PTL

-------------------------------------------------------------------------------

\* The last line the driver can cross when the race ends for him at the first one from
\* the time C on is not beyond the limit.
Home(C) == \E k \in Nat \ {0} : Q * k <= limit /\ pos <= Q * k /\ pos + C - clock <= Q * k

\* Where the race was promised to end by suffices: the limit of laps or the limit of time
\* ends it there.
LimitInv ==
  \/ limit = NoLimit
  \/ race.laps > 0 /\ Home(Q * race.laps)
  \/ race.time > 0 /\ Home(race.time + Q)

\* The car is not beyond the limit.
LEMMA LimitSuffices ==
  ASSUME BaseInv, LimitInv
  PROVE  pos <= limit
<1>1. /\ Q \in Nat \ {0} /\ MaxTime \in Nat
      /\ pos \in 0 .. MaxTime /\ limit \in Int
  <2>1. NoLimit \in Int
    BY RaceAssumption DEF NoLimit
  <2>2. QED
    BY <2>1, RaceAssumption DEF BaseInv, TypeOK
<1>2. ASSUME limit = NoLimit
      PROVE  pos <= limit
  <2>1. \A q, m \in Nat : q >= 1 => q * (m + 3) >= m
    <3>1. SUFFICES ASSUME NEW q \in Nat, NEW m \in Nat, q >= 1
                   PROVE  q * (m + 3) >= m
      OBVIOUS
    <3>2. q * (m + 3) >= m + 3
      BY <3>1
    <3>3. QED
      BY <3>2
  <2>2. QED
    BY <2>1, <1>1, <1>2 DEF NoLimit
<1>3. ASSUME NEW C, Home(C)
      PROVE  pos <= limit
  <2>1. PICK k \in Nat \ {0} : Q * k <= limit /\ pos <= Q * k
    BY <1>3 DEF Home
  <2>2. Q * k \in Int
    BY <1>1
  <2>3. QED
    BY <2>1, <2>2, <1>1
<1>4. QED
  BY <1>2, <1>3 DEF LimitInv

\* What the laps published promise is far enough.
LEMMA PromiseHolds ==
  ASSUME BaseInv, NEW e, e.time \in {0} \cup 4 * Q .. 4 * MaxTime, e.time \in Nat, e.fuel \in Nat,
         remainingLapsMax(race, e) # None,
         LeaderRaces, race.time > 0 => Sound(e)
  PROVE  LET rem     == remainingLapsMax(race, e)
             promise == pos + ((Q * rem[1]) \div rem[2]) + (IF useDriverLaps THEN 0 ELSE Q)
             Reached(C) == \E k \in Nat \ {0} :
                             Q * k <= promise /\ pos <= Q * k /\ pos + C - clock <= Q * k
         IN \/ race.laps > 0 /\ Reached(Q * race.laps)
            \/ race.time > 0 /\ Reached(race.time + Q)
<1> DEFINE rem     == remainingLapsMax(race, e)
           promise == pos + ((Q * rem[1]) \div rem[2]) + (IF useDriverLaps THEN 0 ELSE Q)
           Reached(C) == \E k \in Nat \ {0} :
                           Q * k <= promise /\ pos <= Q * k /\ pos + C - clock <= Q * k
           time == 4 * (race.time - clock) + 2 * e.time
<1>1. /\ Q \in Nat \ {0} /\ race.laps \in Nat /\ race.time \in Nat
      /\ pos \in Nat /\ clock \in Nat /\ pos <= clock
      /\ race.laps > 0 => pos <= Q * race.laps
  BY RaceAssumption, RaceFacts DEF BaseInv, TypeOK, CarInv
<1>2. ASSUME NEW C \in Nat, NEW X \in Nat, promise \in Nat,
             pos <= X, pos + C - clock <= X, X + Q <= promise
      PROVE  Reached(C)
  <2> HIDE DEF promise
  <2>1. PICK k \in Nat \ {0} : X <= Q * k /\ Q * k <= X + Q
    BY <1>1, LineAhead
  <2>2. Q * k \in Nat
    BY <1>1
  <2>3. Q * k <= promise /\ pos <= Q * k /\ pos + C - clock <= Q * k
    BY <2>1, <2>2, <1>1, <1>2
  <2>4. QED
    BY <2>3
<1>3. CASE race.laps > 0 /\ rem = RaceLapsRemain(race)
  <2> DEFINE n == RaceLapsRemain(race)[1]
             C == Q * race.laps
  <2>1. /\ n \in Nat /\ RaceLapsRemain(race) = << n, 1 >>
        /\ useDriverLaps => C <= pos + Q * n
        /\ clock < C => C - clock <= Q * n
    BY <1>3, LapsRemain
  <2> HIDE DEF n
  <2>2. C \in Nat \ {0} /\ Q * n \in Nat
    BY <1>1, <1>3, <2>1
  <2>3. promise = pos + (Q * n) + (IF useDriverLaps THEN 0 ELSE Q)
    <3>1. rem[1] = n /\ rem[2] = 1
      BY <1>3, <2>1
    <3>2. (Q * n) \div 1 = Q * n
      BY <2>2
    <3> HIDE DEF rem
    <3>3. QED
      BY <3>1, <3>2
  <2> HIDE DEF promise, C, rem
  <2>4. CASE useDriverLaps
    <3>0. promise = pos + (Q * n) + 0
      BY <2>3, <2>4
    <3>1. promise = pos + (Q * n) /\ C <= promise
      BY <3>0, <2>1, <2>2, <2>4, <1>1
    <3>2. C = Q * race.laps /\ pos <= C /\ pos + C - clock <= C
      BY <1>1, <1>3, <2>2 DEF C
    <3>3. Q * race.laps <= promise /\ pos <= Q * race.laps /\ pos + C - clock <= Q * race.laps
      BY <3>1, <3>2
    <3>4. race.laps \in Nat \ {0}
      BY <1>1, <1>3
    <3>5. Reached(C)
      BY <3>3, <3>4
    <3>6. QED
      BY <3>5, <1>3 DEF C, promise, rem
  <2>5. CASE ~useDriverLaps
    <3> DEFINE X == IF clock < C THEN pos + C - clock ELSE pos
    <3>1. promise = pos + (Q * n) + Q
      BY <2>3, <2>5
    <3>2. X \in Nat /\ pos <= X /\ pos + C - clock <= X /\ X <= pos + (Q * n)
      <4>1. CASE clock < C
        BY <4>1, <1>1, <2>1, <2>2
      <4>2. CASE ~(clock < C)
        BY <4>2, <1>1, <2>1, <2>2
      <4>3. QED
        BY <4>1, <4>2
    <3> HIDE DEF X
    <3>3. promise \in Nat /\ X + Q <= promise
      BY <3>1, <3>2, <1>1, <2>2
    <3>4. Reached(C)
      BY <3>2, <3>3, <2>2, <1>2
    <3>5. QED
      BY <3>4, <1>3 DEF C, promise, rem
  <2>6. QED
    BY <2>4, <2>5
<1>4. CASE race.time > 0 /\ e.time > 0 /\ rem = << IF time < 0 THEN 0 ELSE time, e.time >>
  <2> DEFINE a == race.time - clock + 2 * Q
             X == pos + race.time + Q - clock
  <2>1. e.time = 4 * Q
    BY <1>1, <1>4 DEF Sound
  <2>2. clock <= race.time + Q
    BY <1>4 DEF LeaderRaces
  <2>3. a \in Nat /\ X \in Nat /\ time = 4 * a /\ time \in Nat
    BY <2>1, <2>2, <1>1
  <2>4. rem[1] = 4 * a /\ rem[2] = 4 * Q
    <3> HIDE DEF a, time
    <3>1. rem = << time, e.time >>
      BY <2>3, <1>4
    <3>2. QED
      BY <3>1, <2>1, <2>3
  <2>5. (Q * (4 * a)) \div (4 * Q) = a
    <3> HIDE DEF a
    <3>1. Q * (4 * a) = (4 * Q) * a /\ 4 * Q \in Nat \ {0}
      BY <1>1, <2>3
    <3>2. ((4 * Q) * a) \div (4 * Q) = a
      BY <3>1, <2>3, Exact
    <3>3. QED
      BY <3>1, <3>2
  <2>6. promise = pos + a + (IF useDriverLaps THEN 0 ELSE Q)
    <3> HIDE DEF a, rem
    <3>1. QED
      BY <2>4, <2>5
  <2> HIDE DEF promise
  <2>7. promise \in Nat /\ X + Q <= promise
    BY <2>3, <2>6, <1>1
  <2>8. pos <= X /\ pos + (race.time + Q) - clock <= X /\ race.time + Q \in Nat
    BY <1>1, <2>2
  <2> HIDE DEF X
  <2>9. Reached(race.time + Q)
    BY <2>3, <2>7, <2>8, <1>2
  <2>10. QED
    BY <2>9, <1>4 DEF promise
<1>5. CASE race.time > 0 /\ e.time = 0
  BY <1>5 DEF Sound
<1>6. QED
  BY <1>3, <1>4, <1>5, Remaining

\* A car that moves on: where its race ends at the latest stays where it was.
LEMMA HomeDrive ==
  ASSUME BaseInv, Drive, NEW C \in Nat, Home(C),
         AtLine(pos) /\ pos > 0 => clock < C
  PROVE  Home(C)'
<1>1. pos \in Nat /\ clock \in Nat /\ Q \in Nat \ {0}
  BY RaceAssumption DEF BaseInv, TypeOK
<1>2. pos' = pos + 1 /\ clock' = clock + 1 /\ limit' = limit
  BY DEF Drive, told
<1>3. PICK k \in Nat \ {0} : Q * k <= limit /\ pos <= Q * k /\ pos + C - clock <= Q * k
  BY DEF Home
<1>4. Q * k \in Nat \ {0} /\ (Q * k) % Q = 0
  BY <1>1, Exact
<1>5. pos + 1 <= Q * k
  <2>1. CASE clock < C
    BY <2>1, <1>1, <1>3, <1>4
  <2>2. CASE ~(clock < C)
    <3>1. pos # Q * k
      BY <2>2, <1>4 DEF AtLine
    <3>2. QED
      BY <3>1, <1>1, <1>3, <1>4
  <2>3. QED
    BY <2>1, <2>2
<1>6. pos' <= Q * k /\ pos' + C - clock' <= Q * k /\ Q * k <= limit'
  BY <1>1, <1>2, <1>3, <1>4, <1>5
<1>7. QED
  BY <1>6 DEF Home

\* No step of the car or of the loop moves the race beyond the limit.
LEMMA LimitStep ==
  ASSUME BaseInv, LimitInv, [Next]_vars
  PROVE  LimitInv'
<1>1. /\ Q \in Nat \ {0} /\ race.laps \in Nat /\ race.time \in Nat
      /\ pos \in Nat /\ clock \in Nat
      /\ Q * race.laps \in Nat /\ race.time + Q \in Nat
  <2>1. Q \in Nat \ {0} /\ race.laps \in Nat /\ race.time \in Nat /\ pos \in Nat /\ clock \in Nat
    BY RaceAssumption, RaceFacts DEF BaseInv, TypeOK
  <2>2. QED
    BY <2>1
<1>2. CASE Drive
  <2>1. UNCHANGED << race, limit >> /\ ~MustEnd
    BY <1>2 DEF Drive, told
  <2>2. ASSUME race.laps > 0, Home(Q * race.laps)
        PROVE  Home(Q * race.laps)'
    <3>1. AtLine(pos) /\ pos > 0 => clock < Q * race.laps
      BY <1>1, <2>1, <2>2 DEF MustEnd
    <3> DEFINE C == Q * race.laps
    <3>2. C \in Nat /\ Home(C) /\ (AtLine(pos) /\ pos > 0 => clock < C) /\ C' = C
      BY <2>1, <2>2, <3>1, <1>1
    <3> HIDE DEF C
    <3>3. \E k \in Nat \ {0} : Q * k <= limit' /\ pos' <= Q * k /\ pos' + C - clock' <= Q * k
      BY <3>2, <1>2, HomeDrive DEF Home
    <3>4. QED
      BY <3>2, <3>3 DEF Home, C
  <2>3. ASSUME race.time > 0, Home(race.time + Q)
        PROVE  Home(race.time + Q)'
    <3>1. AtLine(pos) /\ pos > 0 => clock < race.time + Q
      BY <1>1, <2>1, <2>3 DEF MustEnd
    <3> DEFINE C == race.time + Q
    <3>2. C \in Nat /\ Home(C) /\ (AtLine(pos) /\ pos > 0 => clock < C) /\ C' = C
      BY <2>1, <2>3, <3>1, <1>1
    <3> HIDE DEF C
    <3>3. \E k \in Nat \ {0} : Q * k <= limit' /\ pos' <= Q * k /\ pos' + C - clock' <= Q * k
      BY <3>2, <1>2, HomeDrive DEF Home
    <3>4. QED
      BY <3>2, <3>3 DEF Home, C
  <2>4. race' = race /\ NoLimit' = NoLimit
    BY <2>1 DEF NoLimit
  <2>5. QED
    BY <2>1, <2>2, <2>3, <2>4 DEF LimitInv
<1>3. CASE LoseTime
  <2>1. UNCHANGED << race, limit, pos >> /\ clock' = clock + 1
    BY <1>3 DEF LoseTime, told
  <2>2. ASSUME NEW C \in Nat, Home(C)
        PROVE  \E k \in Nat \ {0} : Q * k <= limit' /\ pos' <= Q * k /\ pos' + C - clock' <= Q * k
    <3>1. PICK k \in Nat \ {0} : Q * k <= limit /\ pos <= Q * k /\ pos + C - clock <= Q * k
      BY <2>2 DEF Home
    <3>2. pos + C - (clock + 1) <= Q * k
      BY <3>1, <1>1
    <3>3. QED
      BY <3>1, <3>2, <2>1
  <2>3. Home(Q * race.laps) => Home(Q * race.laps)'
    BY <2>1, <2>2, <1>1 DEF Home
  <2>4. Home(race.time + Q) => Home(race.time + Q)'
    BY <2>1, <2>2, <1>1 DEF Home
  <2>5. QED
    BY <2>1, <2>3, <2>4 DEF LimitInv, NoLimit
<1>4. CASE UNCHANGED << race, limit, pos, clock >>
  BY <1>4 DEF LimitInv, Home, NoLimit
<1>5. CASE NextSession
  BY <1>5 DEF NextSession, Grid, LimitInv, NoLimit
<1>6. CASE Publish
  <2> DEFINE rem     == remainingLapsMax(race, est')
             promise == pos + ((Q * rem[1]) \div rem[2]) + (IF useDriverLaps THEN 0 ELSE Q)
             Reached(C) == \E k \in Nat \ {0} :
                             Q * k <= promise /\ pos <= Q * k /\ pos + C - clock <= Q * k
  <2>1. /\ est'.time \in {0} \cup 4 * Q .. 4 * MaxTime /\ est'.time \in Nat
        /\ est'.fuel \in 0 .. 4 * Tank
        /\ UNCHANGED car
        /\ limit' = IF rem # None /\ LeaderRaces /\ (race.time > 0 => Sound(est'))
                    THEN Least(limit, promise) ELSE limit
    BY <1>6, PublishFacts
  <2>2. CASE limit' = limit
    BY <2>1, <2>2, <1>4 DEF car
  <2>3. CASE limit' # limit
    <3>1. rem # None /\ LeaderRaces /\ (race.time > 0 => Sound(est')) /\ limit' = promise
      BY <2>1, <2>3 DEF Least
    <3>2. est'.fuel \in Nat
      <4>1. 4 * Tank \in Nat
        BY RaceAssumption
      <4>2. QED
        BY <4>1, <2>1
    <3>3. \/ race.laps > 0 /\ Reached(Q * race.laps)
          \/ race.time > 0 /\ Reached(race.time + Q)
      BY <2>1, <3>1, <3>2, PromiseHolds
    <3>4. UNCHANGED << race, pos, clock >>
      BY <2>1 DEF car
    <3> HIDE DEF rem, promise
    <3>5. QED
      BY <3>1, <3>3, <3>4 DEF LimitInv, Home
  <2>4. QED
    BY <2>2, <2>3
<1>7. ASSUME NEW litres, Refuel(litres)
      PROVE  LimitInv'
  <2>1. UNCHANGED << race, limit, pos, clock >>
    BY <1>7 DEF Refuel
  <2>2. QED
    BY <2>1, <1>4
<1>8. CASE Finish \/ UNCHANGED vars
  <2>1. UNCHANGED << race, limit, pos, clock >>
    BY <1>8 DEF Finish, vars, car, told
  <2>2. QED
    BY <2>1, <1>4
<1>9. QED
  BY <1>2, <1>3, <1>5, <1>6, <1>7, <1>8 DEF Next, ApplyAndStop, FillUp, Splash

-------------------------------------------------------------------------------

\* Who was told that the fuel is enough has it for every step up to the limit.
EnoughInv == enough => \A burn \in Burns : fuel - MinFuel >= (limit - pos) * burn

\* Enough fuel for the laps that remain is enough for each of their steps, however
\* much it burns of what the estimates allow.
LEMMA FuelLasts ==
  ASSUME BaseInv, NEW e, e.time \in Nat, e.fuel \in Nat, Sound(e),
         isEnoughFuel(remainingLapsMax(race, e), e),
         fuelRequired(remainingLapsMax(race, e), e) # None
  PROVE  LET rem == remainingLapsMax(race, e)
         IN /\ rem # None /\ (Q * rem[1]) \div rem[2] \in Nat
            /\ \A burn \in Burns : fuel - MinFuel >= ((Q * rem[1]) \div rem[2]) * burn
<1> DEFINE rem == remainingLapsMax(race, e)
<1>1. /\ rem[1] \in Int /\ rem[2] \in Nat \ {0} /\ rem[1] > 0
      /\ rem # None => (Q * rem[1]) \div rem[2] \in Nat
  BY Published
<1> HIDE DEF rem
<1>2. rem # None
  BY <1>1 DEF None
<1>3. /\ Q \in Nat \ {0} /\ Burns \subseteq Nat \ {0} /\ Burns # {} /\ fuel \in Nat
  <2>1. Tank \in Nat
    BY RaceAssumption
  <2>2. QED
    BY <2>1, RaceAssumption, SMTT(30) DEF BaseInv, TypeOK
<1>4. \A burn \in Burns : 4 * Q * burn <= e.fuel
  BY <1>3 DEF Sound
<1>5. ~Over(rem, lapsOfFuel(e))
  BY DEF isEnoughFuel, rem
<1>6. e.fuel > 0 /\ fuel > MinFuel
  <2>1. CASE ~(e.fuel > 0 /\ fuel > MinFuel)
    <3>1. lapsOfFuel(e) = << 0, 1 >>
      BY <2>1 DEF lapsOfFuel
    <3>2. ~(rem[1] * 1 > 0 * rem[2])
      BY <3>1, <1>5 DEF Over
    <3>3. QED
      BY <3>2, <1>1
  <2>2. QED
    BY <2>1
<1>7. lapsOfFuel(e) = << 4 * (fuel - MinFuel), e.fuel >>
  BY <1>6 DEF lapsOfFuel
<1> DEFINE left == fuel - MinFuel
<1>8. left \in Nat
  BY <1>3, <1>6 DEF MinFuel
<1>9. rem[1] * e.fuel <= 4 * left * rem[2]
  <2>1. ~(rem[1] * e.fuel > (4 * left) * rem[2])
    BY <1>5, <1>7 DEF Over
  <2> HIDE DEF left
  <2>2. QED
    BY <2>1, <1>1, <1>8
<1> HIDE DEF left
<1>10. ASSUME NEW burn \in Burns
       PROVE  ((Q * rem[1]) \div rem[2]) * burn <= left
  <2>1. burn \in Nat /\ rem[1] \in Nat
    BY <1>1, <1>3
  <2>2. QED
    BY <2>1, <1>1, <1>3, <1>4, <1>8, <1>9, StepsOfLaps
<1>11. \A burn \in Burns : ((Q * rem[1]) \div rem[2]) * burn \in Int
  BY <1>1, <1>2, <1>3
<1>12. \A burn \in Burns : left >= ((Q * rem[1]) \div rem[2]) * burn
  BY <1>8, <1>10, <1>11
<1>13. QED
  BY <1>1, <1>2, <1>12 DEF rem, left

\* Who has been told that the fuel is enough drives it off no faster than the way to
\* the limit gets shorter.
LEMMA EnoughStep ==
  ASSUME BaseInv, LimitInv, EnoughInv, [Next]_vars, BaseInv', LimitInv'
  PROVE  EnoughInv'
<1>1. /\ Burns \subseteq Nat \ {0} /\ Burns # {}
      /\ pos \in Nat /\ limit \in Nat /\ fuel \in Nat
      /\ MinFuel \in Nat /\ Q \in Nat \ {0}
  <2>1. Tank \in Nat /\ MaxTime \in Nat /\ NoLimit \in Nat
    BY RaceAssumption DEF NoLimit
  <2>2. pos \in 0 .. MaxTime /\ limit \in 0 .. NoLimit /\ fuel \in 0 .. Tank
    BY DEF BaseInv, TypeOK
  <2>3. pos \in Nat /\ limit \in Nat /\ fuel \in Nat
    BY <2>1, <2>2
  <2>4. MinFuel \in Nat
    BY DEF MinFuel
  <2>5. QED
    BY <2>3, <2>4, RaceAssumption
<1>2. CASE Drive
  <2>1. PICK spent \in Burns : fuel >= spent /\ fuel' = fuel - spent
    BY <1>2 DEF Drive
  <2>2. pos' = pos + 1 /\ UNCHANGED << limit, enough >>
    BY <1>2 DEF Drive, told
  <2>3. pos + 1 <= limit
    <3>1. pos' <= limit'
      <4>1. BaseInv /\ LimitInv => pos <= limit
        BY LimitSuffices
      <4>2. (BaseInv /\ LimitInv => pos <= limit)'
        BY LimitSuffices, PTL
      <4>3. QED
        BY <4>2
    <3>2. QED
      BY <3>1, <2>2
  <2>4. ASSUME enough, NEW burn \in Burns
        PROVE  fuel - spent - MinFuel >= (limit - (pos + 1)) * burn
    <3> DEFINE steps == limit - (pos + 1)
               most  == IF spent > burn THEN spent ELSE burn
    <3>1. steps \in Nat /\ limit - pos = steps + 1
      BY <2>3, <1>1
    <3>2. most \in Burns /\ most \in Nat /\ burn \in Nat /\ spent \in Nat
          /\ burn <= most /\ spent <= most
      BY <1>1
    <3> HIDE DEF steps, most
    <3>3. fuel - MinFuel >= (steps + 1) * most
      BY <2>4, <3>1, <3>2 DEF EnoughInv
    <3>4. (steps + 1) * most = steps * most + most /\ steps * most >= steps * burn
          /\ steps * most \in Nat /\ steps * burn \in Nat
      BY <3>1, <3>2
    <3>5. fuel - spent - MinFuel >= steps * burn
      BY <3>2, <3>3, <3>4, <1>1
    <3>6. QED
      BY <3>5 DEF steps
  <2>5. QED
    BY <2>1, <2>2, <2>4 DEF EnoughInv, MinFuel
<1>3. CASE UNCHANGED << limit, enough, fuel, pos >>
  BY <1>3 DEF EnoughInv, MinFuel
<1>4. CASE enough' = FALSE
  BY <1>4 DEF EnoughInv
<1>5. CASE Publish
  <2> DEFINE rem     == remainingLapsMax(race, est')
             go      == (Q * rem[1]) \div rem[2]
             promise == pos + go + (IF useDriverLaps THEN 0 ELSE Q)
             holds   == LeaderRaces /\ (race.time > 0 => Sound(est'))
  <2>1. /\ est'.time \in Nat /\ est'.fuel \in 0 .. 4 * Tank /\ UNCHANGED car
        /\ limit' = IF rem # None /\ holds THEN Least(limit, promise) ELSE limit
        /\ enough' = (enough \/ (/\ isEnoughFuel(rem, est') /\ fuelRequired(rem, est') # None
                                 /\ holds /\ Sound(est') /\ useDriverLaps))
    BY <1>5, PublishFacts
  <2>2. est'.fuel \in Nat
    <3>1. 4 * Tank \in Nat
      BY RaceAssumption
    <3>2. QED
      BY <3>1, <2>1
  <2>3. fuel' = fuel /\ pos' = pos
    BY <2>1 DEF car
  <2>4. rem # None => promise \in Nat
    <3>1. rem # None => go \in Nat
      BY <2>1, <2>2, Published
    <3> HIDE DEF rem, go
    <3>2. QED
      BY <3>1, <1>1
  <2>5. limit' \in Nat /\ limit' <= limit
    <3> HIDE DEF rem, promise
    <3>1. QED
      BY <2>1, <2>4, <1>1 DEF Least
  <2>6. \A x, y, z \in Int : \A u \in Nat : x <= y /\ y * u <= z => x * u <= z
    <3>1. SUFFICES ASSUME NEW x \in Int, NEW y \in Int, NEW z \in Int, NEW u \in Nat,
                          x <= y, y * u <= z
                   PROVE  x * u <= z
      OBVIOUS
    <3>2. x * u <= y * u /\ x * u \in Int /\ y * u \in Int
      BY <3>1
    <3>3. QED
      BY <3>1, <3>2
  <2>7. CASE enough
    <3>1. ASSUME NEW burn \in Burns
          PROVE  (limit' - pos) * burn <= fuel - MinFuel
      <4>1. (limit - pos) * burn <= fuel - MinFuel
        <5>1. fuel - MinFuel >= (limit - pos) * burn
          BY <2>7 DEF EnoughInv
        <5>2. (limit - pos) * burn \in Int
          BY <1>1
        <5>3. QED
          BY <5>1, <5>2, <1>1
      <4>2. limit' - pos \in Int /\ limit - pos \in Int /\ limit' - pos <= limit - pos
        <5>1. \A x, y, z \in Nat : x <= y =>
                 x - z \in Int /\ y - z \in Int /\ x - z <= y - z
          OBVIOUS
        <5>2. limit' \in Nat /\ limit \in Nat /\ pos \in Nat /\ limit' <= limit
          BY <2>5, <1>1
        <5>3. QED
          BY <5>1, <5>2
      <4>4. fuel - MinFuel \in Int /\ burn \in Nat
        BY <1>1
      <4>3. QED
        BY <4>1, <4>2, <4>4, <2>6
    <3>2. \A burn \in Burns : (limit' - pos) * burn \in Int
      BY <2>5, <1>1
    <3>3. \A burn \in Burns : fuel - MinFuel >= (limit' - pos) * burn
      BY <3>1, <3>2, <1>1
    <3>4. QED
      BY <3>3, <2>3 DEF EnoughInv, MinFuel
  <2>8. CASE ~enough /\ enough'
    <3>1. /\ isEnoughFuel(rem, est') /\ fuelRequired(rem, est') # None
          /\ holds /\ Sound(est') /\ useDriverLaps
      BY <2>1, <2>8
    <3>2. /\ rem # None /\ go \in Nat
          /\ \A burn \in Burns : fuel - MinFuel >= go * burn
      BY <3>1, <2>1, <2>2, FuelLasts
    <3>3. limit' = Least(limit, promise)
      BY <2>1, <3>1, <3>2
    <3>4. promise = pos + go + 0
      BY <3>1
    <3> HIDE DEF rem, go, promise
    <3>5. limit' - pos <= go
      BY <3>2, <3>3, <3>4, <1>1 DEF Least
    <3>6. ASSUME NEW burn \in Burns
          PROVE  (limit' - pos) * burn <= fuel - MinFuel
      <4>1. limit' - pos \in Int /\ go \in Int /\ fuel - MinFuel \in Int /\ burn \in Nat
        BY <2>5, <3>2, <1>1
      <4>2. go * burn <= fuel - MinFuel
        <5>1. go * burn \in Int
          BY <4>1
        <5>2. QED
          BY <5>1, <3>2, <4>1
      <4>3. QED
        BY <3>5, <4>1, <4>2, <2>6
    <3>7. \A burn \in Burns : (limit' - pos) * burn \in Int
      BY <2>5, <1>1
    <3>8. \A burn \in Burns : fuel - MinFuel >= (limit' - pos) * burn
      BY <3>6, <3>7, <1>1
    <3>9. QED
      BY <3>8, <2>3 DEF EnoughInv, MinFuel
  <2>9. CASE ~enough'
    BY <2>9 DEF EnoughInv
  <2>10. QED
    BY <2>7, <2>8, <2>9
<1>6. QED
  BY <1>2, <1>3, <1>4, <1>5 DEF Next, LoseTime, Finish, NextSession, Grid, Refuel,
     ApplyAndStop, FillUp, Splash, vars, car, told

\* Nothing has been promised at first.
LEMMA PlanInit == Init => LimitInv /\ EnoughInv
BY DEF Init, LimitInv, EnoughInv

\* The driver who believes what is displayed runs out neither of laps nor of fuel.
THEOREM PlanHolds == Spec => []PlanSuffices
<1> DEFINE Inv == BaseInv /\ LimitInv /\ EnoughInv
<1>1. Init => Inv
  BY BaseInit, PlanInit
<1>2. Inv /\ [Next]_vars => Inv'
  <2> SUFFICES ASSUME Inv, [Next]_vars
               PROVE  Inv'
    OBVIOUS
  <2>1. BaseInv'
    BY BaseStep
  <2>2. LimitInv'
    BY LimitStep
  <2>3. EnoughInv'
    BY <2>1, <2>2, EnoughStep
  <2>4. QED
    BY <2>1, <2>2, <2>3
<1>3. Inv => PlanSuffices
  <2> SUFFICES ASSUME BaseInv, LimitInv, EnoughInv
               PROVE  PlanSuffices
    OBVIOUS
  <2>1. TypeOK
    BY DEF BaseInv
  <2>2. pos <= limit
    BY LimitSuffices
  <2>3. enough => fuel >= MinFuel
    <3>1. SUFFICES ASSUME enough
                   PROVE  fuel >= MinFuel
      OBVIOUS
    <3>2. PICK burn \in Burns : TRUE
      BY RaceAssumption
    <3>3. fuel - MinFuel >= (limit - pos) * burn
      BY <3>1 DEF EnoughInv
    <3>4. /\ burn \in Nat /\ pos \in 0 .. MaxTime /\ limit \in 0 .. NoLimit /\ fuel \in 0 .. Tank
      BY RaceAssumption DEF BaseInv, TypeOK
    <3>5. MaxTime \in Nat /\ NoLimit \in Nat /\ Tank \in Nat /\ MinFuel \in Nat
      BY RaceAssumption DEF NoLimit, MinFuel
    <3>6. limit - pos \in Nat /\ fuel \in Nat
      BY <2>2, <3>4, <3>5
    <3>7. (limit - pos) * burn \in Nat
      BY <3>4, <3>6
    <3>8. QED
      BY <3>3, <3>5, <3>6, <3>7
  <2>4. QED
    BY <2>1, <2>2, <2>3 DEF PlanSuffices, LapsSuffice, EnoughIsEnough
<1>4. QED
  BY <1>1, <1>2, <1>3, PTL DEF Spec

-------------------------------------------------------------------------------

\* A full tank is enough for the laps that remain: for those by the laps or for those by
\* the time, or for the 0 laps of a time without an estimate.
Covered(e) ==
  \/ race.laps = 0 /\ race.time = 0
  \/ race.time > 0 /\ e.time = 0
  \/ race.laps > 0 /\ RaceLapsRemain(race)[1] * e.fuel <= 4 * (Tank - MinFuel)
  \/ /\ race.time > 0 /\ e.time > 0
     /\ (4 * (race.time - clock) + 2 * e.time) * e.fuel <= 4 * (Tank - MinFuel) * e.time

\* The stop that was said to be the last still is.
NowInv ==
  now # NotSaid => now.time \in Nat /\ now.fuel \in Nat \ {0} /\ Covered(now)

\* Covered is what the page compares.
LEMMA CoveredFacts ==
  ASSUME BaseInv, NEW e, e.time \in Nat, e.fuel \in Nat \ {0}
  PROVE  ~Over(remainingLapsMax(race, e), lapsOfFuelFull(e)) <=> Covered(e)
<1> DEFINE full == 4 * (Tank - MinFuel)
           g    == e.fuel
           time == 4 * (race.time - clock) + 2 * e.time
           n    == IF time < 0 THEN 0 ELSE time
           l    == RaceLapsRemain(race)[1]
           byTime == RemainingByTime(race, e)
           byLaps == RaceLapsRemain(race)
           rem  == remainingLapsMax(race, e)
<1>1. full \in Nat /\ g \in Nat \ {0} /\ time \in Int /\ n \in Nat /\ e.time \in Nat
      /\ race.laps \in Nat /\ race.time \in Nat
  <2>1. Tank - MinFuel \in Nat
    BY RaceAssumption DEF MinFuel
  <2>2. race.laps \in Nat /\ race.time \in Nat /\ clock \in Nat
    BY RaceFacts DEF BaseInv, TypeOK
  <2>3. QED
    BY <2>1, <2>2
<1>2. lapsOfFuelFull(e) = << full, g >>
  BY DEF lapsOfFuelFull
<1>3. race.laps > 0 => l \in Nat /\ byLaps = << l, 1 >>
  BY LapsRemain
<1>4. byTime = IF race.time = 0 THEN << -1, 1 >>
               ELSE IF e.time = 0 THEN << 0, 1 >> ELSE << n, e.time >>
  BY DEF RemainingByTime, SessionTimeRemain, None, NoLapTime
<1>5. rem = IF race.laps > 0 /\ (byTime[1] < 0 \/ Over(byTime, byLaps)) THEN byLaps ELSE byTime
  BY DEF remainingLapsMax
<1>6. Covered(e) <=>
        \/ race.laps = 0 /\ race.time = 0
        \/ race.time > 0 /\ e.time = 0
        \/ race.laps > 0 /\ l * g <= full
        \/ race.time > 0 /\ e.time > 0 /\ time * g <= full * e.time
  BY DEF Covered
<1>7. time * g <= full * e.time <=> n * g <= full * e.time
  <2>1. CASE time < 0
    <3>1. time * g <= 0 /\ time * g \in Int /\ n * g = 0 /\ full * e.time \in Nat
      <4>1. \A x \in Int : \A y \in Nat : x < 0 => x * y <= 0 /\ x * y \in Int
        OBVIOUS
      <4>2. n = 0
        BY <2>1
      <4> HIDE DEF n, time, full
      <4>3. QED
        BY <4>1, <4>2, <2>1, <1>1
    <3> HIDE DEF n, time, full
    <3>2. QED
      BY <3>1
  <2>2. CASE ~(time < 0)
    BY <2>2
  <2>3. QED
    BY <2>1, <2>2
<1> HIDE DEF full, g, time, n, l, byTime, byLaps, rem
<1>8. CASE (race.laps = 0 /\ race.time = 0) \/ (race.time > 0 /\ e.time = 0)
  <2>1. rem \in {<< -1, 1 >>, << 0, 1 >>}
    <3>1. CASE race.laps = 0 /\ race.time = 0
      BY <3>1, <1>1, <1>4, <1>5
    <3>2. CASE race.time > 0 /\ e.time = 0
      <4>1. byTime = << 0, 1 >>
        BY <3>2, <1>1, <1>4
      <4>2. byTime[1] = 0 /\ byTime[2] = 1
        BY <4>1
      <4>3. race.laps > 0 => ~Over(byTime, byLaps)
        BY <4>2, <1>3 DEF Over
      <4>4. QED
        BY <4>1, <4>2, <4>3, <1>5
    <3>3. QED
      BY <3>1, <3>2, <1>8
  <2>2. rem[1] \in {-1, 0} /\ rem[2] = 1
    BY <2>1
  <2>3. ~Over(rem, << full, g >>)
    BY <2>2, <1>1 DEF Over
  <2>4. QED
    BY <2>3, <1>2, <1>6, <1>8 DEF rem
<1>9. CASE race.laps = 0 /\ ~(race.time = 0 \/ e.time = 0)
  <2>1. rem = << n, e.time >> /\ race.time > 0 /\ e.time > 0
    BY <1>1, <1>4, <1>5, <1>9
  <2>2. Over(rem, << full, g >>) <=> n * g > full * e.time
    BY <2>1 DEF Over
  <2>3. n * g \in Nat /\ full * e.time \in Nat
    BY <1>1
  <2>4. QED
    BY <2>1, <2>2, <2>3, <1>2, <1>6, <1>7, <1>9 DEF rem
<1>10. CASE race.laps > 0 /\ race.time = 0
  <2>1. rem = << l, 1 >>
    BY <1>3, <1>4, <1>5, <1>10
  <2>2. Over(rem, << full, g >>) <=> l * g > full * 1
    BY <2>1 DEF Over
  <2>3. l * g \in Nat
    BY <1>1, <1>3, <1>10
  <2>4. QED
    BY <2>1, <2>2, <2>3, <1>1, <1>2, <1>6, <1>10 DEF rem
<1>11. CASE race.laps > 0 /\ ~(race.time = 0 \/ e.time = 0)
  <2> DEFINE t == e.time
  <2>1. t \in Nat \ {0} /\ race.time > 0 /\ l \in Nat /\ byTime = << n, t >> /\ byLaps = << l, 1 >>
    BY <1>1, <1>3, <1>4, <1>11
  <2> HIDE DEF t
  <2>2. n * g \in Nat /\ l * g \in Nat /\ full * t \in Nat /\ l * t \in Nat /\ (l * g) * t \in Nat
    BY <2>1, <1>1
  <2>3. /\ l * g <= full => (l * g) * t <= full * t
        /\ (l * g) * t <= full * t => l * g <= full
    <3>1. \A x, y \in Nat : x <= y => x * t <= y * t
      BY <2>1
    <3>2. \A x, y \in Int : x * t <= y * t => x <= y
      BY <2>1, Cancelled
    <3>3. l * g \in Nat /\ full \in Nat /\ l * g \in Int /\ full \in Int
      BY <2>2, <1>1
    <3>4. QED
      BY <3>1, <3>2, <3>3
  <2>4. CASE n > l * t
    <3>1. byTime[1] >= 0 /\ Over(byTime, byLaps)
      BY <2>1, <2>2, <2>4, <1>1 DEF Over
    <3>2. rem = << l, 1 >>
      BY <3>1, <2>1, <1>5, <1>11
    <3>3. Over(rem, << full, g >>) <=> l * g > full * 1
      BY <3>2 DEF Over
    <3>4. n * g <= full * t => l * g <= full
      <4>1. SUFFICES ASSUME n * g <= full * t
                     PROVE  l * g <= full
        OBVIOUS
      <4>2. (l * t) * g <= n * g
        <5>1. \A x, y \in Nat : x <= y => x * g <= y * g
          BY <1>1
        <5>2. l * t <= n
          BY <2>2, <2>4, <1>1
        <5>3. QED
          BY <5>1, <5>2, <2>2, <1>1
      <4>3. (l * t) * g = (l * g) * t
        BY <2>1, <1>1
      <4>4. (l * g) * t <= full * t
        BY <4>1, <4>2, <4>3, <2>2
      <4>5. QED
        BY <4>4, <2>3
    <3>5. Covered(e) <=> l * g <= full
      BY <3>4, <2>1, <1>6, <1>7, <1>11 DEF t
    <3>6. QED
      BY <3>3, <3>5, <2>2, <1>1, <1>2 DEF rem
  <2>5. CASE ~(n > l * t)
    <3>1. ~(byTime[1] < 0) /\ ~Over(byTime, byLaps)
      BY <2>1, <2>2, <2>5, <1>1 DEF Over
    <3>2. rem = << n, t >>
      BY <3>1, <2>1, <1>5, <1>11
    <3>3. Over(rem, << full, g >>) <=> n * g > full * t
      BY <3>2 DEF Over
    <3>4. l * g <= full => n * g <= full * t
      <4>1. SUFFICES ASSUME l * g <= full
                     PROVE  n * g <= full * t
        OBVIOUS
      <4>2. n * g <= (l * t) * g
        <5>1. \A x, y \in Nat : x <= y => x * g <= y * g
          BY <1>1
        <5>2. n <= l * t
          BY <2>2, <2>5, <1>1
        <5>3. QED
          BY <5>1, <5>2, <2>2, <1>1
      <4>3. (l * t) * g = (l * g) * t
        BY <2>1, <1>1
      <4>4. (l * g) * t <= full * t
        BY <4>1, <2>3
      <4>5. QED
        BY <4>2, <4>3, <4>4, <2>2
    <3>5. Covered(e) <=> n * g <= full * t
      BY <3>4, <2>1, <1>6, <1>7, <1>11 DEF t
    <3>6. QED
      BY <3>3, <3>5, <2>2, <1>2 DEF rem
  <2>6. QED
    BY <2>4, <2>5
<1>12. race.time = 0 \/ (race.time > 0 /\ race.time # 0)
  BY <1>1
<1>13. race.laps = 0 \/ race.laps > 0
  BY <1>1
<1>14. CASE race.time = 0
  BY <1>8, <1>10, <1>13, <1>14
<1>15. CASE race.time > 0 /\ race.time # 0 /\ e.time = 0
  BY <1>8, <1>15
<1>16. CASE race.time > 0 /\ race.time # 0 /\ e.time # 0
  BY <1>9, <1>11, <1>13, <1>16
<1>17. QED
  BY <1>12, <1>14, <1>15, <1>16

\* The laps that remain never become more.
LEMMA LapsShrink ==
  ASSUME BaseInv, BaseInv', race.laps > 0,
         race' = race, useDriverLaps' = useDriverLaps, pos <= pos', clock <= clock'
  PROVE  RaceLapsRemain(race)[1]' <= RaceLapsRemain(race)[1]
<1> DEFINE n == RaceLapsRemain(race)[1]
<1>1. /\ n \in Nat
      /\ clock < Q * race.laps => Q * race.laps - clock <= Q * n
      /\ useDriverLaps => n = race.laps - (pos \div Q)
      /\ ~useDriverLaps => n = IF clock >= Q * race.laps THEN 0 ELSE race.laps - (clock \div Q)
  BY LapsRemain
<1>2. /\ Q \in Nat \ {0} /\ race.laps \in Nat
      /\ pos \in Nat /\ clock \in Nat /\ pos' \in Nat /\ clock' \in Nat
  <2>1. MaxTime \in Nat
    BY RaceAssumption
  <2>2. pos \in 0 .. MaxTime /\ clock \in 0 .. MaxTime
    BY DEF BaseInv, TypeOK
  <2>3. pos' \in 0 .. MaxTime /\ clock' \in 0 .. MaxTime
    BY DEF BaseInv, TypeOK
  <2>4. race.laps \in Nat
    BY RaceFacts DEF BaseInv, TypeOK
  <2>5. QED
    BY <2>1, <2>2, <2>3, <2>4, RaceAssumption
<1>3. pos \div Q <= pos' \div Q /\ clock \div Q <= clock' \div Q
  BY <1>2, QuotientsGrow
<1>4. /\ pos \div Q \in Nat /\ pos' \div Q \in Nat
      /\ clock \div Q \in Nat /\ clock' \div Q \in Nat
  BY <1>2, Divided
<1>5. /\ useDriverLaps => n' = race.laps - ((pos' \div Q) + 1) + 1
      /\ ~useDriverLaps => n' = IF clock' >= Q * race.laps THEN 0 ELSE race.laps - (clock' \div Q)
  BY DEF RaceLapsRemain, DriverLap, SessionLapsRemainEx
<1> HIDE DEF n
<1>6. CASE useDriverLaps
  <2>1. n = race.laps - (pos \div Q) /\ n' = race.laps - ((pos' \div Q) + 1) + 1
    BY <1>1, <1>5, <1>6
  <2>2. n' <= n
    BY <2>1, <1>2, <1>3, <1>4
  <2>3. QED
    BY <2>2 DEF n
<1>7. CASE ~useDriverLaps
  <2>1. /\ n = IF clock >= Q * race.laps THEN 0 ELSE race.laps - (clock \div Q)
        /\ n' = IF clock' >= Q * race.laps THEN 0 ELSE race.laps - (clock' \div Q)
    BY <1>1, <1>5, <1>7
  <2>2. Q * race.laps \in Nat
    BY <1>2
  <2>3. n' <= n
    BY <2>1, <2>2, <1>1, <1>2, <1>3, <1>4
  <2>4. QED
    BY <2>3 DEF n
<1>8. QED
  BY <1>6, <1>7

\* What is covered stays so while the session goes on.
LEMMA CoveredStep ==
  ASSUME BaseInv, BaseInv', now.time \in Nat, now.fuel \in Nat, Covered(now), now' = now,
         race' = race, useDriverLaps' = useDriverLaps, pos <= pos', clock <= clock'
  PROVE  Covered(now)'
<1>1. /\ clock \in Nat /\ clock' \in Nat /\ race.time \in Nat /\ Tank - MinFuel \in Nat
  <2>1. MaxTime \in Nat /\ Tank - MinFuel \in Nat
    BY RaceAssumption DEF MinFuel
  <2>2. clock \in 0 .. MaxTime /\ clock' \in 0 .. MaxTime
    BY DEF BaseInv, TypeOK
  <2>3. race.time \in Nat
    BY RaceFacts DEF BaseInv, TypeOK
  <2>4. QED
    BY <2>1, <2>2, <2>3
<1>2. CASE (race.laps = 0 /\ race.time = 0) \/ (race.time > 0 /\ now.time = 0)
  BY <1>2 DEF Covered
<1>3. CASE race.laps > 0 /\ RaceLapsRemain(race)[1] * now.fuel <= 4 * (Tank - MinFuel)
  <2> DEFINE m == RaceLapsRemain(race)[1]
  <2>1. m' <= m
    BY <1>3, LapsShrink
  <2>2. m \in Nat
    BY <1>3, LapsRemain
  <2>3. m' \in Nat
    <3>1. (BaseInv /\ race.laps > 0 => m \in Nat)'
      BY LapsRemain, PTL
    <3>2. race'.laps > 0
      BY <1>3
    <3>3. QED
      BY <3>1, <3>2
  <2> HIDE DEF m
  <2>4. m' * now.fuel <= m * now.fuel /\ m' * now.fuel \in Nat /\ m * now.fuel \in Nat
    BY <2>1, <2>2, <2>3
  <2>5. m' * now.fuel <= 4 * (Tank - MinFuel)
    <3>1. m * now.fuel <= 4 * (Tank - MinFuel)
      BY <1>3 DEF m
    <3>2. QED
      BY <2>4, <3>1, <1>1
  <2>6. race'.laps > 0 /\ m' * now'.fuel <= 4 * (Tank - MinFuel)
    BY <1>3, <2>5
  <2>7. QED
    BY <2>6 DEF Covered, MinFuel, m
<1>4. CASE /\ race.time > 0 /\ now.time > 0
           /\ (4 * (race.time - clock) + 2 * now.time) * now.fuel <= 4 * (Tank - MinFuel) * now.time
  <2> DEFINE a == 4 * (race.time - clock) + 2 * now.time
             b == 4 * (race.time - clock') + 2 * now.time
             c == 4 * (Tank - MinFuel) * now.time
  <2>1. a \in Int /\ b \in Int /\ b <= a /\ c \in Int /\ a * now.fuel <= c
    BY <1>1, <1>4
  <2> HIDE DEF a, b, c
  <2>2. b * now.fuel <= a * now.fuel /\ b * now.fuel \in Int /\ a * now.fuel \in Int
    BY <2>1
  <2>3. b * now.fuel <= c
    BY <2>1, <2>2
  <2>4. /\ race'.time > 0 /\ now'.time > 0
        /\ (4 * (race'.time - clock') + 2 * now'.time) * now'.fuel <= 4 * (Tank - MinFuel) * now'.time
    BY <1>4, <2>3 DEF b, c
  <2>5. QED
    BY <2>4 DEF Covered, MinFuel
<1>5. QED
  BY <1>2, <1>3, <1>4 DEF Covered

\* The history variable now keeps its promise.
LEMMA NowStep ==
  ASSUME BaseInv, BaseInv', NowInv, [Next]_vars
  PROVE  NowInv'
<1>1. pos \in Int /\ clock \in Int
  <2>1. MaxTime \in Nat
    BY RaceAssumption
  <2>2. pos \in 0 .. MaxTime /\ clock \in 0 .. MaxTime
    BY DEF BaseInv, TypeOK
  <2>3. QED
    BY <2>1, <2>2
<1>2. ASSUME UNCHANGED << race, useDriverLaps, now >>, pos <= pos', clock <= clock'
      PROVE  NowInv'
  <2>1. SUFFICES ASSUME now' # NotSaid'
                 PROVE  now'.time \in Nat /\ now'.fuel \in Nat \ {0} /\ Covered(now)'
    BY DEF NowInv
  <2>2. now # NotSaid
    BY <1>2, <2>1 DEF NotSaid
  <2>3. now.time \in Nat /\ now.fuel \in Nat \ {0} /\ Covered(now)
    BY <2>2 DEF NowInv
  <2>4. Covered(now)'
    BY <1>2, <2>3, CoveredStep
  <2>5. QED
    BY <1>2, <2>3, <2>4
<1>3. CASE Drive \/ LoseTime
  <2>1. UNCHANGED << race, useDriverLaps, now >> /\ clock' = clock + 1
        /\ (pos' = pos \/ pos' = pos + 1)
    BY <1>3 DEF Drive, LoseTime, loop, told
  <2>2. pos <= pos' /\ clock <= clock'
    BY <2>1, <1>1
  <2>3. QED
    BY <2>1, <2>2, <1>2
<1>4. CASE Finish \/ UNCHANGED vars
  <2>1. UNCHANGED << race, useDriverLaps, now, pos, clock >>
    BY <1>4 DEF Finish, loop, told, vars, car
  <2>2. QED
    BY <2>1, <1>1, <1>2
<1>5. CASE now' = NotSaid
  BY <1>5 DEF NowInv, NotSaid
<1>6. CASE Publish
  <2> DEFINE rem == remainingLapsMax(race, est')
  <2>1. /\ est'.time \in Nat /\ est'.fuel \in 0 .. 4 * Tank /\ UNCHANGED << car, useDriverLaps >>
        /\ now' = IF optionalPit(rem, est') = 0 THEN est' ELSE now
    BY <1>6, PublishFacts
  <2>2. UNCHANGED << race, pos, clock >>
    BY <2>1 DEF car
  <2>3. CASE optionalPit(rem, est') = 0
    <3>1. est'.fuel \in Nat
      <4>1. 4 * Tank \in Nat
        BY RaceAssumption
      <4>2. QED
        BY <4>1, <2>1
    <3>2. est'.fuel > 0 /\ ~Over(rem, lapsOfFuelFull(est'))
      BY <2>1, <2>3, <3>1, Published
    <3>3. est'.fuel \in Nat \ {0}
      BY <3>1, <3>2
    <3>4. Covered(est')
      BY <2>1, <3>2, <3>3, CoveredFacts
    <3>5. now' = est'
      BY <2>1, <2>3
    <3>6. Covered(now)'
      BY <2>1, <2>2, <3>4, <3>5 DEF Covered, RaceLapsRemain, DriverLap, SessionLapsRemainEx, MinFuel
    <3>7. QED
      BY <2>1, <3>3, <3>5, <3>6 DEF NowInv
  <2>4. CASE optionalPit(rem, est') # 0
    <3>1. now' = now
      BY <2>1, <2>4
    <3>2. QED
      BY <2>1, <2>2, <3>1, <1>1, <1>2
  <2>5. QED
    BY <2>3, <2>4
<1>7. QED
  BY <1>3, <1>4, <1>5, <1>6 DEF Next, NextSession, Grid, Refuel, ApplyAndStop, FillUp, Splash

\* A stop that was said to be the last one is, also if it is made later.
THEOREM LastStop == Spec => PitNowIsLast
<1> DEFINE Inv == BaseInv /\ NowInv
<1>1. Init => Inv
  BY BaseInit DEF Init, NowInv
<1>2. Inv /\ [Next]_vars => Inv'
  BY BaseStep, NowStep
<1>3. Inv => (FillUp /\ now = est => ~Over(pub.remaining, << 4 * (fuel' - MinFuel), est.fuel >>))
  <2> SUFFICES ASSUME BaseInv, NowInv, FillUp, now = est
               PROVE  ~Over(pub.remaining, << 4 * (fuel' - MinFuel), est.fuel >>)
    OBVIOUS
  <2>1. /\ ~due /\ (pub.pit >= 0 \/ now # NotSaid) /\ fuel' = Least(Tank, fuel + Tank)
    BY DEF FillUp, Refuel
  <2>2. now # NotSaid
    <3>1. pub.pit >= 0 => est.fuel > 0
      BY DEF BaseInv, SessionInv
    <3>2. NotSaid.fuel = 0
      BY DEF NotSaid
    <3>3. QED
      BY <2>1, <3>1, <3>2
  <2>3. est.time \in Nat /\ est.fuel \in Nat \ {0} /\ Covered(est)
    BY <2>2 DEF NowInv
  <2>4. ~Over(remainingLapsMax(race, est), lapsOfFuelFull(est))
    BY <2>3, CoveredFacts
  <2>5. pub.remaining = remainingLapsMax(race, est)
    BY <2>1 DEF BaseInv, SessionInv
  <2>6. fuel' = Tank
    <3>1. Tank \in Nat /\ fuel \in 0 .. Tank
      BY RaceAssumption DEF BaseInv, TypeOK
    <3>2. QED
      BY <2>1, <3>1 DEF Least
  <2>7. lapsOfFuelFull(est) = << 4 * (fuel' - MinFuel), est.fuel >>
    BY <2>6 DEF lapsOfFuelFull
  <2>8. QED
    BY <2>4, <2>5, <2>7
<1>4. Inv /\ [Next]_vars =>
        [FillUp /\ now = est => ~Over(pub.remaining, << 4 * (fuel' - MinFuel), est.fuel >>)]_vars
  BY <1>3
<1>5. QED
  BY <1>1, <1>2, <1>4, PTL DEF Spec, PitNowIsLast

\* The stop that the page asks for brings what is required, to half a litre, or fills
\* the tank.
THEOREM StopBringsEnough == Spec => StopIsEnough
<1>1. BaseInv => (ApplyAndStop => fuel' = Tank \/ (fuel' + 5) * pub.required[2] >= pub.required[1])
  <2> SUFFICES ASSUME BaseInv, ApplyAndStop, fuel' # Tank
               PROVE  (fuel' + 5) * pub.required[2] >= pub.required[1]
    OBVIOUS
  <2> DEFINE r == pub.required[1]
             d == pub.required[2]
             f == factor[1]
             u == factor[2]
             n == (r - fuel * d) * f
             whole == n \div (d * 10 * u)
             x == fuelToAdd
             litres == fuelToAddInLitres(x)
  <2>1. /\ r \in Int /\ d \in Nat \ {0} /\ fuel \in Nat
        /\ f \in Nat \ {0} /\ u \in Nat \ {0} /\ Tank \in Nat
    <3>1. pub.required \in Int \X (Nat \ {0})
      BY DEF BaseInv, SessionInv
    <3>2. factor \in Factors /\ fuel \in 0 .. Tank
      BY DEF BaseInv, TypeOK
    <3>3. factor \in (Nat \ {0}) \X (Nat \ {0}) /\ Tank \in Nat
      BY <3>2, RaceAssumption
    <3>4. QED
      BY <3>1, <3>2, <3>3
  <2>2. x > 0 /\ x = IF n > 0 THEN whole + 1 ELSE 0
    BY DEF ApplyAndStop, fuelToAdd
  <2>3. fuel' = fuel + 10 * litres
    <3>1. fuel' = Least(Tank, fuel + 10 * litres)
      BY DEF ApplyAndStop, Refuel
    <3>2. QED
      BY <3>1 DEF Least
  <2>4. x \in Nat /\ litres \in Nat
    BY StopAmount
  <2>5. litres = (2 * x * u + f) \div (2 * f)
    BY DEF fuelToAddInLitres
  <2> HIDE DEF r, d, f, u, x, litres
  <2>6. n > 0 /\ n \in Nat
    <3>1. n \in Int
      BY <2>1
    <3> HIDE DEF n, whole
    <3>2. QED
      BY <2>2, <3>1
  <2>7. x = whole + 1
    BY <2>2, <2>6
  <2>8. n < (d * 10 * u) * x
    <3> DEFINE z == d * 10 * u
    <3>1. z \in Nat \ {0}
      BY <2>1
    <3> HIDE DEF z, n
    <3>2. n \div z \in Nat /\ n % z \in 0 .. z - 1 /\ n = z * (n \div z) + (n % z)
      BY <3>1, <2>6, Divided
    <3>3. x = (n \div z) + 1
      BY <2>7 DEF z
    <3>4. z * x = z * (n \div z) + z
      BY <3>1, <3>2, <3>3
    <3>5. n < z * x
      <4>1. z * (n \div z) \in Nat
        BY <3>1, <3>2
      <4>2. QED
        BY <4>1, <3>1, <3>2, <3>4
    <3>6. QED
      BY <3>5 DEF z
  <2>9. 2 * x * u < (2 * f) * litres + f
    <3> DEFINE y == 2 * x * u + f
               z == 2 * f
    <3>1. y \in Nat /\ z \in Nat \ {0}
      BY <2>1, <2>4
    <3> HIDE DEF y, z
    <3>2. y % z \in 0 .. z - 1 /\ y = z * litres + (y % z)
      BY <3>1, <2>5, Divided DEF y, z
    <3>3. y < z * litres + z
      <4>1. z * litres \in Nat
        BY <3>1, <2>4
      <4>2. QED
        BY <4>1, <3>1, <3>2
    <3>4. (2 * f) * litres \in Nat /\ 2 * x * u \in Nat
      BY <2>1, <2>4
    <3>5. QED
      BY <3>3, <3>4, <2>1 DEF y, z
  <2> HIDE DEF n, whole
  <2>10. 2 * n < (20 * litres + 10) * d * f
    <3>1. 2 * n < (10 * d) * (2 * x * u)
      <4>1. (10 * d) * (2 * x * u) = 2 * ((d * 10 * u) * x)
        BY <2>1, <2>4
      <4>2. (d * 10 * u) * x \in Nat
        BY <2>1, <2>4
      <4>3. QED
        BY <4>1, <4>2, <2>6, <2>8
    <3>2. (10 * d) * (2 * x * u) <= (10 * d) * ((2 * f) * litres + f)
      <4>1. \A a, b, c \in Nat : a < b => c * a <= c * b
        OBVIOUS
      <4>2. 10 * d \in Nat /\ 2 * x * u \in Nat /\ (2 * f) * litres + f \in Nat
        BY <2>1, <2>4
      <4>3. QED
        BY <4>1, <4>2, <2>9
    <3>3. (10 * d) * ((2 * f) * litres + f) = (20 * litres + 10) * d * f
      BY <2>1, <2>4
    <3>4. /\ (10 * d) * (2 * x * u) \in Nat /\ (20 * litres + 10) * d * f \in Nat
      BY <2>1, <2>4
    <3>5. QED
      BY <3>1, <3>2, <3>3, <3>4, <2>6
  <2>11. (2 * (r - fuel * d)) * f < ((20 * litres + 10) * d) * f
    <3>1. 2 * n = (2 * (r - fuel * d)) * f
      BY <2>1 DEF n
    <3>2. QED
      BY <2>10, <3>1
  <2>12. 2 * (r - fuel * d) < (20 * litres + 10) * d
    <3>1. 2 * (r - fuel * d) \in Int /\ (20 * litres + 10) * d \in Int
      BY <2>1, <2>4
    <3>2. QED
      BY <3>1, <2>1, <2>11, CancelledLess
  <2>13. (20 * litres + 10) * d = 2 * ((10 * litres + 5) * d)
    BY <2>1, <2>4
  <2>14. (fuel + 10 * litres + 5) * d = fuel * d + (10 * litres + 5) * d
    BY <2>1, <2>4
  <2>15. fuel * d \in Int /\ (10 * litres + 5) * d \in Int
    BY <2>1, <2>4
  <2>16. (fuel + 10 * litres + 5) * d >= r
    <3> DEFINE v == fuel * d
               w == (10 * litres + 5) * d
    <3>1. v \in Int /\ w \in Int /\ 2 * (r - v) < 2 * w
      BY <2>12, <2>13, <2>15
    <3>2. v + w >= r
      <4> HIDE DEF v, w
      <4>1. QED
        BY <3>1, <2>1
    <3>3. QED
      BY <3>2, <2>14
  <2>17. QED
    BY <2>3, <2>16 DEF r, d
<1>2. BaseInv /\ [Next]_vars =>
        [ApplyAndStop => fuel' = Tank \/ (fuel' + 5) * pub.required[2] >= pub.required[1]]_vars
  BY <1>1
<1>3. QED
  BY <1>2, Base, PTL DEF Spec, StopIsEnough

===============================================================================
