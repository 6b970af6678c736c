-------------------------- MODULE NetworkSpaceProofs --------------------------
(***************************************************************************)
(* What the route generator of NetworkSpace does, proved for addresses of   *)
(* every length and for any number of networks: its types, that what is     *)
(* done overlaps with nothing else, that no assertion fails before a half   *)
(* was queued beside an equal network of the other type, and that the lists *)
(* say of every address what the input says of it.                          *)
(***************************************************************************)
EXTENDS NetworkSpace, TLAPS, FiniteSetTheorems, WellFoundedInduction

-----------------------------------------------------------------------------
(* Induction over the naturals, in the form of a set.                       *)

\* A set of naturals has a least member.
LEMMA LeastMember ==
    ASSUME NEW T \in SUBSET Nat, T # {}
    PROVE  \E x \in T : \A y \in T : x <= y
<1>. DEFINE R == {ss \in Nat \X Nat : ss[1] < ss[2]}
<1>1. IsWellFoundedOn(R, Nat)
  BY NatLessThanWellFounded DEF OpToRel
<1>. HIDE DEF R
<1>2. \E x \in T : \A y \in T : ~ (<<y, x>> \in R)
  BY <1>1, WFMin
<1>3. \E x \in T : \A y \in T : ~(y < x)
  BY <1>2 DEF R
<1>. QED
  BY <1>3

\* A set with 0 and the successor of each of its naturals has every natural.
LEMMA EveryNatural ==
    ASSUME NEW T, 0 \in T, \A n \in Nat : n \in T => n + 1 \in T
    PROVE  \A n \in Nat : n \in T
<1>1. SUFFICES ASSUME Nat \ T # {} PROVE FALSE
  OBVIOUS
<1>2. PICK x \in Nat \ T : \A y \in Nat \ T : x <= y
  BY <1>1, LeastMember
<1>3. x # 0
  BY <1>2
<1>4. x - 1 \in Nat /\ x - 1 \notin Nat \ T
  BY <1>2, <1>3
<1>. QED
  BY <1>2, <1>4

-----------------------------------------------------------------------------
(* Powers of two.                                                           *)

\* The beginning of a table of the powers of two
Table(n, g) ==
    /\ g \in [0..n -> Nat]
    /\ g[0] = 1
    /\ \A i \in 1..n : g[i] = 2 * g[i - 1]

LEMMA TablesExist == \A n \in Nat : \E g : Table(n, g)
<1>. DEFINE T == {n \in Nat : \E g : Table(n, g)}
<1>1. 0 \in T
  <2>1. Table(0, [i \in 0..0 |-> 1])
    BY DEF Table
  <2>. QED
    BY <2>1
<1>2. ASSUME NEW n \in Nat, n \in T
      PROVE  n + 1 \in T
  <2>1. PICK g : Table(n, g)
    BY <1>2
  <2>. DEFINE h == [i \in 0..(n + 1) |-> IF i <= n THEN g[i] ELSE 2 * g[n]]
  <2>2. g[n] \in Nat
    BY <2>1 DEF Table
  <2>3. h \in [0..(n + 1) -> Nat]
    BY <2>1, <2>2 DEF Table
  <2>4. h[0] = 1
    BY <2>1 DEF Table
  <2>5. ASSUME NEW i \in 1..(n + 1) PROVE h[i] = 2 * h[i - 1]
    <3>1. CASE i <= n
      BY <3>1, <2>1 DEF Table
    <3>2. CASE i = n + 1
      BY <3>2
    <3>. QED
      BY <3>1, <3>2
  <2>6. Table(n + 1, h)
    BY <2>3, <2>4, <2>5 DEF Table
  <2>. QED
    BY <2>6
<1>. HIDE DEF T
<1>3. \A n \in Nat : n \in T
  BY <1>1, <1>2, EveryNatural
<1>. QED
  BY <1>3 DEF T

LEMMA TablesAgree ==
    ASSUME NEW n \in Nat, NEW m \in Nat, NEW g, NEW h,
           Table(n, g), Table(m, h)
    PROVE  \A i \in Nat : i <= n /\ i <= m => g[i] = h[i]
<1>. DEFINE T == {i \in Nat : i <= n /\ i <= m => g[i] = h[i]}
<1>1. 0 \in T
  BY DEF Table
<1>2. ASSUME NEW i \in Nat, i \in T
      PROVE  i + 1 \in T
  <2>1. SUFFICES ASSUME i + 1 <= n, i + 1 <= m
                 PROVE  g[i + 1] = h[i + 1]
    OBVIOUS
  <2>2. g[i] = h[i]
    BY <1>2, <2>1
  <2>3. i + 1 \in 1..n /\ i + 1 \in 1..m /\ (i + 1) - 1 = i
    BY <2>1
  <2>. QED
    BY <2>2, <2>3 DEF Table
<1>. HIDE DEF T
<1>3. \A i \in Nat : i \in T
  BY <1>1, <1>2, EveryNatural
<1>. QED
  BY <1>3 DEF T

\* The recursive definition defines the powers of two.
LEMMA Pow2Rule ==
    \A n \in Nat : Pow2[n] = IF n = 0 THEN 1 ELSE 2 * Pow2[n - 1]
<1>. DEFINE Of(n) == CHOOSE g : Table(n, g)
            f == [n \in Nat |-> Of(n)[n]]
<1>1. \A n \in Nat : Table(n, Of(n))
  BY TablesExist
<1>. HIDE DEF Of
<1>2. ASSUME NEW n \in Nat
      PROVE  f[n] = IF n = 0 THEN 1 ELSE 2 * f[n - 1]
  <2>1. Table(n, Of(n))
    BY <1>1
  <2>2. CASE n = 0
    BY <2>1, <2>2 DEF Table
  <2>3. CASE n # 0
    <3>1. n - 1 \in Nat /\ n \in 1..n /\ n - 1 <= n
      BY <2>3
    <3>2. Of(n)[n] = 2 * Of(n)[n - 1]
      BY <2>1, <3>1 DEF Table
    <3>3. Table(n - 1, Of(n - 1))
      BY <1>1, <3>1
    <3>4. Of(n)[n - 1] = Of(n - 1)[n - 1]
      BY <2>1, <3>1, <3>3, TablesAgree
    <3>. QED
      BY <2>3, <3>1, <3>2, <3>4
  <2>. QED
    BY <2>2, <2>3
<1>3. f = [n \in Nat |-> IF n = 0 THEN 1 ELSE 2 * f[n - 1]]
  BY <1>2
<1>. HIDE DEF f
<1>4. \E F : F = [n \in Nat |-> IF n = 0 THEN 1 ELSE 2 * F[n - 1]]
  BY <1>3
<1>5. Pow2 = [n \in Nat |-> IF n = 0 THEN 1 ELSE 2 * Pow2[n - 1]]
  BY <1>4 DEF Pow2
<1>. QED
  BY <1>5

\* A power of two is a positive number, and doubles with the next bit.
LEMMA Pow2Step ==
    /\ Pow2[0] = 1
    /\ \A n \in Nat : /\ Pow2[n] \in Nat
                      /\ Pow2[n] >= 1
                      /\ Pow2[n + 1] = 2 * Pow2[n]
<1>. DEFINE T == {n \in Nat : Pow2[n] \in Nat /\ Pow2[n] >= 1}
<1>1. Pow2[0] = 1
  BY Pow2Rule
<1>2. ASSUME NEW n \in Nat PROVE Pow2[n + 1] = 2 * Pow2[n]
  <2>1. n + 1 \in Nat /\ n + 1 # 0 /\ (n + 1) - 1 = n
    OBVIOUS
  <2>. QED
    BY <2>1, Pow2Rule
<1>3. 0 \in T
  BY <1>1
<1>4. \A n \in Nat : n \in T => n + 1 \in T
  BY <1>2
<1>. HIDE DEF T
<1>5. \A n \in Nat : n \in T
  BY <1>3, <1>4, EveryNatural
<1>. QED
  BY <1>1, <1>2, <1>5 DEF T

\* A larger power of two is a multiple of a smaller one, by more than one.
LEMMA Pow2Divides ==
    ASSUME NEW m \in Nat, NEW d \in Nat
    PROVE  \E j \in Nat : Pow2[m + d] = j * Pow2[m] /\ j >= 1 /\ (d > 0 => j >= 2)
<1>. DEFINE T == {e \in Nat : \E j \in Nat : /\ Pow2[m + e] = j * Pow2[m] /\ j >= 1
                                             /\ e > 0 => j >= 2}
<1>1. 0 \in T
  BY Pow2Step
<1>2. ASSUME NEW e \in Nat, e \in T PROVE e + 1 \in T
  <2>1. PICK j \in Nat : Pow2[m + e] = j * Pow2[m] /\ j >= 1
    BY <1>2
  <2>2. m + e \in Nat /\ m + (e + 1) = (m + e) + 1
    OBVIOUS
  <2>3. Pow2[m + (e + 1)] = 2 * Pow2[m + e]
    BY <2>2, Pow2Step
  <2>4. PICK p \in Nat : p = Pow2[m]
    BY Pow2Step
  <2>5. 2 * (j * p) = (2 * j) * p /\ 2 * j \in Nat /\ 2 * j >= 2
    BY <2>1
  <2>6. Pow2[m + (e + 1)] = (2 * j) * Pow2[m]
    BY <2>1, <2>3, <2>4, <2>5
  <2>. QED
    BY <2>5, <2>6
<1>. HIDE DEF T
<1>3. \A e \in Nat : e \in T
  BY <1>1, <1>2, EveryNatural
<1>. QED
  BY <1>3 DEF T

-----------------------------------------------------------------------------
(* Networks are the nodes of a binary tree: two that share an address lie   *)
(* one in the other.                                                        *)

\* A network that the program can make: its first address is a multiple of its
\* size.  split() of a single address makes two that are overlong.
Shaped ==
    {n \in Nets : n.mask <= BITS =>
        /\ \E q \in Nat : n.first = q * Pow2[BITS - n.mask]
        /\ Last(n) < Pow2[BITS]}

Proper(n) == n \in Shaped /\ n.mask <= BITS

Overlong(n) == n.mask = BITS + 1

Size(n) == Pow2[BITS - n.mask]

LEMMA ShapedTypes ==
    ASSUME NEW n \in Shaped
    PROVE  /\ n \in Nets /\ n.first \in Nat /\ n.mask \in Nat
           /\ n.included \in BOOLEAN
           /\ n.mask <= BITS + 1 /\ n.first <= Pow2[BITS]
           /\ Last(n) \in Int /\ n.first <= Last(n)
<1>1. BITS \in Nat /\ Pow2[BITS] \in Nat
  BY NetworkSpaceAssumption, Pow2Step
<1>2. n.first \in 0..Pow2[BITS] /\ n.mask \in 0..(BITS + 1) /\ n.included \in BOOLEAN
  BY DEF Shaped, Nets
<1>3. CASE n.mask < BITS
  <2>1. BITS - n.mask \in Nat
    BY <1>1, <1>2, <1>3
  <2>2. PICK p \in Nat : p = Pow2[BITS - n.mask] /\ p >= 1
    BY <2>1, Pow2Step
  <2>3. Last(n) = n.first + p - 1
    BY <2>2, <1>3 DEF Last
  <2>. QED
    BY <1>1, <1>2, <2>2, <2>3 DEF Shaped
<1>4. CASE ~(n.mask < BITS)
  BY <1>1, <1>2, <1>4 DEF Last, Shaped
<1>. QED
  BY <1>3, <1>4

LEMMA Dimensions ==
    ASSUME NEW n, Proper(n)
    PROVE  /\ n.first \in Nat /\ n.mask \in Nat /\ Size(n) \in Nat /\ Size(n) >= 1
           /\ Last(n) = n.first + Size(n) - 1
           /\ Last(n) \in Nat /\ Last(n) < Pow2[BITS]
           /\ \E q \in Nat : n.first = q * Size(n)
<1>1. BITS \in Nat /\ n \in Shaped /\ n.mask <= BITS
  BY NetworkSpaceAssumption DEF Proper
<1>2. n.first \in Nat /\ n.mask \in Nat
  BY <1>1, ShapedTypes
<1>3. BITS - n.mask \in Nat
  BY <1>1, <1>2
<1>4. PICK p \in Nat : p = Size(n) /\ p >= 1
  BY <1>3, Pow2Step DEF Size
<1>5. Last(n) = n.first + p - 1
  <2>1. CASE n.mask < BITS
    BY <1>4, <2>1 DEF Last, Size
  <2>2. CASE n.mask = BITS
    <3>1. BITS - n.mask = 0
      BY <1>1, <2>2
    <3>2. p = 1
      BY <1>4, <3>1, Pow2Step DEF Size
    <3>. QED
      BY <1>1, <1>2, <2>2, <3>2 DEF Last
  <2>. QED
    BY <1>1, <1>2, <2>1, <2>2
<1>6. Last(n) < Pow2[BITS] /\ \E q \in Nat : n.first = q * Size(n)
  BY <1>1 DEF Shaped, Size
<1>. QED
  BY <1>2, <1>4, <1>5, <1>6

LEMMA Cancel ==
    ASSUME NEW x \in Int, NEW y \in Int, NEW m \in Nat
    PROVE  /\ x * m < y * m => x < y
           /\ x <= y => x * m <= y * m
<1>1. ASSUME x <= y PROVE x * m <= y * m
  <2>1. PICK d \in Nat : y = x + d
    BY <1>1
  <2>2. y * m = x * m + d * m /\ d * m >= 0
    BY <2>1
  <2>3. x * m \in Int /\ y * m \in Int /\ d * m \in Int
    OBVIOUS
  <2>. QED
    BY <2>2, <2>3
<1>2. ASSUME y <= x PROVE y * m <= x * m
  <2>1. PICK d \in Nat : x = y + d
    BY <1>2
  <2>2. x * m = y * m + d * m /\ d * m >= 0
    BY <2>1
  <2>3. x * m \in Int /\ y * m \in Int /\ d * m \in Int
    OBVIOUS
  <2>. QED
    BY <2>2, <2>3
<1>. QED
  BY <1>1, <1>2

LEMMA LaminarNumbers ==
    ASSUME NEW m \in Nat, NEW j \in Nat, NEW s \in Nat, NEW t \in Nat, NEW a \in Int,
           s * m <= a, a <= s * m + m - 1,
           t * (j * m) <= a, a <= t * (j * m) + j * m - 1
    PROVE  t * (j * m) <= s * m /\ s * m + m - 1 <= t * (j * m) + j * m - 1
<1>1. PICK u \in Nat, v \in Nat, w \in Nat : u = t * j /\ v = u + j /\ w = s + 1
  OBVIOUS
<1>2. t * (j * m) = u * m
  BY <1>1
<1>3. v * m = u * m + j * m /\ w * m = s * m + m
  BY <1>1
<1>4. s * m \in Int /\ u * m \in Int /\ v * m \in Int /\ w * m \in Int /\ j * m \in Int
  OBVIOUS
<1>5. u * m < w * m /\ s * m < v * m
  BY <1>2, <1>3, <1>4
<1>6. u < w /\ s < v
  BY <1>5, Cancel
<1>7. u <= s /\ w <= v
  BY <1>1, <1>6
<1>8. u * m <= s * m /\ w * m <= v * m
  BY <1>7, Cancel
<1>. QED
  BY <1>2, <1>3, <1>4, <1>8

\* A network that shares an address with a larger one lies in it.
LEMMA Laminar ==
    ASSUME NEW n, NEW k, Proper(n), Proper(k), k.mask <= n.mask, NEW a \in Int,
           n.first <= a, a <= Last(n), k.first <= a, a <= Last(k)
    PROVE  k.first <= n.first /\ Last(n) <= Last(k)
<1>1. PICK m \in Nat, s \in Nat :
        m = Size(n) /\ n.first = s * m /\ Last(n) = n.first + m - 1
  BY Dimensions
<1>2. PICK p \in Nat, t \in Nat :
        p = Size(k) /\ k.first = t * p /\ Last(k) = k.first + p - 1
  BY Dimensions
<1>3. BITS \in Nat /\ n.mask \in Nat /\ k.mask \in Nat /\ n.mask <= BITS
  BY NetworkSpaceAssumption, Dimensions DEF Proper
<1>4. PICK e \in Nat, d \in Nat : e = BITS - n.mask /\ d = n.mask - k.mask
  BY <1>3
<1>5. BITS - k.mask = e + d
  BY <1>3, <1>4
<1>6. PICK j \in Nat : p = j * m
  BY <1>1, <1>2, <1>4, <1>5, Pow2Divides DEF Size
<1>7. s * m <= a /\ a <= s * m + m - 1
  BY <1>1
<1>8. t * (j * m) <= a /\ a <= t * (j * m) + j * m - 1
  BY <1>2, <1>6
<1>9. t * (j * m) <= s * m /\ s * m + m - 1 <= t * (j * m) + j * m - 1
  BY <1>7, <1>8, LaminarNumbers
<1>. QED
  BY <1>1, <1>2, <1>6, <1>9

\* Two of one size that share an address are one range.
LEMMA SharedRange ==
    ASSUME NEW n, NEW k, Proper(n), Proper(k), k.mask = n.mask, NEW a \in Int,
           n.first <= a, a <= Last(n), k.first <= a, a <= Last(k)
    PROVE  SameRange(n, k)
<1>1. n.first \in Nat /\ k.first \in Nat /\ n.mask \in Nat /\ k.mask \in Nat
  BY Dimensions
<1>2. k.first <= n.first /\ n.first <= k.first
  BY <1>1, Laminar
<1>. QED
  BY <1>1, <1>2 DEF SameRange

\* The larger of two powers of two is that of the larger exponent.
LEMMA Pow2Grows ==
    ASSUME NEW m \in Nat, NEW k \in Nat, m < k
    PROVE  Pow2[m] < Pow2[k]
<1>1. PICK d \in Nat : k = m + d /\ d > 0
  <2>1. k - m \in Nat /\ k = m + (k - m) /\ k - m > 0
    OBVIOUS
  <2>. QED
    BY <2>1
<1>2. PICK p \in Nat : p = Pow2[m] /\ p >= 1
  BY Pow2Step
<1>3. PICK j \in Nat : Pow2[k] = j * p /\ j >= 2
  BY <1>1, <1>2, Pow2Divides
<1>4. 2 * p <= j * p
  BY <1>3, Cancel
<1>5. j * p \in Nat
  OBVIOUS
<1>. QED
  BY <1>2, <1>3, <1>4, <1>5

\* Two networks with the same first and last address have the same mask.
LEMMA SameSpan ==
    ASSUME NEW n, NEW k, Proper(n), Proper(k), n.first = k.first, Last(n) = Last(k)
    PROVE  n.mask = k.mask
<1>1. BITS \in Nat /\ n.mask \in Nat /\ k.mask \in Nat /\ n.mask <= BITS /\ k.mask <= BITS
  BY NetworkSpaceAssumption, Dimensions DEF Proper
<1>2. Pow2[BITS - n.mask] = Pow2[BITS - k.mask]
  <2>1. PICK f \in Nat, m \in Nat :
          f = n.first /\ m = Size(n) /\ Last(n) = f + m - 1
    BY Dimensions
  <2>2. PICK p \in Nat : p = Size(k) /\ Last(k) = f + p - 1
    BY <2>1, Dimensions
  <2>3. f + m - 1 = f + p - 1
    BY <2>1, <2>2, Zenon
  <2>4. m = p
    BY <2>3
  <2>5. Size(n) = Size(k)
    BY <2>1, <2>2, <2>4, Zenon
  <2>. QED
    BY <2>5 DEF Size
<1>3. PICK x \in Nat, y \in Nat : x = BITS - n.mask /\ y = BITS - k.mask
  BY <1>1
<1>4. Pow2[x] \in Nat /\ Pow2[y] \in Nat
  BY Pow2Step
<1>5. ~(x < y) /\ ~(y < x)
  BY <1>2, <1>3, <1>4, Pow2Grows
<1>. QED
  BY <1>1, <1>3, <1>5

-----------------------------------------------------------------------------
(* split()                                                                  *)

LEMMA Halves ==
    ASSUME NEW n, Proper(n), n.mask < BITS
    PROVE  LET low == FirstHalf(n)
               high == SecondHalf(n)
           IN  /\ Proper(low) /\ Proper(high)
               /\ low.mask = n.mask + 1 /\ high.mask = n.mask + 1
               /\ low.included = n.included /\ high.included = n.included
               /\ low.first = n.first
               /\ high.first = Last(low) + 1 /\ high.first > n.first
               /\ Last(high) = Last(n) /\ Last(low) < Last(n)
<1>. DEFINE low == FirstHalf(n)
            high == SecondHalf(n)
<1>1. BITS \in Nat /\ n \in Nets /\ n.included \in BOOLEAN
  BY NetworkSpaceAssumption DEF Proper, Shaped, Nets
<1>2. PICK f \in Nat, k \in Nat, s \in Nat, q \in Nat :
        /\ f = n.first /\ k = n.mask /\ s = Size(n) /\ f = q * s
        /\ Last(n) = f + s - 1 /\ Last(n) < Pow2[BITS]
  BY Dimensions
<1>3. PICK e \in Nat : e = BITS - (k + 1)
  BY <1>1, <1>2
<1>4. PICK h \in Nat : h = Pow2[e] /\ h >= 1
  BY Pow2Step
<1>5. s = 2 * h
  <2>1. BITS - n.mask = e + 1
    BY <1>1, <1>2, <1>3
  <2>. QED
    BY <1>2, <1>4, <2>1, Pow2Step DEF Size
<1>6. PICK b \in Nat : b = Pow2[BITS]
  BY <1>1, Pow2Step
<1>7. low = [first |-> f, mask |-> k + 1, included |-> n.included]
  BY <1>2 DEF FirstHalf, IpAddress
<1>8. Last(low) = f + h - 1
  <2>1. CASE k + 1 < BITS
    BY <1>3, <1>4, <1>7, <2>1 DEF Last
  <2>2. CASE k + 1 = BITS
    <3>1. e = 0
      BY <1>1, <1>3, <2>2
    <3>2. h = 1
      BY <1>4, <3>1, Pow2Step
    <3>. QED
      BY <1>7, <2>2, <3>2, <1>1 DEF Last
  <2>. QED
    BY <1>1, <1>2, <2>1, <2>2
<1>9. high = [first |-> f + h, mask |-> k + 1, included |-> n.included]
  BY <1>2, <1>4, <1>8 DEF SecondHalf, IpAddress
<1>10. Last(high) = f + h + h - 1
  <2>1. CASE k + 1 < BITS
    BY <1>3, <1>4, <1>9, <2>1 DEF Last
  <2>2. CASE k + 1 = BITS
    <3>1. e = 0
      BY <1>1, <1>3, <2>2
    <3>2. h = 1
      BY <1>4, <3>1, Pow2Step
    <3>. QED
      BY <1>9, <2>2, <3>2, <1>1 DEF Last
  <2>. QED
    BY <1>1, <1>2, <2>1, <2>2
<1>11. f = (2 * q) * h /\ f + h = (2 * q + 1) * h /\ 2 * q \in Nat /\ 2 * q + 1 \in Nat
  BY <1>2, <1>5
<1>. HIDE DEF low, high
<1>12. low \in Nets /\ high \in Nets
  <2>1. f + s - 1 < b
    BY <1>2, <1>6
  <2>2. f \in 0..b /\ f + h \in 0..b
    BY <1>4, <1>5, <2>1
  <2>3. k + 1 \in 0..(BITS + 1)
    BY <1>1, <1>2
  <2>. QED
    BY <1>1, <1>6, <1>7, <1>9, <2>2, <2>3 DEF Nets
<1>13. low.mask <= BITS /\ high.mask <= BITS
  BY <1>1, <1>2, <1>7, <1>9
<1>14. Last(low) < Pow2[BITS] /\ Last(high) < Pow2[BITS]
  <2>1. f + s - 1 < b
    BY <1>2, <1>6
  <2>2. f + h - 1 < b /\ f + h + h - 1 < b
    BY <1>4, <1>5, <2>1
  <2>. QED
    BY <1>6, <1>8, <1>10, <2>2
<1>15. BITS - low.mask = e /\ BITS - high.mask = e
  BY <1>3, <1>7, <1>9
<1>16. low.first = f /\ high.first = f + h
  BY <1>7, <1>9
<1>17. low \in Shaped /\ high \in Shaped
  <2>1. \E x \in Nat : low.first = x * Pow2[BITS - low.mask]
    BY <1>4, <1>11, <1>15, <1>16
  <2>2. \E x \in Nat : high.first = x * Pow2[BITS - high.mask]
    BY <1>4, <1>11, <1>15, <1>16
  <2>. QED
    BY <2>1, <2>2, <1>12, <1>14 DEF Shaped
<1>18. Proper(low) /\ Proper(high)
  BY <1>13, <1>17 DEF Proper
<1>19. /\ low.mask = n.mask + 1 /\ high.mask = n.mask + 1
       /\ low.included = n.included /\ high.included = n.included
       /\ low.first = n.first
  BY <1>2, <1>7, <1>9
<1>20. f + h = f + h - 1 + 1 /\ f + h > f /\ f + h + h - 1 = f + s - 1 /\ f + h - 1 < f + s - 1
  BY <1>4, <1>5
<1>21. /\ high.first = Last(low) + 1 /\ high.first > n.first
       /\ Last(high) = Last(n) /\ Last(low) < Last(n)
  BY <1>2, <1>8, <1>10, <1>16, <1>20
<1>. QED
  BY <1>18, <1>19, <1>21 DEF low, high

\* The halves of a single address are overlong.
LEMMA HalvesOfOne ==
    ASSUME NEW n, Proper(n), n.mask = BITS
    PROVE  LET low == FirstHalf(n)
               high == SecondHalf(n)
           IN  /\ low \in Shaped /\ high \in Shaped /\ Overlong(low) /\ Overlong(high)
               /\ low.first = n.first /\ Last(low) = n.first /\ Last(n) = n.first
               /\ high.first = n.first + 1
<1>. DEFINE low == FirstHalf(n)
            high == SecondHalf(n)
<1>1. BITS \in Nat /\ n \in Nets /\ n.included \in BOOLEAN
  BY NetworkSpaceAssumption DEF Proper, Shaped, Nets
<1>2. PICK f \in Nat : f = n.first
  BY Dimensions
<1>3. PICK b \in Nat : b = Pow2[BITS]
  BY <1>1, Pow2Step
<1>4. Last(n) = f /\ f < b
  <2>1. Last(n) < b
    BY <1>3, Dimensions
  <2>2. Last(n) = f
    BY <1>1, <1>2 DEF Last
  <2>. QED
    BY <2>1, <2>2
<1>5. low = [first |-> f, mask |-> BITS + 1, included |-> n.included]
  BY <1>2 DEF FirstHalf, IpAddress
<1>6. Last(low) = f
  BY <1>1, <1>5 DEF Last
<1>7. high = [first |-> f + 1, mask |-> BITS + 1, included |-> n.included]
  BY <1>6 DEF SecondHalf, IpAddress
<1>8. low \in Nets /\ high \in Nets
  BY <1>1, <1>2, <1>3, <1>4, <1>5, <1>7 DEF Nets
<1>. QED
  BY <1>1, <1>2, <1>4, <1>5, <1>6, <1>7, <1>8 DEF Shaped, Overlong

\* Two networks of the size of its halves that lie in a network, the later one
\* at a later address, are the halves.
LEMMA LaterHalf ==
    ASSUME NEW c, NEW n, Proper(c), Proper(n), n.mask = c.mask + 1,
           c.first < n.first, Last(n) <= Last(c)
    PROVE  c.mask < BITS /\ SameRange(n, SecondHalf(c)) /\ Last(SecondHalf(c)) = Last(c)
<1>1. BITS \in Nat /\ n.mask \in Nat /\ c.mask \in Nat /\ n.mask <= BITS
      /\ n.first \in Nat /\ c.first \in Nat /\ Last(n) \in Nat /\ Last(c) \in Nat
      /\ n.first <= Last(n)
  BY NetworkSpaceAssumption, Dimensions, ShapedTypes DEF Proper
<1>2. c.mask < BITS
  BY <1>1
<1>. DEFINE low == FirstHalf(c)
            high == SecondHalf(c)
<1>3. /\ Proper(low) /\ Proper(high) /\ low.mask = n.mask /\ high.mask = n.mask
      /\ low.first = c.first /\ high.first = Last(low) + 1 /\ Last(high) = Last(c)
  BY <1>1, <1>2, Halves
<1>. HIDE DEF low, high
<1>4. Last(low) \in Nat /\ Last(high) \in Nat /\ high.first \in Nat /\ low.first \in Nat
  BY <1>3, Dimensions
<1>5. ~(n.first <= Last(low))
  <2>1. SUFFICES ASSUME n.first <= Last(low) PROVE FALSE
    OBVIOUS
  <2>2. SameRange(n, low)
    BY <1>1, <1>3, <2>1, SharedRange
  <2>. QED
    BY <2>2, <1>3, <1>1 DEF SameRange
<1>6. SameRange(n, high)
  <2>1. high.first <= n.first /\ n.first <= Last(high)
    BY <1>1, <1>3, <1>4, <1>5
  <2>. QED
    BY <1>1, <1>3, <2>1, SharedRange
<1>. QED
  BY <1>2, <1>3, <1>6 DEF high

-----------------------------------------------------------------------------
(* The queue.                                                               *)

\* What poll() leaves of it
LEMMA Polled ==
    ASSUME NEW B, IsABag(B), NEW n \in DOMAIN B
    PROVE  LET rest == B (-) SetToBag({n})
           IN  /\ IsABag(rest)
               /\ DOMAIN rest \subseteq DOMAIN B
               /\ DOMAIN B \ {n} \subseteq DOMAIN rest
               /\ \A k \in DOMAIN rest : k # n => rest[k] = B[k]
               /\ B[n] = 1 => n \notin DOMAIN rest
<1>. DEFINE rest == B (-) SetToBag({n})
<1>1. B \in [DOMAIN B -> {i \in Nat : i > 0}]
  BY DEF IsABag
<1>2. SetToBag({n}) = [e \in {n} |-> 1]
  BY DEF SetToBag
<1>3. DOMAIN SetToBag({n}) = {n} /\ SetToBag({n})[n] = 1
  BY <1>2
<1>4. rest = [e \in {d \in DOMAIN B : (IF d = n THEN B[d] - 1 ELSE B[d]) > 0} |->
                IF e = n THEN B[e] - 1 ELSE B[e]]
  BY <1>3 DEF (-)
<1>. QED
  BY <1>1, <1>4 DEF IsABag

\* What add() makes of it
LEMMA Added ==
    ASSUME NEW B, IsABag(B), NEW n
    PROVE  LET more == Queue(B, n)
           IN  /\ IsABag(more)
               /\ DOMAIN more = DOMAIN B \cup {n}
               /\ \A k \in DOMAIN B : k # n => more[k] = B[k]
               /\ n \notin DOMAIN B => more[n] = 1
<1>. DEFINE more == Queue(B, n)
<1>1. B \in [DOMAIN B -> {i \in Nat : i > 0}]
  BY DEF IsABag
<1>2. SetToBag({n}) = [e \in {n} |-> 1]
  BY DEF SetToBag
<1>3. DOMAIN SetToBag({n}) = {n} /\ SetToBag({n})[n] = 1
  BY <1>2
<1>4. more = [e \in DOMAIN B \cup {n} |->
                (IF e \in DOMAIN B THEN B[e] ELSE 0) + (IF e = n THEN 1 ELSE 0)]
  BY <1>3 DEF (+), Queue
<1>. QED
  BY <1>1, <1>4 DEF IsABag

\* A queue that is not empty has a least element.
LEMMA LeastExists ==
    ASSUME NEW B, DOMAIN B \subseteq Shaped, DOMAIN B # {}
    PROVE  Least(B) # {}
<1>. DEFINE Firsts == {n.first : n \in DOMAIN B}
<1>1. BITS \in Nat
  BY NetworkSpaceAssumption
<1>2. \A n \in DOMAIN B : n.first \in Nat /\ n.mask \in Nat /\ n.mask <= BITS + 1
  BY ShapedTypes
<1>3. Firsts \in SUBSET Nat /\ Firsts # {}
  BY <1>2
<1>4. PICK f \in Firsts : \A x \in Firsts : f <= x
  BY <1>3, LeastMember
<1>. DEFINE Rooms == {BITS + 1 - n.mask : n \in {k \in DOMAIN B : k.first = f}}
<1>5. Rooms \in SUBSET Nat /\ Rooms # {}
  BY <1>1, <1>2
<1>6. PICK r \in Rooms : \A x \in Rooms : r <= x
  BY <1>5, LeastMember
<1>7. PICK n \in DOMAIN B : n.first = f /\ r = BITS + 1 - n.mask
  BY <1>6
<1>8. ASSUME NEW k \in DOMAIN B PROVE ~Precedes(k, n)
  <2>1. k.first \in Nat /\ n.first \in Nat /\ k.mask \in Nat /\ n.mask \in Nat
    BY <1>2
  <2>2. n.first <= k.first
    BY <1>4, <1>7
  <2>3. k.first = n.first => BITS + 1 - n.mask <= BITS + 1 - k.mask
    BY <1>6, <1>7
  <2>4. k.first = n.first => k.mask <= n.mask
    BY <1>1, <2>1, <2>3
  <2>. QED
    BY <2>1, <2>2, <2>4 DEF Precedes
<1>. QED
  BY <1>8 DEF Least, BagToSet

\* What poll() says of the element it returns
First(B, n) ==
    /\ n \in DOMAIN B
    /\ \A k \in DOMAIN B : n.first <= k.first /\ (k.first = n.first => k.mask <= n.mask)

LEMMA LeastIsFirst ==
    ASSUME NEW B, DOMAIN B \subseteq Shaped, NEW n \in Least(B)
    PROVE  First(B, n)
<1>1. n \in DOMAIN B /\ \A k \in DOMAIN B : ~Precedes(k, n)
  BY DEF Least, BagToSet
<1>2. ASSUME NEW k \in DOMAIN B
      PROVE  n.first <= k.first /\ (k.first = n.first => k.mask <= n.mask)
  <2>1. k.first \in Nat /\ n.first \in Nat /\ k.mask \in Nat /\ n.mask \in Nat
    BY <1>1, ShapedTypes
  <2>. QED
    BY <1>1, <2>1 DEF Precedes
<1>. QED
  BY <1>1, <1>2 DEF First

-----------------------------------------------------------------------------
(* The sweep: the loop goes through the addresses upwards.                  *)

\* The queue holds networks the program can make; an overlong one is alone with
\* its first address.
Waiting(B) ==
    /\ IsABag(B) /\ DOMAIN B \subseteq Shaped
    /\ \A k, l \in DOMAIN B :
         Overlong(k) /\ Overlong(l) /\ k.first = l.first => k = l /\ B[k] = 1

\* No queued network begins before the current one c; an overlong one begins after
\* it, and for that reason is never split.
Swept(c, B) ==
    /\ Waiting(B) /\ c \in Shaped
    /\ \A k \in DOMAIN B : c.first <= k.first /\ (Overlong(k) => c.first < k.first)

\* The output lies before the current network.
Behind(D, c) == \A d \in D : Last(d) < c.first

Finished(D) ==
    /\ D \subseteq Shaped
    /\ \A n, k \in D : n # k => Last(n) < k.first \/ Last(k) < n.first

LEMMA WaitingPolled ==
    ASSUME NEW B, Waiting(B), NEW n \in DOMAIN B
    PROVE  Waiting(B (-) SetToBag({n}))
<1>. DEFINE rest == B (-) SetToBag({n})
<1>1. /\ IsABag(rest) /\ DOMAIN rest \subseteq DOMAIN B
      /\ \A k \in DOMAIN rest : k # n => rest[k] = B[k]
      /\ B[n] = 1 => n \notin DOMAIN rest
  BY Polled DEF Waiting
<1>. HIDE DEF rest
<1>2. ASSUME NEW k \in DOMAIN rest, NEW l \in DOMAIN rest,
             Overlong(k), Overlong(l), k.first = l.first
      PROVE  k = l /\ rest[k] = 1
  <2>1. k = l /\ B[k] = 1
    BY <1>1, <1>2 DEF Waiting
  <2>. QED
    BY <1>1, <1>2, <2>1
<1>. QED
  BY <1>1, <1>2 DEF Waiting, rest

\* The next network is dropped.
LEMMA SweptDrops ==
    ASSUME NEW c, NEW B, Swept(c, B), NEW n \in DOMAIN B
    PROVE  Swept(c, B (-) SetToBag({n}))
<1>. DEFINE rest == B (-) SetToBag({n})
<1>1. Waiting(rest) /\ DOMAIN rest \subseteq DOMAIN B
  BY WaitingPolled, Polled DEF Swept, Waiting
<1>. HIDE DEF rest
<1>. QED
  BY <1>1 DEF Swept, rest

\* The next network becomes the current one.
LEMMA SweptMoves ==
    ASSUME NEW B, Waiting(B), NEW n, First(B, n)
    PROVE  Swept(n, B (-) SetToBag({n}))
<1>. DEFINE rest == B (-) SetToBag({n})
<1>1. n \in DOMAIN B /\ n \in Shaped
  BY DEF First, Waiting
<1>2. /\ Waiting(rest) /\ DOMAIN rest \subseteq DOMAIN B
      /\ B[n] = 1 => n \notin DOMAIN rest
  BY <1>1, WaitingPolled, Polled DEF Waiting
<1>. HIDE DEF rest
<1>3. ASSUME NEW k \in DOMAIN rest
      PROVE  n.first <= k.first /\ (Overlong(k) => n.first < k.first)
  <2>1. n.first <= k.first /\ (k.first = n.first => k.mask <= n.mask)
    BY <1>2 DEF First
  <2>2. k \in DOMAIN B /\ k \in Shaped /\ n.mask \in Nat /\ k.mask \in Nat
        /\ n.mask <= BITS + 1 /\ n.first \in Nat /\ k.first \in Nat /\ BITS \in Nat
    BY <1>1, <1>2, ShapedTypes, NetworkSpaceAssumption DEF Waiting
  <2>3. ASSUME Overlong(k), k.first = n.first PROVE FALSE
    <3>1. n.mask = BITS + 1
      BY <2>1, <2>2, <2>3 DEF Overlong
    <3>2. Overlong(n)
      BY <3>1 DEF Overlong
    <3>3. k = n /\ B[n] = 1
      BY <1>1, <2>2, <2>3, <3>2 DEF Waiting
    <3>. QED
      BY <1>2, <3>3
  <2>. QED
    BY <2>1, <2>2, <2>3
<1>. QED
  BY <1>1, <1>2, <1>3 DEF Swept, rest

\* A network is queued.
LEMMA SweptAdds ==
    ASSUME NEW c, NEW B, Swept(c, B), NEW h \in Shaped, c.first <= h.first,
           Overlong(h) => c.first < h.first /\ ~contains(B, h)
    PROVE  Swept(c, Queue(B, h))
<1>. DEFINE more == Queue(B, h)
<1>1. /\ IsABag(more) /\ DOMAIN more = DOMAIN B \cup {h}
      /\ \A k \in DOMAIN B : k # h => more[k] = B[k]
      /\ h \notin DOMAIN B => more[h] = 1
  BY Added DEF Swept, Waiting
<1>. HIDE DEF more
<1>2. ASSUME NEW k \in DOMAIN B, Overlong(k), Overlong(h) PROVE k.first # h.first
  BY <1>2 DEF contains, SameRange, Overlong, BagToSet
<1>3. ASSUME NEW k \in DOMAIN more, NEW l \in DOMAIN more,
             Overlong(k), Overlong(l), k.first = l.first
      PROVE  k = l /\ more[k] = 1
  <2>1. CASE k = h /\ l = h
    <3>1. h \notin DOMAIN B
      BY <1>2, <1>3, <2>1
    <3>. QED
      BY <1>1, <2>1, <3>1
  <2>2. CASE k # h /\ l # h
    <3>1. k = l /\ B[k] = 1
      BY <1>1, <1>3, <2>2 DEF Swept, Waiting
    <3>. QED
      BY <1>1, <1>3, <2>2, <3>1
  <2>3. CASE k = h /\ l # h
    BY <1>1, <1>2, <1>3, <2>3
  <2>4. CASE k # h /\ l = h
    BY <1>1, <1>2, <1>3, <2>4
  <2>. QED
    BY <2>1, <2>2, <2>3, <2>4
<1>4. Waiting(more)
  BY <1>1, <1>3 DEF Swept, Waiting
<1>. QED
  BY <1>1, <1>4 DEF Swept, more

-----------------------------------------------------------------------------
(* The inductive invariant of the types and of what is done.                *)

\* Two networks of S have not the same range.
Distinct(S) == \A n, k \in S : SameRange(n, k) => n = k

Inputs ==
    /\ debug \in BOOLEAN /\ twins \in BOOLEAN
    /\ pc \in {"start", "loop", "done", "thrown"}
    /\ \A n \in mIpAddresses : Proper(n)
    /\ Distinct(mIpAddresses)

\* Before the first step
Begun ==
    pc = "start" => /\ currentNet = {} /\ ipsDone = {} /\ ~twins
                    /\ DOMAIN networks = mIpAddresses

SweepInv ==
    /\ Inputs /\ Begun
    /\ Waiting(networks) /\ Finished(ipsDone)
    /\ currentNet = {} => DOMAIN networks = {} \/ pc = "start"
    /\ \A c \in currentNet :
         currentNet = {c} /\ Swept(c, networks) /\ Behind(ipsDone, c)

LEMMA Divisor ==
    ASSUME NEW f \in Nat, NEW p \in Nat, p >= 1, f % p = 0
    PROVE  \E q \in Nat : f = q * p
<1>1. f \div p \in Nat
  OBVIOUS
<1>2. f = p * (f \div p)
  OBVIOUS
<1>3. f = (f \div p) * p
  BY <1>1, <1>2
<1>. QED
  BY <1>1, <1>3

LEMMA RangeIsProper ==
    ASSUME NEW r \in Ranges, NEW t \in BOOLEAN
    PROVE  Proper(IpAddress(r.first, r.mask, t))
<1>. DEFINE n == IpAddress(r.first, r.mask, t)
<1>1. PICK b \in Nat : b = Pow2[BITS] /\ BITS \in Nat
  BY NetworkSpaceAssumption, Pow2Step
<1>2. PICK f \in Nat, m \in Nat : f = r.first /\ m = r.mask /\ f < b /\ m <= BITS
  BY <1>1 DEF Ranges, Addresses
<1>3. PICK e \in Nat : e = BITS - m
  BY <1>1, <1>2
<1>4. PICK p \in Nat : p = Pow2[e] /\ p >= 1
  BY Pow2Step
<1>5. f % p = 0
  BY <1>2, <1>3, <1>4 DEF Ranges
<1>6. PICK q \in Nat : f = q * p
  BY <1>4, <1>5, Divisor
<1>7. PICK j \in Nat : b = j * p
  <2>1. BITS = e + m
    BY <1>1, <1>2, <1>3
  <2>. QED
    BY <1>1, <1>4, <2>1, Pow2Divides
<1>8. f + p <= b
  <2>1. q * p < j * p
    BY <1>2, <1>6, <1>7
  <2>2. q < j
    BY <2>1, Cancel
  <2>3. (q + 1) * p <= j * p
    BY <2>2, Cancel
  <2>4. (q + 1) * p = q * p + p /\ q * p \in Nat
    OBVIOUS
  <2>. QED
    BY <1>6, <1>7, <2>3, <2>4
<1>9. n = [first |-> f, mask |-> m, included |-> t]
  BY <1>2 DEF IpAddress
<1>. HIDE DEF n
<1>10. n \in Nets
  BY <1>1, <1>2, <1>9 DEF Nets
<1>11. Last(n) < b
  <2>1. CASE m < BITS
    BY <1>3, <1>4, <1>8, <1>9, <2>1 DEF Last
  <2>2. CASE m = BITS
    BY <1>2, <1>9, <2>2 DEF Last
  <2>. QED
    BY <1>1, <1>2, <2>1, <2>2
<1>12. \E x \in Nat : n.first = x * Pow2[BITS - n.mask]
  BY <1>3, <1>4, <1>6, <1>9
<1>. QED
  BY <1>1, <1>2, <1>9, <1>10, <1>11, <1>12 DEF Proper, Shaped, n

\* What is done takes the current network.
LEMMA FinishedGrows ==
    ASSUME NEW D, Finished(D), NEW c \in Shaped, Behind(D, c)
    PROVE  With(D, c) = D \cup {c} /\ Finished(D \cup {c})
<1>1. ASSUME NEW d \in D
      PROVE  d.first <= Last(d) /\ Last(d) < c.first /\ d.first \in Nat /\ c.first \in Nat
             /\ Last(d) \in Int
  BY ShapedTypes DEF Finished, Behind
<1>2. ASSUME NEW d \in D PROVE ~SameRange(c, d)
  BY <1>1 DEF SameRange
<1>3. With(D, c) = D \cup {c}
  BY <1>2 DEF With
<1>4. Finished(D \cup {c})
  BY DEF Finished, Behind
<1>. QED
  BY <1>3, <1>4

LEMMA BehindMoves ==
    ASSUME NEW D, Finished(D), NEW c \in Shaped, Behind(D, c), NEW n \in Shaped,
           c.first <= n.first
    PROVE  /\ Behind(D, n)
           /\ Last(c) < n.first => Behind(D \cup {c}, n)
<1>1. ASSUME NEW d \in D
      PROVE  Last(d) < n.first
  BY ShapedTypes DEF Finished, Behind
<1>. QED
  BY <1>1 DEF Behind

LEMMA SweepInit ==
    ASSUME Init
    PROVE  SweepInv
<1>0. PICK R \in SUBSET Ranges : \E type \in [R -> BOOLEAN] :
        mIpAddresses = {IpAddress(r.first, r.mask, type[r]) : r \in R}
  BY DEF Init
<1>1. PICK type \in [R -> BOOLEAN] :
        mIpAddresses = {IpAddress(r.first, r.mask, type[r]) : r \in R}
  BY <1>0
<1>2. ASSUME NEW n \in mIpAddresses
      PROVE  /\ Proper(n)
             /\ \E r \in R : n = IpAddress(r.first, r.mask, type[r])
  <2>1. PICK r \in R : n = IpAddress(r.first, r.mask, type[r])
    BY <1>1
  <2>2. r \in Ranges /\ type[r] \in BOOLEAN
    BY <1>1
  <2>. QED
    BY <2>1, <2>2, RangeIsProper
<1>3. ASSUME NEW n \in mIpAddresses, NEW k \in mIpAddresses, SameRange(n, k)
      PROVE  n = k
  <2>1. PICK r \in R, t \in R : /\ n = IpAddress(r.first, r.mask, type[r])
                                /\ k = IpAddress(t.first, t.mask, type[t])
    BY <1>2
  <2>2. r.first = t.first /\ r.mask = t.mask
    BY <1>3, <2>1 DEF SameRange, IpAddress
  <2>3. r = t
    BY <2>2 DEF Ranges
  <2>. QED
    BY <2>1, <2>3
<1>4. debug \in BOOLEAN
  BY NetworkSpaceAssumption DEF Init
<1>5. Inputs
  BY <1>2, <1>3, <1>4 DEF Inputs, Distinct, Init
<1>6. networks = [e \in mIpAddresses |-> 1]
  BY DEF Init, SetToBag
<1>7. IsABag(networks) /\ DOMAIN networks = mIpAddresses
  BY <1>6 DEF IsABag
<1>8. ASSUME NEW n \in mIpAddresses PROVE n \in Shaped /\ ~Overlong(n)
  BY <1>2, NetworkSpaceAssumption DEF Proper, Overlong
<1>9. Waiting(networks)
  BY <1>7, <1>8 DEF Waiting
<1>10. Begun
  BY <1>7 DEF Begun, Init
<1>. QED
  BY <1>5, <1>9, <1>10 DEF SweepInv, Init, Finished

\* In the loop, the sweep is kept if the next current network and the next queue are
\* swept, and what is done lies behind.
LEMMA SweepGoesOn ==
    ASSUME SweepInv, pc = "loop", Inputs', UNCHANGED mIpAddresses,
           pc' # "start", Finished(ipsDone'),
           NEW c, currentNet' = {c}, Swept(c, networks'), Behind(ipsDone', c)
    PROVE  SweepInv'
<1>1. Begun'
  BY DEF Begun
<1>2. Waiting(networks')
  BY DEF Swept
<1>. QED
  BY <1>1, <1>2 DEF SweepInv

\* What the branch that splits the next network queues
LEMMA SplitNextParts ==
    ASSUME NEW c, NEW B, Swept(c, B), NEW n \in DOMAIN B,
           c.first = n.first, c.mask >= n.mask
    PROVE  /\ Proper(n)
           /\ FirstHalf(n) \in Shaped /\ SecondHalf(n) \in Shaped
           /\ c.first = FirstHalf(n).first /\ c.first < SecondHalf(n).first
           /\ Last(FirstHalf(n)) # Last(c) => ~Overlong(FirstHalf(n))
<1>1. /\ n \in Shaped /\ c \in Shaped /\ ~Overlong(n) /\ BITS \in Nat
      /\ n.mask \in Nat /\ c.mask \in Nat /\ n.mask <= BITS + 1
      /\ n.first \in Nat /\ c.first \in Nat
  BY ShapedTypes, NetworkSpaceAssumption DEF Swept, Waiting
<1>2. Proper(n)
  BY <1>1 DEF Proper, Overlong
<1>3. CASE n.mask < BITS
  <2>1. /\ Proper(FirstHalf(n)) /\ Proper(SecondHalf(n))
        /\ FirstHalf(n).first = n.first /\ SecondHalf(n).first > n.first
    BY <1>2, <1>3, Halves
  <2>2. SecondHalf(n).first \in Nat
    BY <2>1, Dimensions
  <2>3. FirstHalf(n).mask <= BITS
    BY <2>1 DEF Proper
  <2>. QED
    BY <1>1, <1>2, <2>1, <2>2, <2>3 DEF Proper, Overlong
<1>4. CASE n.mask = BITS
  <2>1. /\ FirstHalf(n) \in Shaped /\ SecondHalf(n) \in Shaped
        /\ FirstHalf(n).first = n.first /\ Last(FirstHalf(n)) = n.first
        /\ SecondHalf(n).first = n.first + 1
    BY <1>2, <1>4, HalvesOfOne
  <2>2. Last(c) = c.first
    BY <1>1, <1>4 DEF Last
  <2>. QED
    BY <1>1, <1>2, <2>1, <2>2
<1>. QED
  BY <1>1, <1>2, <1>3, <1>4 DEF Proper

\* What the branch that splits the current network makes of it
LEMMA SplitCurrentParts ==
    ASSUME NEW c, NEW B, Swept(c, B), NEW n \in DOMAIN B,
           ~Apart(c, n), ~Begins(c, n)
    PROVE  /\ Proper(c) /\ c.mask < BITS
           /\ Proper(FirstHalf(c)) /\ Proper(SecondHalf(c))
           /\ c.first = FirstHalf(c).first /\ c.first < SecondHalf(c).first
           /\ ~Overlong(SecondHalf(c))
<1>1. /\ n \in Shaped /\ c \in Shaped /\ BITS \in Nat
      /\ n.mask \in Nat /\ c.mask \in Nat /\ n.mask <= BITS + 1
      /\ n.first \in Nat /\ c.first \in Nat
      /\ c.first <= n.first /\ (Overlong(n) => c.first < n.first)
  BY ShapedTypes, NetworkSpaceAssumption DEF Swept, Waiting
<1>2. c.mask < BITS
  <2>1. SUFFICES ASSUME ~(c.mask < BITS) PROVE FALSE
    BY <1>1
  <2>2. Last(c) = c.first
    BY <2>1 DEF Last
  <2>3. c.first = n.first
    BY <1>1, <2>2 DEF Apart
  <2>4. c.mask < n.mask
    BY <1>1, <2>3 DEF Begins
  <2>5. n.mask = BITS + 1
    BY <1>1, <2>1, <2>4
  <2>. QED
    BY <1>1, <2>3, <2>5 DEF Overlong
<1>3. Proper(c)
  BY <1>1, <1>2 DEF Proper
<1>4. /\ Proper(FirstHalf(c)) /\ Proper(SecondHalf(c))
      /\ FirstHalf(c).first = c.first /\ SecondHalf(c).first > c.first
  BY <1>2, <1>3, Halves
<1>5. SecondHalf(c).first \in Nat /\ SecondHalf(c).mask <= BITS
  BY <1>4, Dimensions DEF Proper
<1>. QED
  BY <1>1, <1>2, <1>3, <1>4, <1>5 DEF Overlong

LEMMA SweptBecomesSmaller ==
    ASSUME NEW c, NEW B, Swept(c, B), NEW h \in Shaped, h.first = c.first
    PROVE  Swept(h, B)
BY DEF Swept

LEMMA SweepStep ==
    ASSUME SweepInv, [Next]_vars
    PROVE  SweepInv'
<1>. USE DEF BagToSet
<1>1. CASE Start
  <2>1. /\ currentNet = {} /\ ipsDone = {} /\ UNCHANGED <<debug, mIpAddresses, ipsDone, twins>>
    BY <1>1 DEF Start, SweepInv, Begun
  <2>2. Waiting(networks) /\ Inputs /\ Finished({})
    BY <2>1 DEF SweepInv
  <2>3. CASE Least(networks) = {}
    <3>1. pc' = "done" /\ UNCHANGED <<networks, currentNet>>
      BY <1>1, <2>3 DEF Start
    <3>2. DOMAIN networks = {}
      BY <2>2, <2>3, LeastExists DEF Waiting
    <3>. QED
      BY <2>1, <2>2, <3>1, <3>2 DEF SweepInv, Inputs, Begun
  <2>4. CASE Least(networks) # {}
    <3>1. PICK n \in Least(networks) :
            /\ pc' = "loop" /\ currentNet' = {n} /\ networks' = networks (-) SetToBag({n})
      BY <1>1, <2>4 DEF Start
    <3>2. First(networks, n)
      BY <2>2, LeastIsFirst DEF Waiting
    <3>3. Swept(n, networks')
      BY <2>2, <3>1, <3>2, SweptMoves
    <3>4. Behind(ipsDone', n)
      BY <2>1 DEF Behind
    <3>5. Inputs' /\ Begun' /\ Waiting(networks')
      BY <2>1, <2>2, <3>1, <3>3 DEF Inputs, Begun, Swept
    <3>. QED
      BY <2>1, <2>2, <3>1, <3>3, <3>4, <3>5 DEF SweepInv
  <2>. QED
    BY <2>3, <2>4
<1>2. CASE Iterate
  <2>1. PICK cur \in currentNet :
          \/ LastOne(cur)
          \/ \E n \in Least(networks) :
               \/ Done(cur, n) \/ Forget(cur, n) \/ SplitNext(cur, n)
               \/ Ignore(cur, n) \/ SplitCurrent(cur, n) \/ Throws(cur, n)
    BY <1>2 DEF Iterate
  <2>2. /\ pc = "loop" /\ currentNet = {cur} /\ Inputs
        /\ Swept(cur, networks) /\ Behind(ipsDone, cur)
        /\ Waiting(networks) /\ cur \in Shaped /\ Finished(ipsDone)
    BY <1>2 DEF SweepInv, Swept, Iterate
  <2>3. ASSUME LastOne(cur)
        PROVE  SweepInv'
    <3>1. DOMAIN networks = {}
      BY <2>2, <2>3, LeastExists DEF Waiting, LastOne
    <3>2. Finished(ipsDone')
      BY <2>2, <2>3, FinishedGrows DEF LastOne
    <3>. QED
      BY <2>2, <2>3, <3>1, <3>2 DEF SweepInv, Inputs, Begun, LastOne
  <2>4. ASSUME NEW n \in Least(networks),
               \/ Done(cur, n) \/ Forget(cur, n) \/ SplitNext(cur, n)
               \/ Ignore(cur, n) \/ SplitCurrent(cur, n) \/ Throws(cur, n)
        PROVE  SweepInv'
    <3>1. First(networks, n) /\ n \in DOMAIN networks
      BY <2>2, LeastIsFirst DEF Waiting, First
    <3>2. n \in Shaped /\ cur.first <= n.first
      BY <2>2, <3>1 DEF Waiting, Swept
    <3>3. CASE Done(cur, n)
      <4>1. /\ Last(cur) < n.first /\ ipsDone' = With(ipsDone, cur) /\ currentNet' = {n}
            /\ networks' = networks (-) SetToBag({n})
            /\ UNCHANGED <<debug, mIpAddresses, pc, twins>>
        BY <3>3 DEF Done, Apart
      <4>2. ipsDone' = ipsDone \cup {cur} /\ Finished(ipsDone')
        BY <2>2, <4>1, FinishedGrows
      <4>3. Behind(ipsDone', n)
        BY <2>2, <3>2, <4>1, <4>2, BehindMoves
      <4>4. Swept(n, networks')
        BY <2>2, <3>1, <4>1, SweptMoves
      <4>5. Inputs' /\ pc' # "start"
        BY <2>2, <4>1 DEF Inputs
      <4>. QED
        BY <2>2, <4>1, <4>2, <4>3, <4>4, <4>5, SweepGoesOn
    <3>4. CASE Forget(cur, n)
      <4>1. /\ currentNet' = {n} /\ networks' = networks (-) SetToBag({n})
            /\ UNCHANGED <<debug, mIpAddresses, ipsDone, pc, twins>>
        BY <3>4 DEF Forget
      <4>2. Behind(ipsDone', n)
        BY <2>2, <3>2, <4>1, BehindMoves
      <4>3. Swept(n, networks')
        BY <2>2, <3>1, <4>1, SweptMoves
      <4>4. Inputs' /\ pc' # "start" /\ Finished(ipsDone')
        BY <2>2, <4>1 DEF Inputs
      <4>. QED
        BY <2>2, <4>1, <4>2, <4>3, <4>4, SweepGoesOn
    <3>5. CASE SplitNext(cur, n)
      <4>. DEFINE rest == networks (-) SetToBag({n})
                  upper == IF contains(rest, SecondHalf(n)) THEN rest
                           ELSE Queue(rest, SecondHalf(n))
      <4>1. /\ cur.first = n.first /\ cur.mask >= n.mask
            /\ networks' = IF \/ Last(FirstHalf(n)) = Last(cur)
                              \/ contains(upper, FirstHalf(n))
                           THEN upper
                           ELSE Queue(upper, FirstHalf(n))
            /\ UNCHANGED <<debug, mIpAddresses, currentNet, ipsDone, pc, twins>>
        BY <3>5 DEF SplitNext, Begins
      <4>2. /\ FirstHalf(n) \in Shaped /\ SecondHalf(n) \in Shaped
            /\ cur.first = FirstHalf(n).first /\ cur.first < SecondHalf(n).first
            /\ Last(FirstHalf(n)) # Last(cur) => ~Overlong(FirstHalf(n))
        BY <2>2, <3>1, <4>1, SplitNextParts
      <4>3. /\ cur.first <= FirstHalf(n).first /\ cur.first <= SecondHalf(n).first
        BY <2>2, <4>2, ShapedTypes
      <4>4. Swept(cur, rest)
        BY <2>2, <3>1, SweptDrops
      <4>. HIDE DEF rest
      <4>5. Swept(cur, upper)
        BY <4>2, <4>3, <4>4, SweptAdds
      <4>. HIDE DEF upper
      <4>6. Swept(cur, networks')
        BY <4>1, <4>2, <4>3, <4>5, SweptAdds
      <4>7. Inputs' /\ pc' # "start" /\ Finished(ipsDone') /\ Behind(ipsDone', cur)
        BY <2>2, <4>1 DEF Inputs
      <4>. QED
        BY <2>2, <4>1, <4>6, <4>7, SweepGoesOn
    <3>6. CASE Ignore(cur, n)
      <4>1. /\ networks' = networks (-) SetToBag({n})
            /\ UNCHANGED <<debug, mIpAddresses, currentNet, ipsDone, pc, twins>>
        BY <3>6 DEF Ignore
      <4>2. Swept(cur, networks')
        BY <2>2, <3>1, <4>1, SweptDrops
      <4>3. Inputs' /\ pc' # "start" /\ Finished(ipsDone') /\ Behind(ipsDone', cur)
        BY <2>2, <4>1 DEF Inputs
      <4>. QED
        BY <2>2, <4>1, <4>2, <4>3, SweepGoesOn
    <3>7. CASE SplitCurrent(cur, n)
      <4>1. /\ ~Apart(cur, n) /\ ~Begins(cur, n)
            /\ \/ networks' = networks /\ twins' = twins
               \/ /\ networks' = Queue(networks, SecondHalf(cur))
                  /\ twins' = (twins \/ Twin(networks, SecondHalf(cur)))
            /\ currentNet' = {FirstHalf(cur)}
            /\ UNCHANGED <<debug, mIpAddresses, ipsDone, pc>>
        BY <3>7 DEF SplitCurrent
      <4>2. /\ Proper(FirstHalf(cur)) /\ Proper(SecondHalf(cur))
            /\ cur.first = FirstHalf(cur).first /\ cur.first < SecondHalf(cur).first
            /\ ~Overlong(SecondHalf(cur))
        BY <2>2, <3>1, <4>1, SplitCurrentParts
      <4>3. FirstHalf(cur) \in Shaped /\ SecondHalf(cur) \in Shaped
            /\ cur.first <= SecondHalf(cur).first
        BY <2>2, <4>2, ShapedTypes DEF Proper
      <4>4. Swept(cur, networks')
        BY <2>2, <4>1, <4>2, <4>3, SweptAdds
      <4>5. Swept(FirstHalf(cur), networks')
        BY <4>2, <4>3, <4>4, SweptBecomesSmaller
      <4>6. Behind(ipsDone', FirstHalf(cur))
        BY <2>2, <4>1, <4>2 DEF Behind
      <4>7. Inputs' /\ pc' # "start" /\ Finished(ipsDone')
        BY <2>2, <4>1 DEF Inputs, Twin
      <4>. QED
        BY <2>2, <4>1, <4>5, <4>6, <4>7, SweepGoesOn
    <3>8. CASE Throws(cur, n)
      <4>1. /\ networks' = networks (-) SetToBag({n}) /\ pc' = "thrown"
            /\ UNCHANGED <<debug, mIpAddresses, currentNet, ipsDone, twins>>
        BY <3>8 DEF Throws
      <4>2. Swept(cur, networks')
        BY <2>2, <3>1, <4>1, SweptDrops
      <4>3. Inputs' /\ pc' # "start" /\ Finished(ipsDone') /\ Behind(ipsDone', cur)
        BY <2>2, <4>1 DEF Inputs
      <4>. QED
        BY <2>2, <4>1, <4>2, <4>3, SweepGoesOn
    <3>. QED
      BY <2>4, <3>3, <3>4, <3>5, <3>6, <3>7, <3>8
  <2>. QED
    BY <2>1, <2>3, <2>4
<1>3. CASE UNCHANGED vars
  BY <1>3 DEF vars, SweepInv, Inputs, Begun
<1>. QED
  BY <1>1, <1>2, <1>3 DEF Next

LEMMA SweepAlways == Spec => []SweepInv
<1>1. Init => SweepInv
  BY SweepInit
<1>2. SweepInv /\ [Next]_vars => SweepInv'
  BY SweepStep
<1>. QED
  BY <1>1, <1>2, PTL DEF Spec

\* Every variable has a value of its kind, whatever the networks: in particular a
\* half that split() makes has an address and a length the program can hold, and one
\* network at most is current (generateIPList, split).
THEOREM NetworkSpaceIsTyped == Spec => []TypeOK
<1>1. ASSUME SweepInv
      PROVE  TypeOK
  <2>1. Cardinality(currentNet) <= 1
    <3>1. CASE currentNet = {}
      BY <3>1, FS_EmptySet
    <3>2. CASE currentNet # {}
      <4>1. PICK c : currentNet = {c}
        BY <1>1, <3>2 DEF SweepInv
      <4>2. Cardinality(currentNet) = 1
        BY <4>1, FS_Singleton
      <4>. QED
        BY <4>2
    <3>. QED
      BY <3>1, <3>2
  <2>2. currentNet \subseteq Nets
    BY <1>1 DEF SweepInv, Swept, Shaped
  <2>. QED
    BY <1>1, <2>1, <2>2
       DEF TypeOK, SweepInv, Inputs, Waiting, Finished, Proper, Shaped, BagToSet
<1>2. SweepInv => TypeOK
  BY <1>1
<1>. QED
  BY <1>2, SweepAlways, PTL

LEMMA Separated ==
    ASSUME NEW D, NEW C, NEW B, Finished(D),
           C = {} => DOMAIN B = {} \/ D = {},
           \A c \in C : C = {c} /\ Swept(c, B) /\ Behind(D, c)
    PROVE  \A d \in D, k \in C \cup DOMAIN B : Last(d) < k.first
<1>1. SUFFICES ASSUME NEW d \in D, NEW k \in C \cup DOMAIN B PROVE Last(d) < k.first
  OBVIOUS
<1>2. PICK c \in C : C = {c} /\ Swept(c, B) /\ Behind(D, c)
  BY <1>1
<1>3. k \in Shaped /\ c \in Shaped /\ c.first <= k.first
  <2>1. CASE k \in C
    BY <1>2, <2>1, ShapedTypes DEF Swept
  <2>2. CASE k \in DOMAIN B
    BY <1>2, <2>2 DEF Swept, Waiting
  <2>. QED
    BY <1>1, <2>1, <2>2
<1>4. Last(d) < c.first /\ d \in Shaped
  BY <1>1, <1>2 DEF Behind, Finished
<1>. QED
  BY <1>3, <1>4, ShapedTypes

\* Networks that are done overlap with no other and with nothing that is left, so
\* that no address is in two of the routes (the branch "nothing to do" of
\* generateIPList).
THEOREM DoneIsSeparate == Spec => []Separate
<1>1. ASSUME SweepInv
      PROVE  Separate
  <2>1. /\ Finished(ipsDone)
        /\ currentNet = {} => DOMAIN networks = {} \/ ipsDone = {}
        /\ \A c \in currentNet :
             currentNet = {c} /\ Swept(c, networks) /\ Behind(ipsDone, c)
    BY <1>1 DEF SweepInv, Begun
  <2>2. \A d \in ipsDone, k \in currentNet \cup DOMAIN networks : Last(d) < k.first
    BY <2>1, Separated
  <2>. QED
    BY <2>1, <2>2 DEF Separate, Finished, BagToSet
<1>2. SweepInv => Separate
  BY <1>1
<1>. QED
  BY <1>2, SweepAlways, PTL

-----------------------------------------------------------------------------
(* The loop as long as it has queued no half beside an equal network of the *)
(* other type: networks with the same range are one network, and the        *)
(* current one comes before those of the queue.                             *)

Tidy(c, B) ==
    /\ Proper(c) /\ \A k \in DOMAIN B : Proper(k)
    /\ Distinct({c} \cup DOMAIN B)
    /\ \A k \in DOMAIN B : c.first <= k.first /\ (k.first = c.first => k.mask <= c.mask)

TidyInv ==
    ~twins => \A c \in currentNet : Tidy(c, networks)

\* The shape of the two branches that split: the networks lie in one another, and
\* every assertion of the code holds.
LEMMA NextFacts ==
    ASSUME NEW c, NEW B, Tidy(c, B), NEW n \in DOMAIN B, Begins(c, n),
           c.included # n.included
    PROVE  /\ n.mask < c.mask /\ n.mask < BITS
           /\ NextAsserts(c, n)
           /\ c.first = n.first
<1>1. /\ Proper(c) /\ Proper(n) /\ c.first = n.first /\ c.mask >= n.mask
      /\ BITS \in Nat /\ c.mask \in Nat /\ n.mask \in Nat /\ c.mask <= BITS
  BY NetworkSpaceAssumption, Dimensions DEF Tidy, Begins, Proper
<1>2. c # n
  OBVIOUS
<1>3. c.mask # n.mask
  BY <1>1, <1>2 DEF Tidy, Distinct, SameRange
<1>4. n.mask < c.mask /\ n.mask < BITS
  BY <1>1, <1>3
<1>5. /\ Proper(FirstHalf(n)) /\ FirstHalf(n).first = n.first
      /\ Last(SecondHalf(n)) = Last(n)
  BY <1>1, <1>4, Halves
<1>6. ASSUME Last(FirstHalf(n)) = Last(c) PROVE FirstHalf(n).mask = c.mask
  <2>1. FirstHalf(n).first = c.first
    BY <1>1, <1>5
  <2>. QED
    BY <1>1, <1>5, <1>6, <2>1, SameSpan
<1>. QED
  BY <1>1, <1>4, <1>5, <1>6 DEF NextAsserts, SplitsEvenly

LEMMA CurrentFacts ==
    ASSUME NEW c, NEW B, Tidy(c, B), NEW n \in DOMAIN B, ~Apart(c, n), ~Begins(c, n)
    PROVE  /\ c.mask < n.mask /\ c.mask < BITS
           /\ c.first < n.first /\ Last(n) <= Last(c)
           /\ InsideAsserts(c, n) /\ CurrentAsserts(c, n)
<1>1. /\ Proper(c) /\ Proper(n) /\ BITS \in Nat
      /\ c.mask \in Nat /\ n.mask \in Nat /\ n.mask <= BITS
      /\ c.first \in Nat /\ n.first \in Nat /\ Last(c) \in Nat /\ Last(n) \in Nat
      /\ c.first <= n.first /\ (n.first = c.first => n.mask <= c.mask)
  BY NetworkSpaceAssumption, Dimensions DEF Tidy, Proper
<1>2. c.first < n.first
  BY <1>1 DEF Begins
<1>3. n.first <= Last(c) /\ n.first <= Last(n)
  BY <1>1, ShapedTypes DEF Apart, Proper
<1>4. c.mask < n.mask
  <2>1. SUFFICES ASSUME n.mask <= c.mask PROVE FALSE
    BY <1>1
  <2>2. n.first <= c.first
    BY <1>1, <1>2, <1>3, <2>1, Laminar
  <2>. QED
    BY <1>1, <1>2, <2>2
<1>5. Last(n) <= Last(c)
  <2>1. c.mask <= n.mask
    BY <1>1, <1>4
  <2>. QED
    BY <1>1, <1>2, <1>3, <2>1, Laminar
<1>6. InsideAsserts(c, n)
  BY <1>1, <1>2, <1>4, <1>5 DEF InsideAsserts
<1>7. c.mask < BITS
  BY <1>1, <1>4
<1>8. SplitsEvenly(c) /\ SecondHalf(c).mask = c.mask + 1
  BY <1>1, <1>7, Halves DEF SplitsEvenly
<1>9. ASSUME SecondHalf(c).mask = n.mask
      PROVE  SecondHalf(c).first = n.first /\ Last(SecondHalf(c)) = Last(c)
  <2>1. n.mask = c.mask + 1
    BY <1>8, <1>9
  <2>2. SameRange(n, SecondHalf(c)) /\ Last(SecondHalf(c)) = Last(c)
    BY <1>1, <1>2, <1>5, <2>1, LaterHalf
  <2>. QED
    BY <2>2 DEF SameRange
<1>. QED
  BY <1>2, <1>4, <1>5, <1>6, <1>7, <1>8, <1>9 DEF CurrentAsserts

LEMMA TidyDrops ==
    ASSUME NEW c, NEW B, IsABag(B), Tidy(c, B), NEW n \in DOMAIN B
    PROVE  Tidy(c, B (-) SetToBag({n}))
<1>. DEFINE rest == B (-) SetToBag({n})
<1>1. DOMAIN rest \subseteq DOMAIN B
  BY Polled
<1>. HIDE DEF rest
<1>2. Tidy(c, rest)
  BY <1>1 DEF Tidy, Distinct
<1>. QED
  BY <1>2 DEF rest

LEMMA TidyMoves ==
    ASSUME NEW B, IsABag(B), \A k \in DOMAIN B : Proper(k), Distinct(DOMAIN B),
           NEW n, First(B, n)
    PROVE  Tidy(n, B (-) SetToBag({n}))
<1>. DEFINE rest == B (-) SetToBag({n})
<1>1. n \in DOMAIN B
  BY DEF First
<1>2. DOMAIN rest \subseteq DOMAIN B
  BY <1>1, Polled
<1>. HIDE DEF rest
<1>3. Tidy(n, rest)
  BY <1>1, <1>2 DEF Tidy, Distinct, First
<1>. QED
  BY <1>3 DEF rest

LEMMA TidyAdds ==
    ASSUME NEW c, NEW B, IsABag(B), Tidy(c, B), NEW h, Proper(h),
           ~SameRange(c, h), \A k \in DOMAIN B : SameRange(k, h) => k = h,
           c.first <= h.first, h.first = c.first => h.mask <= c.mask
    PROVE  Tidy(c, Queue(B, h))
<1>. DEFINE more == Queue(B, h)
<1>1. DOMAIN more = DOMAIN B \cup {h}
  BY Added
<1>. HIDE DEF more
<1>2. ASSUME NEW n \in {c} \cup DOMAIN more, NEW k \in {c} \cup DOMAIN more, SameRange(n, k)
      PROVE  n = k
  <2>1. SameRange(k, n)
    BY <1>2 DEF SameRange
  <2>. QED
    BY <1>1, <1>2, <2>1 DEF Tidy, Distinct
<1>3. Tidy(c, more)
  BY <1>1, <1>2 DEF Tidy, Distinct
<1>. QED
  BY <1>3 DEF more

LEMMA TidyShrinks ==
    ASSUME NEW c, NEW B, Tidy(c, B), NEW h, Proper(h), h.first = c.first,
           h.mask = c.mask + 1
    PROVE  Tidy(h, B)
<1>1. c.mask \in Nat /\ \A k \in DOMAIN B : k.mask \in Nat
  BY Dimensions DEF Tidy
<1>2. ASSUME NEW k \in DOMAIN B, k.first = h.first PROVE k.mask < h.mask
  BY <1>1, <1>2 DEF Tidy
<1>3. \A k \in DOMAIN B : k.mask < h.mask => k.mask <= h.mask /\ k.mask # h.mask
  BY <1>1
<1>4. \A k \in DOMAIN B : ~SameRange(h, k) /\ ~SameRange(k, h)
  BY <1>2, <1>3 DEF SameRange
<1>5. Distinct({h} \cup DOMAIN B)
  BY <1>4 DEF Tidy, Distinct
<1>. QED
  BY <1>2, <1>3, <1>5 DEF Tidy

-----------------------------------------------------------------------------
(* What a step makes of the set L of networks that are left.                *)

Live == currentNet \cup DOMAIN networks

Left(S) == (\A k \in S : Proper(k)) /\ Distinct(S)

\* c, the beginning of n and of its type, is gone.  No network comes before n.
Forgotten(L, M) ==
    \E c \in L, n \in M :
      /\ M \subseteq L /\ L \subseteq M \cup {c}
      /\ n.first = c.first /\ n.mask <= c.mask /\ n.included = c.included
      /\ \A k \in M : n.first <= k.first /\ (k.first = n.first => k.mask <= n.mask)

\* n, in c and of its type, is gone.  None but c comes before it.
Ignored(L, M) ==
    \E c \in M, n \in L :
      /\ M \subseteq L /\ L \subseteq M \cup {n}
      /\ Within(n, c) /\ n.included = c.included
      /\ \A k \in M \ {c} : n.first <= k.first

\* s is split: the halves that are not there yet join.  Either a network of the other
\* type is the beginning of s, or all others begin after s.
Halved(L, M) ==
    \E s \in L :
      /\ s.mask < BITS
      /\ M \subseteq L \cup {FirstHalf(s), SecondHalf(s)} /\ L \subseteq M \cup {s}
      /\ \A h \in {FirstHalf(s), SecondHalf(s)} : \E y \in M : SameRange(y, h)
      /\ \/ \E c \in L : Within(c, s) /\ c.first = s.first /\ c.included # s.included
         \/ \A k \in L \ {s} : s.first < k.first

LEMMA LeftIsTidy ==
    ASSUME NEW c, NEW B
    PROVE  Tidy(c, B) => Left({c} \cup DOMAIN B)
BY DEF Tidy, Left

LEMMA SplitNextIsTidy ==
    ASSUME NEW c, NEW B, IsABag(B), Tidy(c, B), NEW n \in DOMAIN B, Begins(c, n),
           c.included # n.included,
           NEW rest, rest = B (-) SetToBag({n}),
           NEW upper, upper = IF contains(rest, SecondHalf(n)) THEN rest
                              ELSE Queue(rest, SecondHalf(n)),
           NEW all, all = IF \/ Last(FirstHalf(n)) = Last(c)
                             \/ contains(upper, FirstHalf(n))
                          THEN upper
                          ELSE Queue(upper, FirstHalf(n))
    PROVE  Tidy(c, all) /\ Halved({c} \cup DOMAIN B, {c} \cup DOMAIN all)
<1>. DEFINE low == FirstHalf(n)
            high == SecondHalf(n)
<1>1. /\ n.mask < c.mask /\ n.mask < BITS /\ c.first = n.first /\ NextAsserts(c, n)
      /\ Proper(n) /\ Proper(c)
  BY NextFacts DEF Tidy
<1>2. /\ n.mask \in Nat /\ c.mask \in Nat /\ n.first \in Nat /\ c.first \in Nat
  BY <1>1, Dimensions
<1>3. /\ Proper(low) /\ Proper(high)
      /\ low.mask = n.mask + 1 /\ low.first = n.first /\ high.first > n.first
  BY <1>1, Halves
<1>4. high.first \in Nat
  BY <1>3, Dimensions
<1>5. /\ Tidy(c, rest) /\ IsABag(rest) /\ DOMAIN rest \subseteq DOMAIN B
      /\ DOMAIN B \subseteq DOMAIN rest \cup {n}
  BY TidyDrops, Polled
<1>6. /\ Tidy(c, upper) /\ IsABag(upper) /\ DOMAIN rest \subseteq DOMAIN upper
      /\ DOMAIN upper \subseteq DOMAIN rest \cup {high}
      /\ \E y \in DOMAIN upper : SameRange(y, high)
  <2>1. CASE contains(rest, high)
    <3>1. upper = rest
      BY <2>1
    <3>. QED
      BY <1>5, <2>1, <3>1 DEF contains, BagToSet, SameRange
  <2>2. CASE ~contains(rest, high)
    <3>1. upper = Queue(rest, high)
      BY <2>2
    <3>2. IsABag(upper) /\ DOMAIN upper = DOMAIN rest \cup {high}
      <4>. HIDE DEF high
      <4>1. IsABag(Queue(rest, high)) /\ DOMAIN Queue(rest, high) = DOMAIN rest \cup {high}
        BY <1>5, Added
      <4>. QED
        BY <3>1, <4>1, Zenon
    <3>3. \A k \in DOMAIN rest : ~SameRange(k, high)
      BY <2>2 DEF contains, BagToSet, SameRange
    <3>4. /\ c.first <= high.first /\ c.first # high.first
      BY <1>1, <1>2, <1>3, <1>4
    <3>5. ~SameRange(c, high)
      BY <3>4 DEF SameRange
    <3>. HIDE DEF high
    <3>6. Tidy(c, upper)
      BY <1>3, <1>5, <3>1, <3>3, <3>4, <3>5, TidyAdds
    <3>. QED
      BY <3>2, <3>6 DEF SameRange
  <2>. QED
    BY <2>1, <2>2
<1>7. /\ Tidy(c, all) /\ DOMAIN upper \subseteq DOMAIN all
      /\ DOMAIN all \subseteq DOMAIN upper \cup {low}
      /\ \E y \in {c} \cup DOMAIN all : SameRange(y, low)
  <2>1. CASE Last(low) = Last(c)
    <3>1. all = upper
      BY <2>1
    <3>2. SameRange(c, low)
      BY <1>1, <1>3, <2>1 DEF SameRange, NextAsserts
    <3>. QED
      BY <1>6, <3>1, <3>2
  <2>2. CASE Last(low) # Last(c) /\ contains(upper, low)
    <3>1. all = upper
      BY <2>2
    <3>2. \E y \in DOMAIN upper : SameRange(y, low)
      BY <2>2 DEF contains, BagToSet, SameRange
    <3>. QED
      BY <1>6, <3>1, <3>2
  <2>3. CASE Last(low) # Last(c) /\ ~contains(upper, low)
    <3>1. all = Queue(upper, low)
      BY <2>3
    <3>2. DOMAIN all = DOMAIN upper \cup {low}
      <4>. HIDE DEF low
      <4>1. DOMAIN Queue(upper, low) = DOMAIN upper \cup {low}
        BY <1>6, Added
      <4>. QED
        BY <3>1, <4>1, Zenon
    <3>3. \A k \in DOMAIN upper : ~SameRange(k, low)
      BY <2>3 DEF contains, BagToSet, SameRange
    <3>4. ~SameRange(c, low)
      BY <2>3 DEF SameRange, Last
    <3>5. c.first <= low.first /\ low.mask <= c.mask
      BY <1>1, <1>2, <1>3
    <3>. HIDE DEF low
    <3>6. Tidy(c, all)
      BY <1>3, <1>6, <3>1, <3>3, <3>4, <3>5, TidyAdds
    <3>. QED
      BY <3>2, <3>6 DEF SameRange
  <2>. QED
    BY <2>1, <2>2, <2>3
<1>8. Within(c, n)
  <2>1. n.first <= c.first
    BY <1>1, <1>2
  <2>2. c.first <= Last(c) /\ c.first <= Last(n)
    BY <1>1, ShapedTypes DEF Proper
  <2>3. n.mask <= c.mask /\ c.first <= c.first
    BY <1>1, <1>2
  <2>4. Last(c) <= Last(n)
    BY <1>1, <1>2, <2>1, <2>2, <2>3, Laminar
  <2>. QED
    BY <1>1, <2>1, <2>4 DEF Within
<1>. DEFINE L == {c} \cup DOMAIN B
            M == {c} \cup DOMAIN all
<1>9. /\ M \subseteq L \cup {low, high} /\ L \subseteq M \cup {n} /\ n \in L /\ c \in L
      /\ \A h \in {low, high} : \E y \in M : SameRange(y, h)
  BY <1>5, <1>6, <1>7
<1>10. Halved(L, M)
  BY <1>1, <1>8, <1>9 DEF Halved
<1>. QED
  BY <1>7, <1>10

LEMMA SplitCurrentIsTidy ==
    ASSUME NEW c, NEW B, IsABag(B), Tidy(c, B), NEW n, First(B, n),
           ~Apart(c, n), ~Begins(c, n),
           SecondHalf(c).mask # n.mask => ~Twin(B, SecondHalf(c)),
           NEW all, all = IF SecondHalf(c).mask = n.mask THEN B
                          ELSE Queue(B, SecondHalf(c))
    PROVE  /\ Tidy(FirstHalf(c), all)
           /\ Halved({c} \cup DOMAIN B, {FirstHalf(c)} \cup DOMAIN all)
<1>. DEFINE low == FirstHalf(c)
            high == SecondHalf(c)
<1>1. n \in DOMAIN B
  BY DEF First
<1>2. /\ c.mask < n.mask /\ c.mask < BITS /\ c.first < n.first /\ Last(n) <= Last(c)
      /\ CurrentAsserts(c, n) /\ Proper(c) /\ Proper(n)
  BY <1>1, CurrentFacts DEF Tidy
<1>3. /\ c.mask \in Nat /\ c.first \in Nat /\ n.first \in Nat
  BY <1>2, Dimensions
<1>4. /\ Proper(low) /\ Proper(high) /\ low.mask = c.mask + 1 /\ low.first = c.first
      /\ high.mask = c.mask + 1 /\ high.first > c.first
  BY <1>2, Halves
<1>5. Tidy(low, B)
  BY <1>4, TidyShrinks
<1>6. high.first \in Nat
  BY <1>4, Dimensions
<1>7. /\ Tidy(low, all) /\ DOMAIN B \subseteq DOMAIN all
      /\ DOMAIN all \subseteq DOMAIN B \cup {high}
      /\ \E y \in DOMAIN all : SameRange(y, high)
  <2>1. CASE high.mask = n.mask
    <3>1. all = B
      BY <2>1
    <3>2. SameRange(n, high)
      BY <1>2, <2>1 DEF CurrentAsserts, SameRange
    <3>. QED
      BY <1>1, <1>5, <3>1, <3>2
  <2>2. CASE high.mask # n.mask
    <3>1. all = Queue(B, high)
      BY <2>2
    <3>2. DOMAIN all = DOMAIN B \cup {high}
      BY <3>1, Added
    <3>3. ASSUME NEW k \in DOMAIN B, SameRange(k, high) PROVE k = high
      <4>1. k.included = high.included
        BY <2>2, <3>3 DEF Twin, BagToSet, SameRange
      <4>2. k \in Nets /\ high \in Nets
        BY <1>4 DEF Tidy, Proper, Shaped
      <4>. HIDE DEF high
      <4>. QED
        BY <3>3, <4>1, <4>2 DEF SameRange, Nets
    <3>4. low.first <= high.first /\ low.first # high.first
      BY <1>3, <1>4, <1>6
    <3>5. ~SameRange(low, high)
      BY <3>4 DEF SameRange
    <3>. HIDE DEF low, high
    <3>6. Tidy(low, all)
      BY <1>4, <1>5, <3>1, <3>3, <3>4, <3>5, TidyAdds
    <3>. QED
      BY <3>2, <3>6 DEF SameRange
  <2>. QED
    BY <2>1, <2>2
<1>. DEFINE L == {c} \cup DOMAIN B
            M == {low} \cup DOMAIN all
<1>8. ASSUME NEW k \in L \ {c} PROVE c.first < k.first
  <2>1. k \in DOMAIN B /\ n.first <= k.first /\ k.first \in Nat
    BY <1>8, Dimensions DEF First, Tidy
  <2>. QED
    BY <1>2, <1>3, <2>1
<1>9. /\ M \subseteq L \cup {low, high} /\ L \subseteq M \cup {c} /\ c \in L
      /\ \A h \in {low, high} : \E y \in M : SameRange(y, h)
  BY <1>7 DEF SameRange
<1>10. Halved(L, M)
  BY <1>2, <1>8, <1>9 DEF Halved
<1>. QED
  BY <1>7, <1>10

\* The steps that only move networks, from those left to those done.
Moved == ipsDone' \cup Live' = ipsDone \cup Live /\ Live' \subseteq Live

Replaced ==
    /\ ipsDone' = ipsDone
    /\ Forgotten(Live, Live') \/ Ignored(Live, Live') \/ Halved(Live, Live')

LEMMA TidyStep ==
    ASSUME SweepInv, TidyInv, Next, ~twins'
    PROVE  /\ ~twins /\ TidyInv' /\ pc' # "thrown"
           /\ Moved \/ Replaced
<1>. USE DEF BagToSet
<1>1. CASE Start
  <2>1. /\ ~twins /\ currentNet = {} /\ DOMAIN networks = mIpAddresses /\ ipsDone = {}
        /\ UNCHANGED <<mIpAddresses, ipsDone>>
    BY <1>1 DEF Start, SweepInv, Begun
  <2>2. Waiting(networks) /\ Left(DOMAIN networks)
    BY <2>1 DEF SweepInv, Inputs, Left
  <2>3. CASE Least(networks) = {}
    <3>1. pc' = "done" /\ UNCHANGED <<networks, currentNet>>
      BY <1>1, <2>3 DEF Start
    <3>. QED
      BY <2>1, <3>1 DEF TidyInv, Moved, Live
  <2>4. CASE Least(networks) # {}
    <3>1. PICK n \in Least(networks) :
            /\ pc' = "loop" /\ currentNet' = {n} /\ networks' = networks (-) SetToBag({n})
      BY <1>1, <2>4 DEF Start
    <3>2. First(networks, n) /\ n \in DOMAIN networks
      BY <2>2, LeastIsFirst DEF Waiting, First
    <3>3. Tidy(n, networks')
      BY <2>2, <3>1, <3>2, TidyMoves DEF Waiting, Left
    <3>4. /\ DOMAIN networks' \subseteq DOMAIN networks
          /\ DOMAIN networks \subseteq DOMAIN networks' \cup {n}
      BY <2>2, <3>1, <3>2, Polled DEF Waiting
    <3>. QED
      BY <2>1, <3>1, <3>2, <3>3, <3>4 DEF TidyInv, Moved, Live
  <2>. QED
    BY <2>3, <2>4
<1>2. CASE Iterate
  <2>1. PICK cur \in currentNet :
          \/ LastOne(cur)
          \/ \E n \in Least(networks) :
               \/ Done(cur, n) \/ Forget(cur, n) \/ SplitNext(cur, n)
               \/ Ignore(cur, n) \/ SplitCurrent(cur, n) \/ Throws(cur, n)
    BY <1>2 DEF Iterate
  <2>2. /\ pc = "loop" /\ currentNet = {cur}
        /\ Swept(cur, networks) /\ Behind(ipsDone, cur)
        /\ Waiting(networks) /\ cur \in Shaped /\ Finished(ipsDone)
    BY <1>2 DEF SweepInv, Swept, Iterate
  <2>3. ~twins
    BY <2>1 DEF LastOne, Done, Forget, SplitNext, Ignore, SplitCurrent, Throws
  <2>4. /\ Tidy(cur, networks) /\ IsABag(networks) /\ DOMAIN networks \subseteq Shaped
        /\ Live = {cur} \cup DOMAIN networks
    BY <2>2, <2>3 DEF TidyInv, Waiting, Live
  <2>5. ASSUME LastOne(cur)
        PROVE  TidyInv' /\ pc' # "thrown" /\ Moved
    <3>1. /\ ipsDone' = With(ipsDone, cur) /\ currentNet' = {} /\ pc' = "done"
          /\ networks' = networks
      BY <2>5 DEF LastOne
    <3>2. ipsDone' = ipsDone \cup {cur}
      BY <2>2, <3>1, FinishedGrows
    <3>. QED
      BY <2>2, <3>1, <3>2 DEF TidyInv, Moved, Live
  <2>6. ASSUME NEW n \in Least(networks),
               \/ Done(cur, n) \/ Forget(cur, n) \/ SplitNext(cur, n)
               \/ Ignore(cur, n) \/ SplitCurrent(cur, n) \/ Throws(cur, n)
        PROVE  TidyInv' /\ pc' # "thrown" /\ (Moved \/ Replaced)
    <3>. DEFINE rest == networks (-) SetToBag({n})
    <3>1. First(networks, n) /\ n \in DOMAIN networks
      BY <2>4, LeastIsFirst DEF First
    <3>2. /\ DOMAIN rest \subseteq DOMAIN networks /\ DOMAIN networks \subseteq DOMAIN rest \cup {n}
      BY <2>4, <3>1, Polled
    <3>3. Tidy(n, rest) /\ Tidy(cur, rest)
      BY <2>4, <3>1, TidyMoves, TidyDrops DEF Tidy, Distinct
    <3>. HIDE DEF rest
    <3>4. CASE Done(cur, n)
      <4>1. /\ ipsDone' = With(ipsDone, cur) /\ currentNet' = {n} /\ networks' = rest /\ pc' = pc
        BY <3>4 DEF Done, rest
      <4>2. ipsDone' = ipsDone \cup {cur}
        BY <2>2, <4>1, FinishedGrows
      <4>3. Live' = {n} \cup DOMAIN rest
        BY <4>1 DEF Live
      <4>4. Moved
        BY <2>4, <3>1, <3>2, <4>2, <4>3 DEF Moved
      <4>5. TidyInv'
        BY <3>3, <4>1 DEF TidyInv
      <4>. QED
        BY <2>2, <4>1, <4>4, <4>5
    <3>5. CASE Forget(cur, n)
      <4>1. /\ currentNet' = {n} /\ networks' = rest /\ pc' = pc /\ ipsDone' = ipsDone
            /\ cur.first = n.first /\ cur.mask >= n.mask /\ cur.included = n.included
        BY <3>5 DEF Forget, Begins, rest
      <4>2. Live' = {n} \cup DOMAIN rest
        BY <4>1 DEF Live
      <4>3. n.mask <= cur.mask
        BY <4>1, <2>2, <3>1, ShapedTypes DEF Waiting
      <4>4. Forgotten(Live, Live')
        <5>1. Live' \subseteq Live /\ Live \subseteq Live' \cup {cur} /\ cur \in Live /\ n \in Live'
          BY <2>4, <3>1, <3>2, <4>2
        <5>2. \A k \in Live' : n.first <= k.first /\ (k.first = n.first => k.mask <= n.mask)
          BY <3>1, <3>2, <4>2 DEF First
        <5>. QED
          BY <4>1, <4>3, <5>1, <5>2 DEF Forgotten
      <4>5. TidyInv'
        BY <3>3, <4>1 DEF TidyInv
      <4>. QED
        BY <2>2, <4>1, <4>4, <4>5 DEF Replaced
    <3>6. CASE SplitNext(cur, n)
      <4>. DEFINE upper == IF contains(rest, SecondHalf(n)) THEN rest
                           ELSE Queue(rest, SecondHalf(n))
                  all == IF \/ Last(FirstHalf(n)) = Last(cur)
                            \/ contains(upper, FirstHalf(n))
                         THEN upper
                         ELSE Queue(upper, FirstHalf(n))
      <4>1. /\ Begins(cur, n) /\ cur.included # n.included /\ networks' = all
            /\ UNCHANGED <<currentNet, ipsDone, pc>>
        BY <3>6 DEF SplitNext, rest
      <4>. HIDE DEF upper, all
      <4>2. rest = networks (-) SetToBag({n})
        BY DEF rest
      <4>3. upper = IF contains(rest, SecondHalf(n)) THEN rest ELSE Queue(rest, SecondHalf(n))
        BY DEF upper
      <4>4. all = IF \/ Last(FirstHalf(n)) = Last(cur)
                     \/ contains(upper, FirstHalf(n))
                  THEN upper
                  ELSE Queue(upper, FirstHalf(n))
        BY DEF all
      <4>5. Tidy(cur, all) /\ Halved({cur} \cup DOMAIN networks, {cur} \cup DOMAIN all)
        BY <2>4, <3>1, <4>1, <4>2, <4>3, <4>4, SplitNextIsTidy
      <4>6. Live' = {cur} \cup DOMAIN all
        BY <2>2, <4>1 DEF Live
      <4>7. Halved(Live, Live') /\ TidyInv'
        BY <2>2, <2>4, <4>1, <4>5, <4>6 DEF TidyInv
      <4>. QED
        BY <2>2, <4>1, <4>7 DEF Replaced
    <3>7. CASE Ignore(cur, n)
      <4>1. /\ ~Apart(cur, n) /\ ~Begins(cur, n) /\ cur.included = n.included
            /\ networks' = rest /\ UNCHANGED <<currentNet, ipsDone, pc>>
        BY <3>7 DEF Ignore, rest
      <4>2. Live' = {cur} \cup DOMAIN rest
        BY <2>2, <4>1 DEF Live
      <4>3. cur.mask < n.mask /\ cur.first < n.first /\ Last(n) <= Last(cur)
        BY <2>4, <3>1, <4>1, CurrentFacts
      <4>4. Within(n, cur)
        <5>1. cur.first <= n.first
          BY <4>3, <2>2, <3>1, ShapedTypes DEF Waiting
        <5>. QED
          BY <4>3, <5>1 DEF Within
      <4>5. Ignored(Live, Live')
        <5>1. Live' \subseteq Live /\ Live \subseteq Live' \cup {n} /\ cur \in Live' /\ n \in Live
          BY <2>4, <3>1, <3>2, <4>2
        <5>2. \A k \in Live' \ {cur} : n.first <= k.first
          BY <3>1, <3>2, <4>2 DEF First
        <5>. QED
          BY <4>1, <4>4, <5>1, <5>2 DEF Ignored
      <4>6. TidyInv'
        BY <2>2, <3>3, <4>1 DEF TidyInv
      <4>. QED
        BY <2>2, <4>1, <4>5, <4>6 DEF Replaced
    <3>8. CASE SplitCurrent(cur, n)
      <4>. DEFINE all == IF SecondHalf(cur).mask = n.mask THEN networks
                         ELSE Queue(networks, SecondHalf(cur))
      <4>1. /\ ~Apart(cur, n) /\ ~Begins(cur, n) /\ networks' = all
            /\ currentNet' = {FirstHalf(cur)} /\ UNCHANGED <<ipsDone, pc>>
        BY <3>8 DEF SplitCurrent
      <4>2. SecondHalf(cur).mask # n.mask => ~Twin(networks, SecondHalf(cur))
        BY <3>8 DEF SplitCurrent
      <4>3. all = IF SecondHalf(cur).mask = n.mask THEN networks
                  ELSE Queue(networks, SecondHalf(cur))
        OBVIOUS
      <4>. HIDE DEF all
      <4>4. Tidy(FirstHalf(cur), all) /\ Halved({cur} \cup DOMAIN networks, {FirstHalf(cur)} \cup DOMAIN all)
        BY <2>4, <3>1, <4>1, <4>2, <4>3, SplitCurrentIsTidy
      <4>5. Live' = {FirstHalf(cur)} \cup DOMAIN all
        BY <4>1 DEF Live
      <4>6. Halved(Live, Live') /\ TidyInv'
        BY <2>4, <4>1, <4>4, <4>5 DEF TidyInv
      <4>. QED
        BY <2>2, <4>1, <4>6 DEF Replaced
    <3>9. CASE Throws(cur, n)
      <4>1. CASE Begins(cur, n)
        <5>1. cur.included # n.included /\ ~NextAsserts(cur, n)
          BY <3>9, <4>1 DEF Throws
        <5>. QED
          BY <2>4, <3>1, <4>1, <5>1, NextFacts
      <4>2. CASE ~Begins(cur, n)
        <5>1. ~Apart(cur, n) /\ (~InsideAsserts(cur, n) \/ ~CurrentAsserts(cur, n))
          BY <3>9, <4>2 DEF Throws
        <5>. QED
          BY <2>4, <3>1, <4>2, <5>1, CurrentFacts
      <4>. QED
        BY <4>1, <4>2
    <3>. QED
      BY <2>6, <3>4, <3>5, <3>6, <3>7, <3>8, <3>9
  <2>. QED
    BY <2>1, <2>3, <2>5, <2>6
<1>. QED
  BY <1>1, <1>2 DEF Next

LEMMA TidyAlways == Spec => [](SweepInv /\ TidyInv /\ AssertsHold)
<1>1. Init => SweepInv /\ TidyInv /\ AssertsHold
  BY SweepInit DEF Init, TidyInv, AssertsHold
<1>2. SweepInv /\ TidyInv /\ AssertsHold /\ [Next]_vars
      => SweepInv' /\ TidyInv' /\ AssertsHold'
  <2>1. SUFFICES ASSUME SweepInv, TidyInv, AssertsHold, [Next]_vars
                 PROVE  SweepInv' /\ TidyInv' /\ AssertsHold'
    OBVIOUS
  <2>2. SweepInv'
    BY <2>1, SweepStep
  <2>3. CASE UNCHANGED vars
    BY <2>1, <2>2, <2>3 DEF vars, TidyInv, AssertsHold, Tidy
  <2>4. CASE Next /\ ~twins'
    BY <2>1, <2>2, <2>4, TidyStep DEF AssertsHold
  <2>5. CASE twins'
    BY <2>2, <2>5 DEF TidyInv, AssertsHold
  <2>. QED
    BY <2>1, <2>3, <2>4, <2>5
<1>. QED
  BY <1>1, <1>2, PTL DEF Spec

\* No assertion of the loop fails, unless it has queued a half beside an equal
\* network of the other type (the three assertions of each branch of generateIPList
\* and the one of split).
THEOREM AssertionsHold == Spec => []AssertsHold
<1>. QED
  BY TidyAlways, PTL

-----------------------------------------------------------------------------
(* Sandwiches: a step makes none that was not there.                        *)

SandwichIn(S) ==
    \E n, k, l \in S :
        /\ Within(n, k) /\ Within(k, l) /\ n.first = k.first
        /\ n.included # k.included /\ l.included = n.included

\* What the proofs need to know of the halves of s.
HalfOf(h, s) ==
    /\ Proper(h) /\ h.mask = s.mask + 1 /\ h.included = s.included
    /\ s.first <= h.first /\ h.first <= Last(h) /\ Last(h) <= Last(s)

LEMMA HalvesAreHalves ==
    ASSUME NEW s, Proper(s), s.mask < BITS, NEW h \in {FirstHalf(s), SecondHalf(s)}
    PROVE  HalfOf(h, s)
<1>. DEFINE low == FirstHalf(s)
            high == SecondHalf(s)
<1>1. /\ Proper(low) /\ Proper(high)
      /\ low.mask = s.mask + 1 /\ high.mask = s.mask + 1
      /\ low.included = s.included /\ high.included = s.included
      /\ low.first = s.first /\ high.first > s.first
      /\ Last(high) = Last(s) /\ Last(low) < Last(s)
  BY Halves
<1>. HIDE DEF low, high
<1>2. /\ s.first \in Nat /\ low.first \in Nat /\ high.first \in Nat
      /\ Last(s) \in Nat /\ Last(low) \in Nat /\ Last(high) \in Nat
      /\ low.first <= Last(low) /\ high.first <= Last(high)
  BY <1>1, Dimensions, ShapedTypes DEF Proper
<1>3. HalfOf(low, s) /\ HalfOf(high, s)
  BY <1>1, <1>2 DEF HalfOf
<1>. QED
  BY <1>3 DEF low, high

\* What holds a half and is of the other type holds the whole.
LEMMA HoldsTheWhole ==
    ASSUME NEW L, Left(L), NEW s \in L, NEW h, HalfOf(h, s), NEW y \in L, Within(h, y),
           y.included # s.included
    PROVE  Within(s, y)
<1>1. Proper(s) /\ Proper(y) /\ Proper(h)
  BY DEF Left, HalfOf
<1>2. /\ s.mask \in Nat /\ y.mask \in Nat /\ h.mask \in Nat
      /\ s.first \in Nat /\ y.first \in Nat /\ h.first \in Nat
      /\ Last(s) \in Nat /\ Last(y) \in Nat /\ Last(h) \in Nat
  BY <1>1, Dimensions
<1>3. y.mask <= s.mask
  BY <1>2 DEF Within, HalfOf
<1>4. /\ s.first <= h.first /\ h.first <= Last(s)
      /\ y.first <= h.first /\ h.first <= Last(y)
  BY <1>2 DEF Within, HalfOf
<1>5. y.first <= s.first /\ Last(s) <= Last(y)
  BY <1>1, <1>2, <1>3, <1>4, Laminar
<1>6. y.mask # s.mask
  <2>1. SUFFICES ASSUME y.mask = s.mask PROVE FALSE
    OBVIOUS
  <2>2. SameRange(s, y)
    BY <1>1, <1>2, <1>4, <2>1, SharedRange
  <2>. QED
    BY <2>2 DEF Left, Distinct
<1>. QED
  BY <1>2, <1>3, <1>5, <1>6 DEF Within

LEMMA HalvedSandwich ==
    ASSUME NEW L, NEW M, Left(L), Left(M), Halved(L, M), SandwichIn(M)
    PROVE  SandwichIn(L)
<1>1. PICK s \in L :
        /\ s.mask < BITS
        /\ M \subseteq L \cup {FirstHalf(s), SecondHalf(s)}
        /\ \/ \E c \in L : Within(c, s) /\ c.first = s.first /\ c.included # s.included
           \/ \A k \in L \ {s} : s.first < k.first
  BY DEF Halved
<1>2. PICK n \in M, k \in M, l \in M :
        /\ Within(n, k) /\ Within(k, l) /\ n.first = k.first
        /\ n.included # k.included /\ l.included = n.included
  BY DEF SandwichIn
<1>3. \A x \in M : x \in L \/ HalfOf(x, s)
  BY <1>1, HalvesAreHalves DEF Left
<1>4. /\ s.mask \in Nat /\ n.mask \in Nat /\ k.mask \in Nat /\ l.mask \in Nat
      /\ s.first \in Nat /\ n.first \in Nat /\ k.first \in Nat /\ l.first \in Nat
      /\ Last(s) \in Nat /\ Last(n) \in Nat /\ Last(k) \in Nat /\ Last(l) \in Nat
  BY <1>2, Dimensions DEF Left
<1>5. l.mask < k.mask /\ k.mask < n.mask
  BY <1>2 DEF Within
<1>6. \A x, y \in {n, k, l} : HalfOf(x, s) /\ HalfOf(y, s) => x.mask = y.mask
  BY DEF HalfOf
<1>7. CASE HalfOf(n, s)
  <2>1. ~HalfOf(k, s) /\ ~HalfOf(l, s)
    BY <1>4, <1>5, <1>6, <1>7
  <2>2. k \in L /\ l \in L
    BY <1>3, <2>1
  <2>3. n.included = s.included /\ s.first <= n.first
    BY <1>7 DEF HalfOf
  <2>4. Within(s, k)
    BY <1>2, <1>7, <2>2, <2>3, HoldsTheWhole
  <2>5. s.first = k.first
    BY <1>2, <1>4, <2>3, <2>4 DEF Within
  <2>. QED
    BY <1>2, <2>2, <2>3, <2>4, <2>5 DEF SandwichIn
<1>8. CASE HalfOf(k, s)
  <2>1. ~HalfOf(n, s) /\ ~HalfOf(l, s)
    BY <1>4, <1>5, <1>6, <1>8
  <2>2. n \in L /\ l \in L
    BY <1>3, <2>1
  <2>3. k.included = s.included
    BY <1>8 DEF HalfOf
  <2>4. l.included # s.included
    BY <1>2, <2>3
  <2>5. Within(s, l)
    BY <1>2, <1>8, <2>2, <2>4, HoldsTheWhole
  <2>6. CASE \E c \in L : Within(c, s) /\ c.first = s.first /\ c.included # s.included
    <3>1. PICK c \in L : Within(c, s) /\ c.first = s.first /\ c.included # s.included
      BY <2>6
    <3>2. c.included \in BOOLEAN /\ s.included \in BOOLEAN /\ l.included \in BOOLEAN
      BY <2>2, <3>1, ShapedTypes DEF Left, Proper
    <3>3. l.included = c.included
      BY <2>4, <3>1, <3>2
    <3>. QED
      BY <2>2, <2>5, <3>1, <3>3 DEF SandwichIn
  <2>7. CASE \A x \in L \ {s} : s.first < x.first
    <3>1. s.first < l.first
      BY <2>2, <2>4, <2>7
    <3>2. l.first <= s.first
      BY <2>5 DEF Within
    <3>. QED
      BY <1>4, <3>1, <3>2
  <2>. QED
    BY <1>1, <2>6, <2>7
<1>9. CASE HalfOf(l, s)
  <2>1. ~HalfOf(n, s) /\ ~HalfOf(k, s)
    BY <1>4, <1>5, <1>6, <1>9
  <2>2. n \in L /\ k \in L
    BY <1>3, <2>1
  <2>3. l.included = s.included
    BY <1>9 DEF HalfOf
  <2>4. Within(k, s)
    BY <1>2, <1>4, <1>9 DEF Within, HalfOf
  <2>. QED
    BY <1>2, <2>2, <2>3, <2>4 DEF SandwichIn
<1>10. CASE n \in L /\ k \in L /\ l \in L
  BY <1>2, <1>10 DEF SandwichIn
<1>. QED
  BY <1>3, <1>7, <1>8, <1>9, <1>10

-----------------------------------------------------------------------------
(* What the networks say of an address.                                     *)

Smallest(S, a, x) == x \in Around(S, a) /\ \A k \in Around(S, a) : k.mask <= x.mask

SameAt(S, T, a) ==
    /\ (Around(S, a) = {}) = (Around(T, a) = {})
    /\ Says(S, a) = Says(T, a)

LEMMA SmallestExists ==
    ASSUME NEW S, \A k \in S : Proper(k), NEW a, Around(S, a) # {}
    PROVE  \E x : Smallest(S, a, x)
<1>. DEFINE Rooms == {BITS - k.mask : k \in Around(S, a)}
<1>1. BITS \in Nat
  BY NetworkSpaceAssumption
<1>2. \A k \in Around(S, a) : k.mask \in Nat /\ k.mask <= BITS
  BY Dimensions DEF Around, Proper
<1>3. Rooms \in SUBSET Nat /\ Rooms # {}
  BY <1>1, <1>2
<1>4. PICK r \in Rooms : \A y \in Rooms : r <= y
  BY <1>3, LeastMember
<1>5. PICK x \in Around(S, a) : r = BITS - x.mask
  BY <1>4
<1>6. ASSUME NEW k \in Around(S, a) PROVE k.mask <= x.mask
  <2>1. BITS - x.mask <= BITS - k.mask
    BY <1>4, <1>5
  <2>. QED
    BY <1>1, <1>2, <2>1
<1>. QED
  BY <1>5, <1>6 DEF Smallest

\* The networks around an address differ in size.
LEMMA OneSize ==
    ASSUME NEW S, Left(S), NEW a \in Int, NEW x \in Around(S, a), NEW y \in Around(S, a),
           x.mask = y.mask
    PROVE  x = y
<1>1. /\ Proper(x) /\ Proper(y) /\ x \in S /\ y \in S
      /\ x.first <= a /\ a <= Last(x) /\ y.first <= a /\ a <= Last(y)
  BY DEF Around, Left
<1>2. SameRange(x, y)
  BY <1>1, SharedRange
<1>. QED
  BY <1>1, <1>2 DEF Left, Distinct

\* Two sets say the same of an address if the smallest network of the one has its
\* like in the other.
LEMMA SameLaw ==
    ASSUME NEW L, NEW M, Left(L), Left(M), NEW a \in Int,
           Around(M, a) # {} => Around(L, a) # {},
           \A x : Smallest(L, a, x) => \E y : Smallest(M, a, y) /\ y.included = x.included
    PROVE  SameAt(L, M, a)
<1>1. Around(L, a) # {} => Around(M, a) # {}
  BY SmallestExists DEF Left, Smallest
<1>2. ASSUME Says(L, a) PROVE Says(M, a)
  <2>1. PICK x : Smallest(L, a, x) /\ x.included
    BY <1>2 DEF Says, Smallest
  <2>2. PICK y : Smallest(M, a, y) /\ y.included = x.included
    BY <2>1
  <2>. QED
    BY <2>1, <2>2 DEF Says, Smallest
<1>3. ASSUME Says(M, a) PROVE Says(L, a)
  <2>1. PICK z : Smallest(M, a, z) /\ z.included
    BY <1>3 DEF Says, Smallest
  <2>2. Around(L, a) # {}
    BY <2>1 DEF Smallest
  <2>3. PICK x : Smallest(L, a, x)
    BY <2>2, SmallestExists DEF Left
  <2>4. PICK y : Smallest(M, a, y) /\ y.included = x.included
    BY <2>3
  <2>5. y.mask \in Nat /\ z.mask \in Nat /\ y.mask <= z.mask /\ z.mask <= y.mask
    BY <2>1, <2>4, Dimensions DEF Smallest, Around, Left
  <2>6. y = z
    BY <2>1, <2>4, <2>5, OneSize DEF Smallest
  <2>. QED
    BY <2>1, <2>3, <2>4, <2>6 DEF Says, Smallest
<1>4. Says(L, a) \in BOOLEAN /\ Says(M, a) \in BOOLEAN
  BY DEF Says
<1>. QED
  BY <1>1, <1>2, <1>3, <1>4 DEF SameAt

LEMMA AroundGrows ==
    ASSUME NEW L, NEW M, M \subseteq L, NEW a
    PROVE  Around(M, a) \subseteq Around(L, a)
BY DEF Around

LEMMA ForgottenSame ==
    ASSUME NEW L, NEW M, Left(L), Left(M), Forgotten(L, M), NEW a \in Int
    PROVE  SameAt(L, M, a)
<1>1. PICK c \in L, n \in M :
        /\ M \subseteq L /\ L \subseteq M \cup {c}
        /\ n.first = c.first /\ n.mask <= c.mask /\ n.included = c.included
        /\ \A k \in M : n.first <= k.first /\ (k.first = n.first => k.mask <= n.mask)
  BY DEF Forgotten
<1>2. Around(M, a) \subseteq Around(L, a)
  BY <1>1, AroundGrows
<1>3. ASSUME NEW x, Smallest(L, a, x), x \notin M
      PROVE  Smallest(M, a, n) /\ n.included = x.included
  <2>1. x = c /\ c.first <= a /\ a <= Last(c)
    BY <1>1, <1>3 DEF Smallest, Around
  <2>2. Proper(c) /\ Proper(n) /\ \A k \in M : Proper(k)
    BY <1>1 DEF Left
  <2>3. c.first \in Nat /\ n.first \in Nat /\ Last(c) \in Nat /\ Last(n) \in Nat
    BY <2>2, Dimensions
  <2>4. c.first <= Last(c) /\ n.first <= Last(n)
    BY <2>2, ShapedTypes DEF Proper
  <2>5. Last(c) <= Last(n)
    <3>1. /\ c.first <= c.first /\ n.first <= c.first /\ c.first <= Last(n)
      BY <1>1, <2>3, <2>4
    <3>. QED
      BY <1>1, <2>2, <2>3, <2>4, <3>1, Laminar
  <2>6. n \in Around(M, a)
    BY <1>1, <2>1, <2>3, <2>5 DEF Around
  <2>7. ASSUME NEW k \in Around(M, a) PROVE k.mask <= n.mask
    <3>1. /\ k \in M /\ Proper(k) /\ k.first <= a /\ a <= Last(k) /\ k.mask <= c.mask
      BY <1>2, <1>3, <2>1, <2>2, <2>7 DEF Smallest, Around
    <3>2. k.first <= c.first
      BY <2>1, <2>2, <3>1, Laminar
    <3>3. n.first <= k.first /\ k.first \in Nat
      BY <1>1, <3>1, Dimensions
    <3>4. k.first = n.first
      BY <1>1, <2>3, <3>2, <3>3
    <3>. QED
      BY <1>1, <3>1, <3>4
  <2>. QED
    BY <1>1, <2>1, <2>6, <2>7 DEF Smallest
<1>4. ASSUME NEW x, Smallest(L, a, x) PROVE \E y : Smallest(M, a, y) /\ y.included = x.included
  <2>1. CASE x \in M
    <3>1. Smallest(M, a, x)
      BY <1>2, <1>4, <2>1 DEF Smallest, Around
    <3>. QED
      BY <3>1
  <2>. QED
    BY <1>3, <1>4, <2>1
<1>. QED
  BY <1>2, <1>4, SameLaw

LEMMA IgnoredSame ==
    ASSUME NEW L, NEW M, Left(L), Left(M), Ignored(L, M), ~SandwichIn(L), NEW a \in Int
    PROVE  SameAt(L, M, a)
<1>1. PICK c \in M, n \in L :
        /\ M \subseteq L /\ L \subseteq M \cup {n}
        /\ Within(n, c) /\ n.included = c.included
        /\ \A k \in M \ {c} : n.first <= k.first
  BY DEF Ignored
<1>2. Around(M, a) \subseteq Around(L, a)
  BY <1>1, AroundGrows
<1>3. ASSUME NEW x, Smallest(L, a, x), x \notin M
      PROVE  \E y : Smallest(M, a, y) /\ y.included = x.included
  <2>1. x = n /\ n.first <= a /\ a <= Last(n)
    BY <1>1, <1>3 DEF Smallest, Around
  <2>2. Proper(c) /\ Proper(n)
    BY <1>1 DEF Left
  <2>3. /\ c.first \in Nat /\ n.first \in Nat /\ Last(c) \in Nat /\ Last(n) \in Nat
        /\ c.mask \in Nat /\ n.mask \in Nat
    BY <2>2, Dimensions
  <2>4. c \in Around(M, a)
    BY <1>1, <2>1, <2>3 DEF Within, Around
  <2>5. PICK p : Smallest(M, a, p)
    BY <2>4, SmallestExists DEF Left
  <2>6. p \in M /\ p \in L /\ p \in Around(M, a) /\ p \in Around(L, a)
        /\ p.first <= a /\ a <= Last(p) /\ Proper(p)
    BY <1>2, <2>5 DEF Smallest, Around, Left
  <2>7. p.included = n.included
    <3>1. CASE p = c
      BY <1>1, <3>1
    <3>2. CASE p # c
      <4>1. p.mask \in Nat /\ p.first \in Nat /\ Last(p) \in Nat
        BY <2>6, Dimensions
      <4>2. p.mask <= n.mask /\ c.mask <= p.mask
        BY <1>3, <2>1, <2>4, <2>5, <2>6 DEF Smallest
      <4>3. p.mask # n.mask
        BY <1>3, <2>1, <2>6, OneSize DEF Smallest
      <4>4. c.mask # p.mask
        BY <2>4, <2>6, <3>2, OneSize
      <4>5. c.first <= a /\ a <= Last(c)
        BY <2>4 DEF Around
      <4>6. p.first <= n.first /\ Last(n) <= Last(p)
        BY <2>1, <2>2, <2>6, <4>2, Laminar
      <4>7. c.first <= p.first /\ Last(p) <= Last(c)
        BY <2>2, <2>6, <4>2, <4>5, Laminar
      <4>8. Within(n, p) /\ Within(p, c)
        BY <2>3, <4>1, <4>2, <4>3, <4>4, <4>6, <4>7 DEF Within
      <4>9. n.first = p.first
        BY <1>1, <2>3, <2>6, <3>2, <4>1, <4>6
      <4>. QED
        BY <1>1, <2>6, <4>8, <4>9 DEF SandwichIn
    <3>. QED
      BY <3>1, <3>2
  <2>. QED
    BY <2>1, <2>5, <2>7
<1>4. ASSUME NEW x, Smallest(L, a, x) PROVE \E y : Smallest(M, a, y) /\ y.included = x.included
  <2>1. CASE x \in M
    <3>1. Smallest(M, a, x)
      BY <1>2, <1>4, <2>1 DEF Smallest, Around
    <3>. QED
      BY <3>1
  <2>. QED
    BY <1>3, <1>4, <2>1
<1>. QED
  BY <1>2, <1>4, SameLaw

LEMMA HalvedSame ==
    ASSUME NEW L, NEW M, Left(L), Left(M), Halved(L, M), NEW a \in Int
    PROVE  SameAt(L, M, a)
<1>1. PICK s \in L :
        /\ s.mask < BITS
        /\ M \subseteq L \cup {FirstHalf(s), SecondHalf(s)} /\ L \subseteq M \cup {s}
        /\ \A h \in {FirstHalf(s), SecondHalf(s)} : \E y \in M : SameRange(y, h)
  BY DEF Halved
<1>2. \A x \in M : x \in L \/ HalfOf(x, s)
  BY <1>1, HalvesAreHalves DEF Left
<1>3. /\ \A k \in L : Proper(k) /\ k.mask \in Nat
      /\ \A k \in M : Proper(k) /\ k.mask \in Nat
      /\ Proper(s) /\ s.mask \in Nat /\ s.first \in Nat /\ Last(s) \in Nat
  BY <1>1, Dimensions DEF Left
<1>4. ASSUME NEW k \in Around(M, a), k \notin L
      PROVE  s \in Around(L, a) /\ k.mask = s.mask + 1
  <2>1. /\ k \in M /\ HalfOf(k, s) /\ k.first <= a /\ a <= Last(k)
    BY <1>2, <1>4 DEF Around
  <2>2. k.first \in Nat /\ Last(k) \in Nat
    BY <2>1, Dimensions DEF HalfOf
  <2>. QED
    BY <1>1, <1>3, <2>1, <2>2 DEF HalfOf, Around
<1>5. ASSUME NEW k \in Around(M, a), k \in L
      PROVE  k \in Around(L, a)
  BY <1>5 DEF Around
<1>6. Around(M, a) # {} => Around(L, a) # {}
  BY <1>4, <1>5
<1>7. ASSUME Smallest(L, a, s)
      PROVE  \E y : Smallest(M, a, y) /\ y.included = s.included
  <2>. DEFINE low == FirstHalf(s)
              high == SecondHalf(s)
  <2>1. /\ Proper(low) /\ Proper(high) /\ low.first = s.first
        /\ high.first = Last(low) + 1 /\ Last(high) = Last(s)
        /\ low.mask = s.mask + 1 /\ high.mask = s.mask + 1
    BY <1>1, <1>3, Halves
  <2>2. s.first <= a /\ a <= Last(s)
    BY <1>7 DEF Smallest, Around
  <2>3. PICK h \in {low, high} : h.first <= a /\ a <= Last(h)
    <3>. HIDE DEF low, high
    <3>1. Last(low) \in Nat
      BY <2>1, Dimensions
    <3>2. CASE a <= Last(low)
      BY <2>1, <2>2, <3>2
    <3>3. CASE a > Last(low)
      BY <2>1, <2>2, <3>1, <3>3
    <3>. QED
      BY <3>1, <3>2, <3>3
  <2>4. PICK y \in M : SameRange(y, h)
    BY <1>1, <2>3
  <2>5. y.first = h.first /\ y.mask = s.mask + 1 /\ Last(y) = Last(h)
    BY <2>1, <2>3, <2>4 DEF SameRange, Last
  <2>6. y \in Around(M, a)
    BY <2>3, <2>4, <2>5 DEF Around
  <2>7. y \notin L
    <3>1. SUFFICES ASSUME y \in L PROVE FALSE
      OBVIOUS
    <3>2. y.mask <= s.mask
      BY <1>5, <1>7, <2>6, <3>1 DEF Smallest
    <3>. QED
      BY <1>3, <2>5, <3>2
  <2>8. y.included = s.included
    BY <1>2, <2>4, <2>7 DEF HalfOf
  <2>9. ASSUME NEW k \in Around(M, a) PROVE k.mask <= y.mask
    <3>1. CASE k \in L
      <4>1. k.mask <= s.mask /\ k.mask \in Nat
        BY <1>3, <1>5, <1>7, <2>9, <3>1 DEF Smallest
      <4>. QED
        BY <1>3, <2>5, <4>1
    <3>2. CASE k \notin L
      BY <1>3, <1>4, <2>5, <2>9, <3>2
    <3>. QED
      BY <3>1, <3>2
  <2>. QED
    BY <2>6, <2>8, <2>9 DEF Smallest
<1>8. ASSUME NEW x, Smallest(L, a, x), x # s
      PROVE  Smallest(M, a, x)
  <2>1. x \in M /\ x \in L /\ x \in Around(L, a) /\ x \in Around(M, a) /\ x.mask \in Nat
    BY <1>1, <1>3, <1>8 DEF Smallest, Around
  <2>2. ASSUME NEW k \in Around(M, a) PROVE k.mask <= x.mask
    <3>1. CASE k \in L
      BY <1>5, <1>8, <3>1 DEF Smallest
    <3>2. CASE k \notin L
      <4>1. s \in Around(L, a) /\ k.mask = s.mask + 1
        BY <1>4, <3>2
      <4>2. s.mask <= x.mask
        BY <1>8, <4>1 DEF Smallest
      <4>3. s.mask # x.mask
        BY <1>8, <2>1, <4>1, OneSize
      <4>. QED
        BY <1>3, <2>1, <4>1, <4>2, <4>3
    <3>. QED
      BY <3>1, <3>2
  <2>. QED
    BY <2>1, <2>2 DEF Smallest
<1>9. ASSUME NEW x, Smallest(L, a, x) PROVE \E y : Smallest(M, a, y) /\ y.included = x.included
  BY <1>7, <1>8, <1>9
<1>. QED
  BY <1>6, <1>9, SameLaw

\* What is done holds an address that nothing left holds, or does not hold it.
LEMMA WithDone ==
    ASSUME NEW D, NEW L, NEW M, NEW a \in Int, D \subseteq Shaped, Left(L), Left(M),
           \A d \in D, k \in L \cup M : Last(d) < k.first,
           SameAt(L, M, a)
    PROVE  SameAt(D \cup L, D \cup M, a)
<1>1. CASE Around(D, a) # {}
  <2>1. PICK d \in D : d.first <= a /\ a <= Last(d) /\ Last(d) \in Int
    BY <1>1, ShapedTypes DEF Around
  <2>2. ASSUME NEW k \in L \cup M PROVE ~(k.first <= a)
    <3>1. k.first \in Nat /\ Last(d) < k.first
      BY <2>1, Dimensions DEF Left
    <3>. QED
      BY <2>1, <3>1
  <2>3. Around(D \cup L, a) = Around(D, a) /\ Around(D \cup M, a) = Around(D, a)
    BY <2>2 DEF Around
  <2>. QED
    BY <2>3 DEF SameAt, Says
<1>2. CASE Around(D, a) = {}
  <2>1. Around(D \cup L, a) = Around(L, a) /\ Around(D \cup M, a) = Around(M, a)
    BY <1>2 DEF Around
  <2>. QED
    BY <2>1 DEF SameAt, Says
<1>. QED
  BY <1>1, <1>2

-----------------------------------------------------------------------------
(* The list says what the input says.                                       *)

SandwichInv == ~twins /\ ~Sandwich => ~SandwichIn(Live)

LEMMA LiveIsLeft ==
    ASSUME NEW C, NEW B, C = {} => Left(DOMAIN B), \A c \in C : C = {c} /\ Tidy(c, B)
    PROVE  Left(C \cup DOMAIN B)
<1>1. CASE C = {}
  BY <1>1
<1>2. CASE C # {}
  <2>1. PICK c \in C : C = {c} /\ Tidy(c, B)
    BY <1>2
  <2>. QED
    BY <2>1, LeftIsTidy
<1>. QED
  BY <1>1, <1>2

LEMMA SandwichStep ==
    ASSUME SandwichInv, Live' \subseteq Live \/ Halved(Live, Live'),
           Left(Live), Left(Live'), UNCHANGED mIpAddresses, ~twins
    PROVE  SandwichInv'
<1>1. Sandwich' = Sandwich
  BY DEF Sandwich, Within, Last
<1>2. ASSUME SandwichIn(Live') PROVE SandwichIn(Live)
  <2>1. CASE Live' \subseteq Live
    BY <1>2, <2>1 DEF SandwichIn
  <2>2. CASE Halved(Live, Live')
    BY <1>2, <2>2, HalvedSandwich
  <2>. QED
    BY <2>1, <2>2
<1>3. SandwichIn(Live)' = SandwichIn(Live')
  BY DEF SandwichIn, Within, Last
<1>. QED
  BY <1>1, <1>2, <1>3 DEF SandwichInv

CoverInv == SweepInv /\ TidyInv /\ AssertsHold /\ SandwichInv /\ Covers

LEMMA CoverStep ==
    ASSUME CoverInv, Next, SweepInv', TidyInv', AssertsHold'
    PROVE  SandwichInv' /\ Covers'
<1>1. UNCHANGED mIpAddresses
  BY DEF Next, Start, Iterate, LastOne, Done, Forget, SplitNext, Ignore, SplitCurrent, Throws
<1>2. Sandwich' = Sandwich
  BY <1>1 DEF Sandwich, Within, Last
<1>3. CASE twins' \/ Sandwich
  BY <1>2, <1>3 DEF SandwichInv, Covers
<1>4. CASE ~twins' /\ ~Sandwich
  <2>1. ~twins /\ (Moved \/ Replaced)
    BY <1>4, TidyStep DEF CoverInv
  <2>2. Left(Live)
    <3>1. currentNet = {} => Left(DOMAIN networks)
      BY DEF CoverInv, SweepInv, Begun, Inputs, Left, Distinct
    <3>2. \A c \in currentNet : currentNet = {c} /\ Tidy(c, networks)
      BY <2>1 DEF CoverInv, SweepInv, TidyInv
    <3>. QED
      BY <3>1, <3>2, LiveIsLeft DEF Live
  <2>3. Left(Live')
    <3>1. currentNet' = {} => Left(DOMAIN networks')
      BY <1>1 DEF SweepInv, Begun, Inputs, Left, Distinct, Proper, Shaped, SameRange, Last
    <3>2. \A c \in currentNet' : currentNet' = {c} /\ Tidy(c, networks')
      BY <1>4 DEF SweepInv, TidyInv
    <3>. QED
      BY <3>1, <3>2, LiveIsLeft DEF Live
  <2>4. SandwichInv'
    <3>1. Live' \subseteq Live \/ Halved(Live, Live')
      BY <2>1 DEF Moved, Replaced, Forgotten, Ignored
    <3>. QED
      BY <1>1, <2>1, <2>2, <2>3, <3>1, SandwichStep DEF CoverInv
  <2>5. ~SandwichIn(Live)
    BY <1>4, <2>1 DEF CoverInv, SandwichInv
  <2>6. ASSUME NEW a \in Int
        PROVE  SameAt(ipsDone \cup Live, ipsDone' \cup Live', a)
    <3>1. CASE Moved
      BY <3>1 DEF Moved, SameAt
    <3>2. CASE Replaced
      <4>1. SameAt(Live, Live', a)
        BY <2>2, <2>3, <2>5, <3>2, ForgottenSame, IgnoredSame, HalvedSame DEF Replaced
      <4>2. \A d \in ipsDone, k \in currentNet \cup DOMAIN networks : Last(d) < k.first
        BY Separated DEF CoverInv, SweepInv, Begun
      <4>3. \A d \in ipsDone', k \in currentNet' \cup DOMAIN networks' : Last(d) < k.first
        BY Separated DEF SweepInv, Begun
      <4>4. ipsDone' = ipsDone /\ ipsDone \subseteq Shaped
        BY <3>2 DEF Replaced, CoverInv, SweepInv, Finished
      <4>5. \A d \in ipsDone, k \in Live \cup Live' : Last(d) < k.first
        BY <4>2, <4>3, <4>4 DEF Live
      <4>6. SameAt(ipsDone \cup Live, ipsDone \cup Live', a)
        BY <2>2, <2>3, <4>1, <4>4, <4>5, WithDone
      <4>. QED
        BY <4>4, <4>6
    <3>. QED
      BY <2>1, <3>1, <3>2
  <2>7. \A a \in Addresses : SameAt(ipsDone \cup Live, mIpAddresses, a)
    <3>1. pc # "thrown"
      BY <2>1 DEF CoverInv, AssertsHold
    <3>2. ipsDone \cup Live = ipsDone \cup currentNet \cup BagToSet(networks)
      BY DEF Live, BagToSet
    <3>. QED
      BY <1>4, <2>1, <3>1, <3>2 DEF CoverInv, Covers, SameAt
  <2>8. \A a \in Addresses : SameAt(ipsDone' \cup Live', mIpAddresses, a)
    <3>1. \A a \in Addresses : a \in Int
      BY DEF Addresses
    <3>. QED
      BY <2>6, <2>7, <3>1 DEF SameAt
  <2>9. Covers'
    <3>1. ipsDone' \cup Live' = ipsDone' \cup currentNet' \cup BagToSet(networks')
      BY DEF Live, BagToSet
    <3>. QED
      BY <1>1, <2>8, <3>1 DEF Covers, SameAt, Around, Says, Last, Addresses
  <2>. QED
    BY <2>4, <2>9
<1>. QED
  BY <1>3, <1>4

\* The networks that are left and those that are done say of every address what the
\* input says of it, unless the input has a sandwich or the loop has queued a half
\* beside an equal network of the other type (generateIPList).
THEOREM ListCovers == Spec => []Covers
<1>1. Init => CoverInv
  <2>1. SUFFICES ASSUME Init PROVE CoverInv
    OBVIOUS
  <2>2. SweepInv
    BY <2>1, SweepInit
  <2>3. TidyInv /\ AssertsHold
    BY <2>1 DEF Init, TidyInv, AssertsHold
  <2>4. Live = mIpAddresses /\ ipsDone \cup currentNet \cup BagToSet(networks) = mIpAddresses
    BY <2>1, <2>2 DEF Init, SweepInv, Begun, Live, BagToSet
  <2>5. SandwichInv
    BY <2>4 DEF SandwichInv, SandwichIn, Sandwich
  <2>6. Covers
    BY <2>4 DEF Covers
  <2>. QED
    BY <2>2, <2>3, <2>5, <2>6 DEF CoverInv
<1>2. CoverInv /\ (SweepInv /\ TidyInv /\ AssertsHold)' /\ [Next]_vars => CoverInv'
  <2>1. SUFFICES ASSUME CoverInv, (SweepInv /\ TidyInv /\ AssertsHold)', [Next]_vars
                 PROVE  CoverInv'
    OBVIOUS
  <2>2. CASE Next
    BY <2>1, <2>2, CoverStep DEF CoverInv
  <2>3. CASE UNCHANGED vars
    <3>1. SandwichInv'
      BY <2>1, <2>3 DEF vars, CoverInv, SandwichInv, Sandwich, SandwichIn, Within, Last, Live
    <3>2. Covers'
      BY <2>1, <2>3 DEF vars, CoverInv, Covers, Sandwich, Within, Last, Around, Says, Addresses
    <3>. QED
      BY <2>1, <3>1, <3>2 DEF CoverInv
  <2>. QED
    BY <2>1, <2>2, <2>3
<1>3. CoverInv => Covers
  BY DEF CoverInv
<1>. QED
  BY <1>1, <1>2, <1>3, TidyAlways, PTL DEF Spec
=============================================================================
