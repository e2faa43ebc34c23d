---------------------------- MODULE ValuesProofs ----------------------------
(***************************************************************************)
(* What Values promises for every precision, calendar, range of integers   *)
(* and set of inputs: values of whatever type and depth are read back as   *)
(* they were set, decimals lose less than a unit and only once, and        *)
(* neither transfers nor divisions make money.                             *)
(***************************************************************************)
EXTENDS Values, WellFoundedInduction, TLAPS

-----------------------------------------------------------------------------
(* Induction, for a set of natural numbers.                                *)
LEMMA NatInSet ==
    ASSUME NEW S, 0 \in S, \A n \in Nat : n \in S => n + 1 \in S
    PROVE  Nat \subseteq S
<1> DEFINE Missed == Nat \ S
<1> SUFFICES ASSUME Missed # {} PROVE FALSE
  OBVIOUS
<1>1. IsWellFoundedOn(OpToRel(<, Nat), Nat)
  BY NatLessThanWellFounded, Zenon
<1>2. PICK n \in Missed : \A m \in Missed : ~(<<m, n>> \in OpToRel(<, Nat))
  BY <1>1, WFMin, Zenon
<1>3. n # 0 /\ n - 1 \in Nat /\ n - 1 < n
  OBVIOUS
<1>4. n - 1 \notin Missed
  BY <1>2, <1>3 DEF OpToRel
<1>5. QED
  BY <1>3, <1>4

-----------------------------------------------------------------------------
(* The recursive functions are what their definitions say.  Up to any n    *)
(* there is one function that obeys the definition, and only one.          *)
TensUpTo(f, n) ==
    /\ f \in [0..n -> Nat]
    /\ \A i \in 0..n : f[i] = IF i = 0 THEN 1 ELSE 10 * f[i - 1]

LEMMA TensExist == \A n \in Nat : \E f : TensUpTo(f, n)
<1> DEFINE S == {n \in Nat : \E f : TensUpTo(f, n)}
<1>1. 0 \in S
  <2> DEFINE f == [i \in 0..0 |-> 1]
  <2>1. TensUpTo(f, 0)
    BY DEF TensUpTo
  <2>2. QED
    BY <2>1, Zenon
<1>2. ASSUME NEW n \in Nat, n \in S PROVE n + 1 \in S
  <2>1. PICK f : TensUpTo(f, n)
    BY <1>2
  <2> DEFINE g == [i \in 0..(n + 1) |-> IF i = n + 1 THEN 10 * f[n] ELSE f[i]]
  <2>2. f[n] \in Nat /\ \A i \in 0..n : f[i] \in Nat
    BY <2>1 DEF TensUpTo
  <2>3. g \in [0..(n + 1) -> Nat]
    BY <2>2
  <2>4. ASSUME NEW i \in 0..(n + 1)
        PROVE  g[i] = IF i = 0 THEN 1 ELSE 10 * g[i - 1]
    BY <2>1 DEF TensUpTo
  <2>5. TensUpTo(g, n + 1)
    BY <2>3, <2>4 DEF TensUpTo
  <2>6. \E h : TensUpTo(h, n + 1)
    BY <2>5, Zenon
  <2>7. QED
    BY <2>6
<1>3. QED
  BY <1>1, <1>2, NatInSet

LEMMA TensAgree ==
    ASSUME NEW m \in Nat, NEW n \in Nat, NEW f, NEW g, TensUpTo(f, m), TensUpTo(g, n),
           NEW i \in Nat, i <= m, i <= n
    PROVE  f[i] = g[i]
<1> DEFINE S == {k \in Nat : k <= m /\ k <= n => f[k] = g[k]}
<1>1. 0 \in S
  BY DEF TensUpTo
<1>2. ASSUME NEW k \in Nat, k \in S PROVE k + 1 \in S
  <2>1. SUFFICES ASSUME k + 1 <= m, k + 1 <= n PROVE f[k + 1] = g[k + 1]
    OBVIOUS
  <2>2. k + 1 \in 0..m /\ k + 1 \in 0..n /\ k + 1 # 0 /\ (k + 1) - 1 = k
    BY <2>1
  <2>3. f[k + 1] = 10 * f[k]
    BY <2>2 DEF TensUpTo
  <2>4. g[k + 1] = 10 * g[k]
    BY <2>2 DEF TensUpTo
  <2>5. f[k] = g[k]
    BY <1>2, <2>1
  <2>6. QED
    BY <2>3, <2>4, <2>5
<1>3. QED
  BY <1>1, <1>2, NatInSet

LEMMA TenIs == Ten = [n \in Nat |-> IF n = 0 THEN 1 ELSE 10 * Ten[n - 1]]
<1> DEFINE upTo(n) == CHOOSE f : TensUpTo(f, n)
           G == [n \in Nat |-> upTo(n)[n]]
<1>1. \A n \in Nat : TensUpTo(upTo(n), n)
  BY TensExist, Zenon
<1> HIDE DEF upTo
<1>2. ASSUME NEW n \in Nat PROVE G[n] = IF n = 0 THEN 1 ELSE 10 * G[n - 1]
  <2>1. CASE n = 0
    BY <1>1, <2>1 DEF TensUpTo
  <2>2. CASE n # 0
    <3>1. n - 1 \in Nat /\ TensUpTo(upTo(n), n) /\ TensUpTo(upTo(n - 1), n - 1)
      BY <1>1, <2>2
    <3>2. upTo(n)[n - 1] = upTo(n - 1)[n - 1]
      BY <3>1, TensAgree
    <3>3. upTo(n)[n] = 10 * upTo(n)[n - 1]
      BY <3>1, <2>2 DEF TensUpTo
    <3>4. QED
      BY <3>1, <3>2, <3>3, <2>2
  <2>3. QED
    BY <2>1, <2>2
<1>3. G = [n \in Nat |-> IF n = 0 THEN 1 ELSE 10 * G[n - 1]]
  BY <1>2
<1>4. \E H : H = [n \in Nat |-> IF n = 0 THEN 1 ELSE 10 * H[n - 1]]
  BY <1>3, Zenon
<1>5. QED
  BY <1>4, Zenon DEF Ten

DigitsUpTo(f, n) ==
    /\ f \in [0..n -> Nat]
    /\ \A i \in 0..n : f[i] = IF i < 10 THEN 1 ELSE 1 + f[i \div 10]

LEMMA TenthIsLess ==
    ASSUME NEW n \in Nat, n >= 10
    PROVE  n \div 10 \in Nat /\ n \div 10 < n /\ n \div 10 >= 1
OBVIOUS

LEMMA DigitsExist == \A n \in Nat : \E f : DigitsUpTo(f, n)
<1> DEFINE S == {n \in Nat : \E f : DigitsUpTo(f, n)}
<1>1. 0 \in S
  <2> DEFINE f == [i \in 0..0 |-> 1]
  <2>1. DigitsUpTo(f, 0)
    BY DEF DigitsUpTo
  <2>2. QED
    BY <2>1, Zenon
<1>2. ASSUME NEW n \in Nat, n \in S PROVE n + 1 \in S
  <2>1. PICK f : DigitsUpTo(f, n)
    BY <1>2
  <2> DEFINE new == IF n + 1 < 10 THEN 1 ELSE 1 + f[(n + 1) \div 10]
             g == [i \in 0..(n + 1) |-> IF i = n + 1 THEN new ELSE f[i]]
  <2>2. \A i \in 0..n : f[i] \in Nat
    BY <2>1 DEF DigitsUpTo
  <2>3. new \in Nat
    BY <2>2, TenthIsLess
  <2>4. g \in [0..(n + 1) -> Nat]
    BY <2>2, <2>3
  <2>5. ASSUME NEW i \in 0..(n + 1)
        PROVE  g[i] = IF i < 10 THEN 1 ELSE 1 + g[i \div 10]
    <3>1. i >= 10 => i \div 10 \in 0..n /\ i \div 10 # n + 1
      BY TenthIsLess
    <3>2. CASE i = n + 1
      BY <3>1, <3>2
    <3>3. CASE i \in 0..n
      BY <3>1, <3>3, <2>1 DEF DigitsUpTo
    <3>4. QED
      BY <3>2, <3>3
  <2>6. DigitsUpTo(g, n + 1)
    BY <2>4, <2>5 DEF DigitsUpTo
  <2>7. \E h : DigitsUpTo(h, n + 1)
    BY <2>6, Zenon
  <2>8. QED
    BY <2>7
<1>3. QED
  BY <1>1, <1>2, NatInSet

LEMMA DigitsAgree ==
    ASSUME NEW m \in Nat, NEW n \in Nat, NEW f, NEW g, DigitsUpTo(f, m), DigitsUpTo(g, n),
           NEW i \in Nat, i <= m, i <= n
    PROVE  f[i] = g[i]
<1> DEFINE S == {k \in Nat : \A j \in 0..k : j <= m /\ j <= n => f[j] = g[j]}
<1>1. 0 \in S
  BY DEF DigitsUpTo
<1>2. ASSUME NEW k \in Nat, k \in S PROVE k + 1 \in S
  <2>1. SUFFICES ASSUME k + 1 <= m, k + 1 <= n PROVE f[k + 1] = g[k + 1]
    BY <1>2
  <2>2. k + 1 >= 10 => (k + 1) \div 10 \in 0..k
    BY TenthIsLess
  <2>3. k + 1 >= 10 => f[(k + 1) \div 10] = g[(k + 1) \div 10]
    BY <1>2, <2>1, <2>2
  <2>4. QED
    BY <2>1, <2>3 DEF DigitsUpTo
<1>3. i \in S
  BY <1>1, <1>2, NatInSet
<1>4. QED
  BY <1>3

LEMMA DigitsOfIs ==
    DigitsOf = [n \in Nat |-> IF n < 10 THEN 1 ELSE 1 + DigitsOf[n \div 10]]
<1> DEFINE upTo(n) == CHOOSE f : DigitsUpTo(f, n)
           G == [n \in Nat |-> upTo(n)[n]]
<1>1. \A n \in Nat : DigitsUpTo(upTo(n), n)
  BY DigitsExist, Zenon
<1> HIDE DEF upTo
<1>2. ASSUME NEW n \in Nat PROVE G[n] = IF n < 10 THEN 1 ELSE 1 + G[n \div 10]
  <2>1. CASE n < 10
    BY <1>1, <2>1 DEF DigitsUpTo
  <2>2. CASE ~(n < 10)
    <3>1. PICK k \in Nat : k = n \div 10 /\ k < n
      BY <2>2, TenthIsLess
    <3>2. DigitsUpTo(upTo(n), n) /\ DigitsUpTo(upTo(k), k)
      BY <1>1
    <3>3. upTo(n)[k] = upTo(k)[k]
      BY <3>1, <3>2, DigitsAgree
    <3>4. upTo(n)[n] = 1 + upTo(n)[k]
      BY <3>1, <3>2, <2>2 DEF DigitsUpTo
    <3>5. QED
      BY <3>1, <3>3, <3>4, <2>2
  <2>3. QED
    BY <2>1, <2>2
<1>3. G = [n \in Nat |-> IF n < 10 THEN 1 ELSE 1 + G[n \div 10]]
  BY <1>2
<1>4. \E H : H = [n \in Nat |-> IF n < 10 THEN 1 ELSE 1 + H[n \div 10]]
  BY <1>3, Zenon
<1>5. QED
  BY <1>4, Zenon DEF DigitsOf

-----------------------------------------------------------------------------
(* Products, quotients and remainders.                                     *)
LEMMA TimesMore ==
    ASSUME NEW a \in Int, NEW b \in Int, NEW c \in Nat, a <= b
    PROVE  a * c <= b * c
OBVIOUS

LEMMA TimesMoreThan ==
    ASSUME NEW a \in Int, NEW b \in Int, NEW c \in Nat \ {0}
    PROVE  a < b <=> a * c < b * c
OBVIOUS

LEMMA TimesSame ==
    ASSUME NEW a \in Int, NEW b \in Int, NEW c \in Nat \ {0}, a * c = b * c
    PROVE  a = b
OBVIOUS

LEMMA TimesTimes ==
    ASSUME NEW a \in Int, NEW b \in Int, NEW c \in Int
    PROVE  /\ (a * b) * c = a * (b * c)
           /\ (a * b) * c = (a * c) * b
OBVIOUS

LEMMA DivMod ==
    ASSUME NEW a \in Int, NEW n \in Nat \ {0}
    PROVE  /\ a \div n \in Int
           /\ (a % n) \in 0..(n - 1)
           /\ a = ((a \div n) * n) + (a % n)
OBVIOUS

LEMMA DivParts ==
    ASSUME NEW a \in Int, NEW n \in Nat \ {0}
    PROVE  \E q \in Int : \E r \in 0..(n - 1) :
             a \div n = q /\ (a % n) = r /\ a = q * n + r
<1>1. PICK q \in Int : q = a \div n
  BY DivMod
<1>2. PICK r \in 0..(n - 1) : r = (a % n)
  BY DivMod
<1>3. a = q * n + r
  BY <1>1, <1>2, DivMod
<1>4. QED
  BY <1>1, <1>2, <1>3

LEMMA DivUnique ==
    ASSUME NEW q \in Int, NEW n \in Nat \ {0}, NEW r \in 0..(n - 1)
    PROVE  /\ (q * n + r) \div n = q
           /\ (q * n + r) % n = r
OBVIOUS

-----------------------------------------------------------------------------
(* Powers of ten.                                                          *)
LEMMA TenZero == Ten[0] = 1
BY TenIs

LEMMA TenNext ==
    ASSUME NEW n \in Nat
    PROVE  Ten[n + 1] = 10 * Ten[n]
<1>1. Ten[n + 1] = IF n + 1 = 0 THEN 1 ELSE 10 * Ten[(n + 1) - 1]
  BY TenIs, n + 1 \in Nat
<1>2. n + 1 # 0 /\ (n + 1) - 1 = n
  OBVIOUS
<1>3. QED
  BY <1>1, <1>2

LEMMA TenPositive ==
    ASSUME NEW n \in Nat
    PROVE  Ten[n] \in Nat \ {0}
<1> DEFINE S == {k \in Nat : Ten[k] \in Nat \ {0}}
<1>1. 0 \in S
  BY TenZero
<1>2. ASSUME NEW k \in Nat, k \in S PROVE k + 1 \in S
  BY <1>2, TenNext
<1>3. QED
  BY <1>1, <1>2, NatInSet

LEMMA TenSum ==
    ASSUME NEW m \in Nat, NEW n \in Nat
    PROVE  Ten[m + n] = Ten[m] * Ten[n]
<1> DEFINE S == {k \in Nat : Ten[m + k] = Ten[m] * Ten[k]}
<1>1. 0 \in S
  BY TenZero, TenPositive
<1>2. ASSUME NEW k \in Nat, k \in S PROVE k + 1 \in S
  <2>1. PICK a \in Nat : a = Ten[m]
    BY TenPositive
  <2>2. PICK b \in Nat : b = Ten[k]
    BY TenPositive
  <2>3. Ten[m + k] = a * b
    BY <1>2, <2>1, <2>2
  <2>4. Ten[(m + k) + 1] = 10 * (a * b)
    BY <2>3, TenNext, m + k \in Nat
  <2>5. Ten[k + 1] = 10 * b
    BY <2>2, TenNext
  <2>6. (m + k) + 1 = m + (k + 1) /\ 10 * (a * b) = a * (10 * b)
    OBVIOUS
  <2>7. Ten[m + (k + 1)] = Ten[m] * Ten[k + 1]
    BY <2>1, <2>4, <2>5, <2>6
  <2>8. QED
    BY <2>7
<1>3. QED
  BY <1>1, <1>2, NatInSet

LEMMA TenMore ==
    ASSUME NEW m \in Nat, NEW n \in Nat, m <= n
    PROVE  Ten[m] <= Ten[n]
<1>1. PICK k \in Nat : n = m + k
  <2>1. n - m \in Nat /\ n = m + (n - m)
    OBVIOUS
  <2>2. QED
    BY <2>1
<1>2. Ten[n] = Ten[m] * Ten[k]
  BY <1>1, TenSum
<1>3. PICK a \in Nat : a = Ten[m]
  BY TenPositive
<1>4. PICK b \in Nat \ {0} : b = Ten[k]
  BY TenPositive
<1>5. a <= a * b
  BY TimesMore, 1 <= b
<1>6. QED
  BY <1>2, <1>3, <1>4, <1>5

-----------------------------------------------------------------------------
(* Digits, which is the number k such that 10^(k-1) <= |n| < 10^k.         *)
LEMMA SizeType ==
    ASSUME NEW n \in Int
    PROVE  /\ Size(n) \in Nat
           /\ n >= 0 => Size(n) = n
           /\ n <= 0 => Size(n) = -n
BY DEF Size

LEMMA DigitsOfBounds ==
    ASSUME NEW n \in Nat
    PROVE  /\ DigitsOf[n] \in Nat \ {0}
           /\ n < Ten[DigitsOf[n]]
           /\ DigitsOf[n] = 1 \/ Ten[DigitsOf[n] - 1] <= n
<1> DEFINE Bounded(k) == /\ DigitsOf[k] \in Nat \ {0}
                         /\ k < Ten[DigitsOf[k]]
                         /\ DigitsOf[k] = 1 \/ Ten[DigitsOf[k] - 1] <= k
           S == {k \in Nat : \A j \in 0..k : Bounded(j)}
<1>0. Ten[1] = 10
  BY TenZero, TenNext, 0 + 1 = 1
<1>1. ASSUME NEW k \in Nat, k < 10 PROVE Bounded(k)
  BY <1>0, <1>1, DigitsOfIs
<1>2. 0 \in S
  BY <1>1
<1>3. ASSUME NEW k \in Nat, k \in S PROVE Bounded(k + 1)
  <2>1. CASE k + 1 < 10
    BY <1>1, <2>1
  <2>2. CASE k + 1 >= 10
    <3>1. PICK j \in 0..k : j = (k + 1) \div 10 /\ j >= 1
      BY <2>2, TenthIsLess
    <3>2. 10 * j <= k + 1 /\ k + 1 < 10 * (j + 1)
      BY <3>1
    <3>3. Bounded(j)
      BY <1>3
    <3>4. PICK d \in Nat \ {0} : d = DigitsOf[j]
      BY <3>3
    <3>5. DigitsOf[k + 1] = 1 + d
      BY <2>2, <3>1, <3>4, DigitsOfIs
    <3>6. PICK t \in Nat : t = Ten[d] /\ Ten[d + 1] = 10 * t
      BY TenPositive, TenNext
    <3>7. j < t
      BY <3>3, <3>4, <3>6
    <3>8. k + 1 < Ten[1 + d]
      BY <3>2, <3>6, <3>7, 1 + d = d + 1
    <3>9. t <= k + 1
      <4>1. CASE d = 1
        BY <4>1, <3>6, <1>0, <2>2
      <4>2. CASE d # 1
        <5>1. d - 1 \in Nat /\ (d - 1) + 1 = d
          BY <4>2
        <5>2. Ten[d - 1] <= j
          BY <3>3, <3>4, <4>2
        <5>3. PICK u \in Nat : u = Ten[d - 1] /\ t = 10 * u
          BY <5>1, <3>6, TenPositive, TenNext
        <5>4. QED
          BY <3>2, <5>2, <5>3
      <4>3. QED
        BY <4>1, <4>2
    <3>10. (1 + d) - 1 = d
      OBVIOUS
    <3>11. QED
      BY <3>5, <3>6, <3>8, <3>9, <3>10
  <2>3. QED
    BY <2>1, <2>2
<1>4. ASSUME NEW k \in Nat, k \in S PROVE k + 1 \in S
  <2>1. \A j \in 0..(k + 1) : j = k + 1 \/ j \in 0..k
    OBVIOUS
  <2> HIDE DEF Bounded
  <2>2. QED
    BY <1>4, <1>3, <2>1
<1>5. n \in S
  <2> HIDE DEF S
  <2>1. QED
    BY <1>2, <1>4, NatInSet
<1>6. QED
  BY <1>5

LEMMA DigitsType ==
    ASSUME NEW n \in Int
    PROVE  Digits(n) \in Nat \ {0}
BY SizeType, DigitsOfBounds DEF Digits

LEMMA DigitsAtMost ==
    ASSUME NEW n \in Int, NEW k \in Nat \ {0}
    PROVE  Digits(n) <= k <=> Size(n) < Ten[k]
<1>1. PICK s \in Nat : s = Size(n)
  BY SizeType
<1>2. PICK d \in Nat \ {0} : d = Digits(n)
  BY DigitsType
<1>3. s < Ten[d] /\ (d = 1 \/ Ten[d - 1] <= s)
  BY <1>1, <1>2, DigitsOfBounds DEF Digits
<1>4. Ten[d] \in Nat /\ Ten[k] \in Nat
  BY TenPositive
<1>5. ASSUME d <= k PROVE s < Ten[k]
  BY <1>3, <1>4, <1>5, TenMore
<1>6. ASSUME k < d PROVE ~(s < Ten[k])
  <2>1. d - 1 \in Nat /\ k <= d - 1 /\ d # 1
    BY <1>6
  <2>2. Ten[k] <= Ten[d - 1] /\ Ten[d - 1] \in Nat
    BY <2>1, TenMore, TenPositive
  <2>3. QED
    BY <1>3, <1>4, <2>1, <2>2
<1>7. QED
  BY <1>1, <1>2, <1>5, <1>6

LEMMA DigitsAtLeast ==
    ASSUME NEW n \in Int, n # 0
    PROVE  Ten[Digits(n) - 1] <= Size(n)
<1>1. Digits(n) = 1 \/ Ten[Digits(n) - 1] <= Size(n)
  BY SizeType, DigitsOfBounds DEF Digits
<1>2. Size(n) >= 1
  BY DEF Size
<1>3. 1 - 1 = 0
  OBVIOUS
<1>4. QED
  BY <1>1, <1>2, <1>3, TenZero

-----------------------------------------------------------------------------
(* A decimal at a lower exponent: the order of decimals, of which Exceeds  *)
(* is the opposite, can be read off at any exponent that both have.        *)
Decs == Int \X Int

LEMMA AtType ==
    ASSUME NEW d \in Decs, NEW e \in Int, e <= d[2]
    PROVE  At(d, e) \in Int
<1>1. d[2] - e \in Nat /\ d[1] \in Int
  BY DEF Decs
<1>2. QED
  BY <1>1, TenPositive DEF At

LEMMA AtOwn ==
    ASSUME NEW d \in Decs
    PROVE  At(d, d[2]) = d[1]
<1>1. d[2] - d[2] = 0 /\ d[1] \in Int
  BY DEF Decs
<1>2. QED
  BY <1>1, TenZero DEF At

LEMMA AtLower ==
    ASSUME NEW d \in Decs, NEW e \in Int, NEW g \in Int, g <= e, e <= d[2]
    PROVE  At(d, g) = At(d, e) * Ten[e - g]
<1>1. PICK m \in Nat : m = d[2] - e
  BY DEF Decs
<1>2. PICK n \in Nat : n = e - g
  OBVIOUS
<1>3. d[2] - g = m + n /\ d[1] \in Int
  BY <1>1, <1>2 DEF Decs
<1>4. Ten[m + n] = Ten[m] * Ten[n]
  BY TenSum
<1>5. Ten[m] \in Int /\ Ten[n] \in Int
  <2>1. Ten[m] \in Nat /\ Ten[n] \in Nat
    BY TenPositive
  <2>2. QED
    BY <2>1
<1>6. d[1] * (Ten[m] * Ten[n]) = (d[1] * Ten[m]) * Ten[n]
  BY <1>3, <1>5, TimesTimes
<1>7. QED
  BY <1>1, <1>2, <1>3, <1>4, <1>6 DEF At

AtMost(x, y) == At(x, LowerExponent(x, y)) <= At(y, LowerExponent(x, y))
Equal(x, y) == AtMost(x, y) /\ AtMost(y, x)

LEMMA LowerType ==
    ASSUME NEW x \in Decs, NEW y \in Decs
    PROVE  /\ LowerExponent(x, y) \in Int
           /\ LowerExponent(x, y) <= x[2]
           /\ LowerExponent(x, y) <= y[2]
           /\ LowerExponent(x, y) = LowerExponent(y, x)
           /\ \A e \in Int : e <= x[2] /\ e <= y[2] => e <= LowerExponent(x, y)
BY DEF LowerExponent, Decs

LEMMA AtMostAt ==
    ASSUME NEW x \in Decs, NEW y \in Decs, NEW e \in Int, e <= x[2], e <= y[2]
    PROVE  AtMost(x, y) <=> At(x, e) <= At(y, e)
<1>1. PICK g \in Int : g = LowerExponent(x, y) /\ g <= x[2] /\ g <= y[2] /\ e <= g
  BY LowerType
<1>2. At(x, e) = At(x, g) * Ten[g - e] /\ At(y, e) = At(y, g) * Ten[g - e]
  BY <1>1, AtLower
<1>3. At(x, g) \in Int /\ At(y, g) \in Int
  BY <1>1, AtType
<1>4. PICK t \in Nat \ {0} : t = Ten[g - e]
  BY <1>1, TenPositive, g - e \in Nat
<1>5. At(y, g) < At(x, g) <=> At(y, g) * t < At(x, g) * t
  BY <1>3, TimesMoreThan
<1>6. At(x, g) * t \in Int /\ At(y, g) * t \in Int
  BY <1>3
<1>7. QED
  BY <1>1, <1>2, <1>3, <1>4, <1>5, <1>6 DEF AtMost

LEMMA AtMostTotal ==
    ASSUME NEW x \in Decs, NEW y \in Decs
    PROVE  AtMost(x, x) /\ (AtMost(x, y) \/ AtMost(y, x))
BY LowerType, AtType DEF AtMost

LEMMA AtMostTransitive ==
    ASSUME NEW x \in Decs, NEW y \in Decs, NEW z \in Decs, AtMost(x, y), AtMost(y, z)
    PROVE  AtMost(x, z)
<1>1. PICK g \in Int : g <= x[2] /\ g <= y[2] /\ g <= z[2]
  <2>1. PICK h \in Int : h <= x[2] /\ h <= y[2]
    BY LowerType
  <2>2. z[2] \in Int
    BY DEF Decs
  <2>3. CASE h <= z[2]
    BY <2>1, <2>3
  <2>4. CASE z[2] <= h
    <3>1. z[2] <= x[2] /\ z[2] <= y[2] /\ z[2] <= z[2]
      BY <2>1, <2>2, <2>4 DEF Decs
    <3>2. QED
      BY <2>2, <3>1
  <2>5. QED
    BY <2>2, <2>3, <2>4
<1>2. At(x, g) <= At(y, g) /\ At(y, g) <= At(z, g)
  BY <1>1, AtMostAt
<1>3. At(x, g) \in Int /\ At(y, g) \in Int /\ At(z, g) \in Int
  BY <1>1, AtType
<1>4. At(x, g) <= At(z, g)
  BY <1>2, <1>3
<1>5. QED
  BY <1>1, <1>4, AtMostAt

LEMMA EqualAt ==
    ASSUME NEW x \in Decs, NEW y \in Decs, NEW e \in Int, e <= x[2], e <= y[2]
    PROVE  Equal(x, y) <=> At(x, e) = At(y, e)
BY AtMostAt, AtType DEF Equal

LEMMA EqualTransitive ==
    ASSUME NEW x \in Decs, NEW y \in Decs, NEW z \in Decs, Equal(x, y), Equal(y, z)
    PROVE  Equal(x, z)
BY AtMostTransitive DEF Equal

LEMMA SameNumberIs ==
    ASSUME NEW x \in Decs, NEW y \in Decs
    PROVE  SameNumber(x, y) <=> Equal(x, y)
BY LowerType, AtType DEF SameNumber, Equal, AtMost

(* The number with more digits before the point is the larger one.         *)
LEMMA MoreLeading ==
    ASSUME NEW x \in Decs, NEW y \in Decs, x[1] # 0, Leading(y) < Leading(x),
           NEW e \in Int, e <= x[2], e <= y[2]
    PROVE  Size(At(y, e)) < Size(At(x, e))
<1>0. x[1] \in Int /\ y[1] \in Int /\ x[2] \in Int /\ y[2] \in Int
  BY DEF Decs
<1>1. PICK m \in Nat : m = x[2] - e
  BY <1>0
<1>2. PICK n \in Nat : n = y[2] - e
  BY <1>0
<1>3. PICK s \in Nat : s = Ten[m] /\ s # 0
  BY TenPositive
<1>4. PICK t \in Nat : t = Ten[n] /\ t # 0
  BY TenPositive
<1>5. PICK c \in Nat \ {0} : c = Digits(x[1])
  BY <1>0, DigitsType
<1>6. PICK d \in Nat \ {0} : d = Digits(y[1])
  BY <1>0, DigitsType
<1>7. PICK a \in Nat : a = Size(x[1])
  BY <1>0, SizeType
<1>8. PICK b \in Nat : b = Size(y[1])
  BY <1>0, SizeType
<1>9. PICK k \in Nat : k = c - 1
  OBVIOUS
<1>10. Ten[k] <= a /\ b < Ten[d]
  BY <1>0, <1>5, <1>6, <1>7, <1>8, <1>9, DigitsAtLeast, DigitsAtMost
<1>11. d + n <= k + m
  BY <1>0, <1>1, <1>2, <1>5, <1>6, <1>9 DEF Leading
<1>12. Ten[d + n] = Ten[d] * t /\ Ten[k + m] = Ten[k] * s /\ Ten[d + n] <= Ten[k + m]
  BY <1>3, <1>4, <1>11, TenSum, TenMore, d + n \in Nat, k + m \in Nat
<1>13. PICK u \in Nat : u = Ten[d]
  BY TenPositive
<1>14. PICK w \in Nat : w = Ten[k]
  BY TenPositive
<1>15. b * t < u * t
  BY <1>4, <1>10, <1>13, TimesMoreThan
<1>16. w * s <= a * s
  BY <1>3, <1>10, <1>14, TimesMore
<1>17. b * t < a * s
  BY <1>12, <1>13, <1>14, <1>15, <1>16
<1>18. Size(y[1] * t) = b * t
  BY <1>0, <1>4, <1>8 DEF Size
<1>19. Size(x[1] * s) = a * s
  BY <1>0, <1>3, <1>7 DEF Size
<1>20. QED
  BY <1>1, <1>2, <1>3, <1>4, <1>17, <1>18, <1>19 DEF At

LEMMA SignAt ==
    ASSUME NEW x \in Decs, NEW e \in Int, e <= x[2]
    PROVE  /\ At(x, e) \in Int
           /\ x[1] > 0 <=> At(x, e) > 0
           /\ x[1] < 0 <=> At(x, e) < 0
<1>1. x[1] \in Int
  BY DEF Decs
<1>2. PICK t \in Nat \ {0} : t = Ten[x[2] - e]
  BY TenPositive, x[2] - e \in Nat DEF Decs
<1>3. x[1] > 0 <=> x[1] * t > 0
  BY <1>1, TimesMoreThan, 0 * t = 0
<1>4. x[1] < 0 <=> x[1] * t < 0
  BY <1>1, TimesMoreThan, 0 * t = 0
<1>5. QED
  BY <1>1, <1>2, <1>3, <1>4 DEF At

(* The short cut of Exceeds decides as the numbers themselves do.          *)
LEMMA ExceedsIs ==
    ASSUME NEW x \in Decs, NEW y \in Decs
    PROVE  Exceeds(x, y) <=> ~AtMost(x, y)
<1>0. x[1] \in Int /\ y[1] \in Int
  BY DEF Decs
<1>1. PICK e \in Int : e = LowerExponent(x, y) /\ e <= x[2] /\ e <= y[2]
  BY LowerType
<1>2. PICK a \in Int : /\ a = At(x, e)
                       /\ x[1] > 0 <=> a > 0
                       /\ x[1] < 0 <=> a < 0
  BY <1>1, SignAt
<1>3. PICK b \in Int : /\ b = At(y, e)
                       /\ y[1] > 0 <=> b > 0
                       /\ y[1] < 0 <=> b < 0
  BY <1>1, SignAt
<1>4. AtMost(x, y) <=> a <= b
  BY <1>1, <1>2, <1>3 DEF AtMost
<1>5. Exceeds(x, y) <=>
        IF (x[1] > 0) # (y[1] > 0) THEN x[1] > 0
        ELSE IF 0 \notin {x[1], y[1]} /\ Leading(x) # Leading(y)
        THEN (Leading(x) > Leading(y)) = (x[1] > 0)
        ELSE a > b
  BY <1>1, <1>2, <1>3 DEF Exceeds
<1>6. CASE (x[1] > 0) # (y[1] > 0)
  BY <1>0, <1>2, <1>3, <1>4, <1>5, <1>6
<1>7. CASE (x[1] > 0) = (y[1] > 0) /\ 0 \notin {x[1], y[1]} /\ Leading(x) # Leading(y)
  <2>1. Leading(x) \in Int /\ Leading(y) \in Int
    BY DigitsType DEF Leading, Decs
  <2>2. Leading(y) < Leading(x) => Size(b) < Size(a)
    BY <1>1, <1>2, <1>3, <1>7, MoreLeading
  <2>3. Leading(x) < Leading(y) => Size(a) < Size(b)
    BY <1>1, <1>2, <1>3, <1>7, MoreLeading
  <2>4. QED
    BY <1>0, <1>2, <1>3, <1>4, <1>5, <1>7, <2>1, <2>2, <2>3, SizeType
<1>8. CASE (x[1] > 0) = (y[1] > 0) /\ ~(0 \notin {x[1], y[1]} /\ Leading(x) # Leading(y))
  BY <1>4, <1>5, <1>8
<1>9. QED
  BY <1>6, <1>7, <1>8

-----------------------------------------------------------------------------
(* Flooring loses less than a unit of the exponent, and nothing of a       *)
(* number that is whole there.                                             *)
LEMMA FlooredType ==
    ASSUME NEW d \in Decs, NEW e \in Int
    PROVE  FlooredTo(d, e) \in Decs /\ FlooredTo(d, e)[2] = e
<1>1. CASE d[2] >= e
  BY <1>1, AtType DEF FlooredTo, Decs
<1>2. CASE ~(d[2] >= e)
  <2>1. e - d[2] \in Nat /\ d[1] \in Int
    BY <1>2 DEF Decs
  <2>2. d[1] \div Ten[e - d[2]] \in Int
    BY <2>1, TenPositive, DivMod
  <2>3. QED
    BY <1>2, <2>2 DEF FlooredTo, Decs
<1>3. QED
  BY <1>1, <1>2

LEMMA FlooredBounds ==
    ASSUME NEW d \in Decs, NEW e \in Int, NEW g \in Int, g <= e, g <= d[2]
    PROVE  /\ At(FlooredTo(d, e), g) \in Int
           /\ At(FlooredTo(d, e), g) <= At(d, g)
           /\ At(d, g) < At(FlooredTo(d, e), g) + Ten[e - g]
<1>0. d[1] \in Int /\ d[2] \in Int
  BY DEF Decs
<1>1. PICK f \in Decs : f = FlooredTo(d, e) /\ f[2] = e
  BY FlooredType
<1>2. At(f, g) \in Int /\ At(d, g) \in Int
  BY <1>1, AtType
<1>3. PICK u \in Nat \ {0} : u = Ten[e - g]
  BY TenPositive, e - g \in Nat
<1>4. At(f, g) = f[1] * u
  BY <1>1, <1>3 DEF At
<1>5. CASE d[2] >= e
  <2>1. f[1] = At(d, e)
    BY <1>1, <1>5 DEF FlooredTo
  <2>2. At(d, g) = At(d, e) * u
    BY <1>3, <1>5, AtLower
  <2>3. QED
    BY <1>1, <1>2, <1>3, <1>4, <2>1, <2>2
<1>6. CASE ~(d[2] >= e)
  <2>1. PICK m \in Nat : m = e - d[2]
    BY <1>0, <1>6
  <2>2. PICK n \in Nat : n = d[2] - g
    BY <1>0
  <2>3. e - g = m + n
    BY <1>0, <2>1, <2>2
  <2>4. PICK s \in Nat \ {0} : s = Ten[m]
    BY TenPositive
  <2>5. PICK t \in Nat \ {0} : t = Ten[n]
    BY TenPositive
  <2>6. u = s * t
    BY <1>3, <2>3, <2>4, <2>5, TenSum
  <2>7. PICK q \in Int : q = f[1] /\ q = d[1] \div s
    BY <1>0, <1>1, <1>6, <2>1, <2>4, DivMod DEF FlooredTo
  <2>8. PICK r \in 0..(s - 1) : d[1] = (q * s) + r
    <3>1. PICK p \in Int : \E r \in 0..(s - 1) :
            d[1] \div s = p /\ (d[1] % s) = r /\ d[1] = p * s + r
      BY <1>0, DivParts
    <3>2. QED
      BY <2>7, <3>1
  <2>9. At(d, g) = d[1] * t
    BY <2>2, <2>5 DEF At
  <2>10. ((q * s) + r) * t = (q * (s * t)) + (r * t)
    OBVIOUS
  <2>11. 0 <= r * t /\ r * t < s * t
    BY TimesMore, TimesMoreThan, 0 * t = 0
  <2>12. q * (s * t) \in Int /\ r * t \in Int /\ s * t \in Int
    OBVIOUS
  <2>13. QED
    BY <1>1, <1>3, <1>4, <2>6, <2>7, <2>8, <2>9, <2>10, <2>11, <2>12
<1>7. QED
  BY <1>1, <1>5, <1>6

LEMMA FlooredAtMost ==
    ASSUME NEW d \in Decs, NEW e \in Int
    PROVE  AtMost(FlooredTo(d, e), d)
<1>1. PICK f \in Decs : f = FlooredTo(d, e) /\ f[2] = e
  BY FlooredType
<1>2. PICK g \in Int : g <= f[2] /\ g <= d[2]
  BY LowerType
<1>3. QED
  BY <1>1, <1>2, FlooredBounds, AtMostAt

(* A number with a multiple of 10^e is not changed by flooring it there.   *)
LEMMA FlooredWhole ==
    ASSUME NEW d \in Decs, NEW e \in Int, NEW w \in Decs, e <= w[2], Equal(d, w)
    PROVE  Equal(FlooredTo(d, e), d)
<1>1. PICK f \in Decs : f = FlooredTo(d, e) /\ f[2] = e
  BY FlooredType
<1>2. PICK g \in Int : g <= e /\ g <= d[2]
  <2>1. d[2] \in Int
    BY DEF Decs
  <2>2. CASE e <= d[2]
    BY <2>2
  <2>3. CASE d[2] <= e
    BY <2>1, <2>3
  <2>4. QED
    BY <2>1, <2>2, <2>3
<1>3. g <= w[2]
  BY <1>2 DEF Decs
<1>4. PICK u \in Nat \ {0} : u = Ten[e - g]
  BY <1>2, TenPositive, e - g \in Nat
<1>5. PICK k \in Int : k = At(w, e)
  BY AtType
<1>6. At(d, g) = k * u
  BY <1>2, <1>3, <1>4, <1>5, EqualAt, AtLower
<1>7. PICK j \in Int : j = f[1] /\ At(f, g) = j * u
  BY <1>1, <1>4 DEF At, Decs
<1>8. j * u <= k * u /\ k * u < j * u + u
  BY <1>1, <1>2, <1>4, <1>6, <1>7, FlooredBounds
<1>9. (j + 1) * u = j * u + u
  OBVIOUS
<1>10. k < j + 1 /\ j <= k
  BY <1>8, <1>9, TimesMoreThan
<1>11. j = k
  BY <1>10
<1>12. QED
  BY <1>1, <1>2, <1>6, <1>7, <1>11, EqualAt

-----------------------------------------------------------------------------
(* Stripping the zeros changes the exponent and not the number.            *)
Strips(d, e, n) == d[1] % Ten[n] = 0 /\ d[2] + n <= e
StripsOff(d, e, n) ==
    n \in 0..Digits(d[1]) /\ (n = 0 \/ Strips(d, e, n)) /\ ~Strips(d, e, n + 1)

LEMMA StripsStop ==
    ASSUME NEW d \in Decs, d[1] # 0, NEW e \in Int
    PROVE  \E n : StripsOff(d, e, n)
<1> SUFFICES ASSUME \A n : ~StripsOff(d, e, n) PROVE FALSE
  BY Zenon
<1>0. d[1] \in Int
  BY DEF Decs
<1>1. PICK D \in Nat \ {0} : D = Digits(d[1])
  BY <1>0, DigitsType
<1> DEFINE S == {n \in Nat : n <= D => (n = 0 \/ Strips(d, e, n))}
<1>2. 0 \in S
  OBVIOUS
<1>3. ASSUME NEW n \in Nat, n \in S PROVE n + 1 \in S
  <2>1. CASE n + 1 <= D
    <3>1. n \in 0..D /\ (n = 0 \/ Strips(d, e, n))
      BY <1>3, <2>1
    <3>2. Strips(d, e, n + 1)
      BY <1>1, <3>1, Zenon DEF StripsOff
    <3>3. QED
      BY <3>2
  <2>2. CASE ~(n + 1 <= D)
    BY <2>2
  <2>3. QED
    BY <2>1, <2>2
<1>4. D \in S
  BY <1>2, <1>3, NatInSet
<1>5. d[1] % Ten[D] = 0
  BY <1>4 DEF Strips
<1>6. PICK t \in Nat \ {0} : t = Ten[D]
  BY TenPositive
<1>7. PICK q \in Int : d[1] = q * t
  <2>1. PICK q \in Int : \E r \in 0..(t - 1) :
          d[1] \div t = q /\ (d[1] % t) = r /\ d[1] = q * t + r
    BY <1>0, DivParts
  <2>2. PICK r \in 0..(t - 1) : d[1] \div t = q /\ (d[1] % t) = r /\ d[1] = q * t + r
    BY <2>1
  <2>3. r = 0 /\ q * t \in Int
    BY <1>5, <1>6, <2>2
  <2>4. QED
    BY <2>2, <2>3
<1>8. Size(d[1]) < t
  BY <1>0, <1>1, <1>6, DigitsAtMost
<1>9. -1 * t < q * t /\ q * t < 1 * t
  BY <1>0, <1>7, <1>8 DEF Size
<1>10. -1 < q /\ q < 1
  BY <1>9, TimesMoreThan
<1>11. QED
  BY <1>7, <1>10

LEMMA StrippedIs ==
    ASSUME NEW d \in Decs, d[1] # 0, NEW e \in Int
    PROVE  \E n \in Nat : /\ StripsOff(d, e, n)
                          /\ StrippedTo(d, e) = <<d[1] \div Ten[n], d[2] + n>>
<1> DEFINE n == CHOOSE k \in 0..Digits(d[1]) :
                  (k = 0 \/ Strips(d, e, k)) /\ ~Strips(d, e, k + 1)
<1>1. StripsOff(d, e, n)
  BY StripsStop, Zenon DEF StripsOff
<1>2. StrippedTo(d, e) = <<d[1] \div Ten[n], d[2] + n>>
  BY Zenon DEF StrippedTo, Strips
<1> HIDE DEF n
<1>3. n \in Nat
  BY <1>1, DigitsType DEF StripsOff, Decs
<1>4. QED
  BY <1>1, <1>2, <1>3

LEMMA StrippedSame ==
    ASSUME NEW d \in Decs, d[1] # 0, NEW e \in Int
    PROVE  /\ StrippedTo(d, e) \in Decs
           /\ d[2] <= StrippedTo(d, e)[2]
           /\ StrippedTo(d, e)[1] # 0
           /\ Equal(StrippedTo(d, e), d)
<1>0. d[1] \in Int /\ d[2] \in Int
  BY DEF Decs
<1>1. PICK n \in Nat : /\ StripsOff(d, e, n)
                       /\ StrippedTo(d, e) = <<d[1] \div Ten[n], d[2] + n>>
  BY StrippedIs
<1>2. PICK t \in Nat \ {0} : t = Ten[n]
  BY TenPositive
<1>3. d[1] % t = 0
  BY <1>0, <1>1, <1>2, TenZero DEF StripsOff, Strips
<1>4. PICK q \in Int : q = d[1] \div t /\ d[1] = q * t
  <2>1. PICK q \in Int : \E r \in 0..(t - 1) :
          d[1] \div t = q /\ (d[1] % t) = r /\ d[1] = q * t + r
    BY <1>0, DivParts
  <2>2. PICK r \in 0..(t - 1) : d[1] \div t = q /\ (d[1] % t) = r /\ d[1] = q * t + r
    BY <2>1
  <2>3. r = 0 /\ q * t \in Int
    BY <1>3, <2>2
  <2>4. QED
    BY <2>2, <2>3
<1>5. PICK s \in Decs : s = StrippedTo(d, e) /\ s[1] = q /\ s[2] = d[2] + n
  BY <1>0, <1>1, <1>2, <1>4 DEF Decs
<1>6. At(s, d[2]) = q * t
  BY <1>0, <1>2, <1>5, (d[2] + n) - d[2] = n DEF At
<1>7. At(d, d[2]) = q * t
  BY <1>4, AtOwn
<1>8. d[2] <= s[2] /\ d[2] <= d[2]
  BY <1>0, <1>5
<1>9. Equal(s, d)
  BY <1>0, <1>6, <1>7, <1>8, EqualAt
<1>10. q # 0
  BY <1>4
<1>11. QED
  BY <1>5, <1>8, <1>9, <1>10

LEMMA NormalizedSame ==
    ASSUME NEW d \in Decs, NEW g \in Int, g <= 0, g <= d[2], Upper \in Nat, Lower \in Nat
    PROVE  /\ Normalized(d) \in Decs
           /\ g <= Normalized(d)[2]
           /\ Equal(Normalized(d), d)
<1>0. d[1] \in Int /\ d[2] \in Int
  BY DEF Decs
<1>1. CASE d[1] = 0
  <2>1. PICK z \in Decs : z = <<0, 0>> /\ z = Normalized(d)
    BY <1>1 DEF Normalized, Decs
  <2>2. At(z, g) = 0 /\ At(d, g) = 0
    BY <1>0, <1>1, <2>1, SignAt
  <2>3. QED
    BY <2>1, <2>2, EqualAt
<1>2. CASE d[1] # 0
  <2>1. 2 * Prec \in Int
    BY DEF Prec
  <2>2. PICK z \in Decs : z = Normalized(d) /\ d[2] <= z[2] /\ Equal(z, d)
    BY <1>2, <2>1, StrippedSame DEF Normalized
  <2>3. g <= z[2]
    BY <1>0, <2>2 DEF Decs
  <2>4. QED
    BY <2>2, <2>3
<1>3. QED
  BY <1>1, <1>2

-----------------------------------------------------------------------------
(* Results are cut to Prec digits, which makes none of them larger, and    *)
(* changes none that is whole and has few digits before the point.         *)
LEMMA PrecIs ==
    /\ Upper \in Nat \ {0} /\ Lower \in Nat \ {0}
    /\ Prec \in Nat \ {0} /\ Prec = Upper + Lower
    /\ -Lower \in Int /\ Upper - 1 \in Nat
BY DecimalsAssumption DEF Prec

Cut(d) ==
    IF Digits(d[1]) - Prec > 0 THEN FlooredTo(d, d[2] + (Digits(d[1]) - Prec)) ELSE d

LEMMA InContextIs == \A d : InContext(d) = Cut(Cut(d))
BY DEF InContext, Cut

LEMMA CutType ==
    ASSUME NEW d \in Decs
    PROVE  /\ Cut(d) \in Decs
           /\ AtMost(Cut(d), d)
<1>0. d[1] \in Int /\ d[2] \in Int
  BY DEF Decs
<1>1. PICK k \in Int : k = Digits(d[1]) - Prec
  BY <1>0, DigitsType, PrecIs
<1>2. CASE k > 0
  <2>1. d[2] + k \in Int
    BY <1>0
  <2>2. Cut(d) = FlooredTo(d, d[2] + k)
    BY <1>1, <1>2 DEF Cut
  <2>3. QED
    BY <2>1, <2>2, FlooredType, FlooredAtMost
<1>3. CASE ~(k > 0)
  BY <1>1, <1>3, AtMostTotal DEF Cut
<1>4. QED
  BY <1>2, <1>3

LEMMA ContextAtMost ==
    ASSUME NEW d \in Decs
    PROVE  InContext(d) \in Decs /\ AtMost(InContext(d), d)
<1>1. Cut(d) \in Decs /\ AtMost(Cut(d), d)
  BY CutType
<1>2. Cut(Cut(d)) \in Decs /\ AtMost(Cut(Cut(d)), Cut(d))
  BY <1>1, CutType
<1>3. QED
  BY <1>1, <1>2, AtMostTransitive, InContextIs

LEMMA DivSize ==
    ASSUME NEW a \in Int, NEW t \in Nat \ {0}, NEW p \in Nat, Size(a) < p * t
    PROVE  Size(a \div t) <= p
<1>1. PICK q \in Int, r \in 0..(t - 1) : a \div t = q /\ a = q * t + r
  <2>1. PICK q \in Int : \E r \in 0..(t - 1) :
          a \div t = q /\ (a % t) = r /\ a = q * t + r
    BY DivParts
  <2>2. QED
    BY <2>1
<1>2. p * t \in Nat /\ q * t \in Int
  OBVIOUS
<1>3. a < p * t /\ -(p * t) < a
  BY <1>2 DEF Size
<1>4. q * t < p * t
  BY <1>1, <1>2, <1>3
<1>5. (-(p + 1)) * t = -(p * t) - t
  OBVIOUS
<1>6. (-(p + 1)) * t < q * t
  BY <1>1, <1>2, <1>3, <1>5
<1>7. q < p
  BY <1>4, TimesMoreThan
<1>8. -(p + 1) < q
  BY <1>6, TimesMoreThan, -(p + 1) \in Int
<1>9. QED
  BY <1>1, <1>7, <1>8 DEF Size

LEMMA FlooredSize ==
    ASSUME NEW d \in Decs, NEW k \in Nat, NEW p \in Nat,
           Size(d[1]) < p * Ten[k]
    PROVE  Size(FlooredTo(d, d[2] + k)[1]) <= p
<1>0. d[1] \in Int /\ d[2] \in Int
  BY DEF Decs
<1>1. PICK t \in Nat \ {0} : t = Ten[k]
  BY TenPositive
<1>2. CASE k = 0
  <2>1. d[2] + k = d[2] /\ t = 1
    BY <1>0, <1>1, <1>2, TenZero
  <2>2. FlooredTo(d, d[2])[1] = d[1]
    BY <1>0, AtOwn DEF FlooredTo
  <2>3. QED
    BY <1>0, <1>1, <2>1, <2>2, SizeType
<1>3. CASE k # 0
  <2>1. FlooredTo(d, d[2] + k)[1] = d[1] \div t
    <3>1. ~(d[2] >= d[2] + k) /\ (d[2] + k) - d[2] = k
      BY <1>0, <1>3
    <3>2. QED
      BY <1>1, <3>1 DEF FlooredTo
  <2>2. QED
    BY <1>0, <1>1, <2>1, DivSize
<1>4. QED
  BY <1>2, <1>3

LEMMA CutDigits ==
    ASSUME NEW d \in Decs
    PROVE  Size(Cut(d)[1]) <= Ten[Prec]
<1>0. d[1] \in Int /\ d[2] \in Int
  BY DEF Decs
<1>1. PICK n \in Nat \ {0} : n = Digits(d[1])
  BY <1>0, DigitsType
<1>2. PICK p \in Nat : p = Ten[Prec]
  BY PrecIs, TenPositive
<1>3. CASE n - Prec > 0
  <2>1. PICK k \in Nat : k = n - Prec /\ n = Prec + k
    BY <1>3, PrecIs
  <2>2. Size(d[1]) < Ten[n]
    BY <1>0, <1>1, DigitsAtMost
  <2>3. Ten[n] = p * Ten[k]
    BY <1>2, <2>1, PrecIs, TenSum
  <2>4. Cut(d) = FlooredTo(d, d[2] + k)
    BY <1>1, <1>3, <2>1 DEF Cut
  <2>5. QED
    BY <1>2, <2>2, <2>3, <2>4, FlooredSize
<1>4. CASE ~(n - Prec > 0)
  <2>1. Size(d[1]) < p
    BY <1>0, <1>1, <1>2, <1>4, PrecIs, DigitsAtMost
  <2>2. Cut(d) = d
    BY <1>1, <1>4 DEF Cut
  <2>3. QED
    BY <1>0, <1>2, <2>1, <2>2, SizeType
<1>5. QED
  BY <1>3, <1>4

LEMMA ContextDigits ==
    ASSUME NEW d \in Decs
    PROVE  Digits(InContext(d)[1]) <= Prec
<1>1. PICK c \in Decs : c = Cut(d) /\ Size(c[1]) <= Ten[Prec]
  BY CutType, CutDigits
<1>0. c[1] \in Int /\ c[2] \in Int
  BY DEF Decs
<1>2. InContext(d) = Cut(c)
  BY <1>1, InContextIs
<1>3. PICK n \in Nat \ {0} : n = Digits(c[1])
  BY <1>0, DigitsType
<1>4. CASE n - Prec > 0
  <2>1. PICK p \in Nat \ {0} : p = Ten[Prec]
    BY PrecIs, TenPositive
  <2>2. Ten[Prec + 1] = 10 * p
    BY <2>1, PrecIs, TenNext
  <2>3. PICK s \in Nat : s = Size(c[1]) /\ s <= p
    BY <1>0, <1>1, <2>1, SizeType
  <2>4. n <= Prec + 1
    BY <1>0, <1>3, <2>1, <2>2, <2>3, DigitsAtMost, PrecIs, Prec + 1 \in Nat \ {0}
  <2>5. n - Prec = 1
    BY <1>4, <2>4, PrecIs
  <2>6. Cut(c) = FlooredTo(c, c[2] + 1)
    BY <1>3, <1>4, <2>5 DEF Cut
  <2>7. PICK o \in Nat : o = Ten[Prec - 1] /\ p = 10 * o /\ o # 0
    <3>1. Prec - 1 \in Nat /\ (Prec - 1) + 1 = Prec
      BY PrecIs
    <3>2. QED
      BY <2>1, <3>1, TenNext, TenPositive
  <2>8. Ten[1] = 10
    BY TenZero, TenNext, 0 + 1 = 1
  <2>9. s < (o + 1) * 10 /\ o + 1 \in Nat
    BY <2>3, <2>7
  <2>10. Size(FlooredTo(c, c[2] + 1)[1]) <= o + 1
    BY <2>3, <2>8, <2>9, FlooredSize
  <2>11. FlooredTo(c, c[2] + 1)[1] \in Int
    BY <1>0, FlooredType, c[2] + 1 \in Int DEF Decs
  <2>12. Size(Cut(c)[1]) < Ten[Prec]
    BY <2>1, <2>6, <2>7, <2>10, <2>11, SizeType
  <2>13. QED
    BY <1>2, <2>6, <2>11, <2>12, DigitsAtMost, PrecIs
<1>5. CASE ~(n - Prec > 0)
  BY <1>2, <1>3, <1>5, PrecIs DEF Cut
<1>6. QED
  BY <1>4, <1>5

(* w stands for a number that is whole in the last decimal.                *)
LEMMA CutWhole ==
    ASSUME NEW d \in Decs, NEW w \in Decs, w[2] = -Lower, Size(w[1]) < Ten[Prec], Equal(d, w)
    PROVE  Equal(Cut(d), d)
<1>0. d[1] \in Int /\ d[2] \in Int /\ w[1] \in Int
  BY DEF Decs
<1>1. PICK g \in Int : g = -Lower /\ g = w[2]
  BY PrecIs
<1>2. PICK n \in Nat \ {0} : n = Digits(d[1])
  BY <1>0, DigitsType
<1>3. PICK m \in Int : m = w[1] /\ Size(m) < Ten[Prec]
  BY <1>0
<1>4. CASE n - Prec > 0
  <2>1. PICK k \in Nat : k = n - Prec /\ n = Prec + k /\ k # 0
    BY <1>4, PrecIs
  <2>2. ASSUME g < d[2] + k, d[2] <= g PROVE FALSE
    <3>1. PICK j \in Nat : j = g - d[2] /\ j < k
      BY <1>0, <2>1, <2>2
    <3>2. At(w, d[2]) = m * Ten[j]
      BY <1>1, <1>3, <3>1 DEF At
    <3>3. d[1] = m * Ten[j]
      BY <1>0, <1>1, <2>2, <3>2, AtOwn, EqualAt
    <3>4. PICK t \in Nat \ {0} : t = Ten[j]
      BY TenPositive
    <3>5. PICK p \in Nat : p = Ten[Prec] /\ Size(m) < p
      BY <1>3, PrecIs, TenPositive
    <3>6. PICK s \in Nat : s = Size(m)
      BY SizeType
    <3>7. Size(m * t) = s * t
      BY <3>6 DEF Size
    <3>8. s * t < p * t
      BY <3>5, <3>6, TimesMoreThan
    <3>9. Ten[Prec + j] = p * t
      BY <3>4, <3>5, PrecIs, TenSum
    <3>10. n <= Prec + j
      BY <1>0, <1>2, <3>3, <3>4, <3>7, <3>8, <3>9, DigitsAtMost, PrecIs, Prec + j \in Nat \ {0}
    <3>11. QED
      BY <2>1, <3>1, <3>10, PrecIs
  <2>3. ASSUME g < d[2] PROVE FALSE
    <3>1. At(d, g) = d[1] * Ten[d[2] - g] /\ d[2] - g \in Nat
      BY <1>0, <2>3 DEF At
    <3>2. m = At(d, g)
      BY <1>0, <1>1, <1>3, <2>3, AtOwn, EqualAt
    <3>3. PICK t \in Nat \ {0} : t = Ten[d[2] - g] /\ m = d[1] * t
      BY <3>1, <3>2, TenPositive
    <3>4. PICK s \in Nat : s = Size(d[1])
      BY <1>0, SizeType
    <3>5. Size(d[1] * t) = s * t
      BY <1>0, <3>4 DEF Size
    <3>6. s <= s * t /\ s * t \in Nat
      BY TimesMore, 1 <= t
    <3>7. PICK p \in Nat : p = Ten[Prec] /\ s * t < p
      BY <1>3, <3>3, <3>5, PrecIs, TenPositive
    <3>8. Size(d[1]) < Ten[Prec]
      BY <3>4, <3>6, <3>7
    <3>9. n <= Prec
      BY <1>0, <1>2, <3>8, DigitsAtMost, PrecIs
    <3>10. QED
      BY <1>4, <3>9, PrecIs
  <2>4. d[2] + k <= g /\ d[2] + k \in Int
    BY <1>0, <2>2, <2>3
  <2>5. Cut(d) = FlooredTo(d, d[2] + k)
    BY <1>2, <1>4, <2>1 DEF Cut
  <2>6. QED
    BY <1>1, <2>4, <2>5, FlooredWhole
<1>5. CASE ~(n - Prec > 0)
  BY <1>2, <1>5, AtMostTotal DEF Cut, Equal
<1>6. QED
  BY <1>4, <1>5

LEMMA ContextWhole ==
    ASSUME NEW d \in Decs, NEW w \in Decs, w[2] = -Lower, Size(w[1]) < Ten[Prec], Equal(d, w)
    PROVE  Equal(InContext(d), d)
<1>1. PICK c \in Decs : c = Cut(d)
  BY CutType
<1>2. Equal(c, d)
  BY <1>1, CutWhole
<1>3. Equal(c, w)
  BY <1>2, EqualTransitive
<1>4. Equal(Cut(c), c) /\ Cut(c) \in Decs
  BY <1>3, CutWhole, CutType
<1>5. QED
  BY <1>1, <1>2, <1>4, EqualTransitive, InContextIs

-----------------------------------------------------------------------------
(* fix_precision(): the maximum, the number floored in the last decimal,   *)
(* or the number as it is.                                                 *)
LEMMA MaxType == MaxDecimal \in Decs /\ MaxDecimal[2] = 0 /\ MaxDecimal[1] = Ten[Upper - 1]
BY PrecIs, TenPositive DEF MaxDecimal, Decs

FixedAs(d, b) ==
    \/ /\ ~AtMost(d, MaxDecimal)
       /\ b = MaxDecimal
    \/ /\ AtMost(d, MaxDecimal)
       /\ ShouldRound(d)
       /\ Digits(FlooredTo(d, -Lower)[1]) <= Prec
       /\ b = Normalized(FlooredTo(d, -Lower))
    \/ /\ AtMost(d, MaxDecimal)
       /\ ~ShouldRound(d)
       /\ b = d

LEMMA FixedIs ==
    ASSUME NEW d \in Decs
    PROVE  IsDecimal(FixPrecision(d)) => FixedAs(d, FixPrecision(d)[2])
<1>1. Exceeds(d, MaxDecimal) <=> ~AtMost(d, MaxDecimal)
  BY MaxType, ExceedsIs
<1>2. CASE ~AtMost(d, MaxDecimal)
  BY <1>1, <1>2 DEF FixedAs, FixPrecision
<1>3. CASE AtMost(d, MaxDecimal) /\ ShouldRound(d)
  <2>1. FixPrecision(d) = Quantized(d, -Lower)
    BY <1>1, <1>3 DEF FixPrecision
  <2>2. CASE Digits(FlooredTo(d, -Lower)[1]) > Prec
    BY <2>1, <2>2 DEF Quantized, IsDecimal
  <2>3. CASE ~(Digits(FlooredTo(d, -Lower)[1]) > Prec)
    <3>1. FixPrecision(d) = <<"Decimal", Normalized(FlooredTo(d, -Lower))>>
      BY <2>1, <2>3 DEF Quantized
    <3>2. Digits(FlooredTo(d, -Lower)[1]) \in Nat
      BY PrecIs, FlooredType, DigitsType DEF Decs
    <3>3. QED
      BY <1>3, <2>3, <3>1, <3>2, PrecIs DEF FixedAs
  <2>4. QED
    BY <2>2, <2>3
<1>4. CASE AtMost(d, MaxDecimal) /\ ~ShouldRound(d)
  BY <1>1, <1>4 DEF FixedAs, FixPrecision
<1>5. QED
  BY <1>2, <1>3, <1>4

LEMMA FixedConversely ==
    ASSUME NEW d \in Decs, NEW b, FixedAs(d, b)
    PROVE  IsDecimal(FixPrecision(d)) /\ FixPrecision(d)[2] = b
<1>1. Exceeds(d, MaxDecimal) <=> ~AtMost(d, MaxDecimal)
  BY MaxType, ExceedsIs
<1>2. CASE ~AtMost(d, MaxDecimal)
  BY <1>1, <1>2 DEF FixedAs, FixPrecision, IsDecimal
<1>3. CASE AtMost(d, MaxDecimal) /\ ShouldRound(d)
  <2>1. FixPrecision(d) = Quantized(d, -Lower)
    BY <1>1, <1>3 DEF FixPrecision
  <2>2. Digits(FlooredTo(d, -Lower)[1]) <= Prec /\ b = Normalized(FlooredTo(d, -Lower))
    BY <1>3 DEF FixedAs
  <2>3. Digits(FlooredTo(d, -Lower)[1]) \in Nat
    BY PrecIs, FlooredType, DigitsType DEF Decs
  <2>4. Quantized(d, -Lower) = <<"Decimal", b>>
    BY <2>2, <2>3, PrecIs DEF Quantized
  <2>5. QED
    BY <2>1, <2>4 DEF IsDecimal
<1>4. CASE AtMost(d, MaxDecimal) /\ ~ShouldRound(d)
  BY <1>1, <1>4 DEF FixedAs, FixPrecision, IsDecimal
<1>5. QED
  BY <1>2, <1>3, <1>4

LEMMA MaxIsFixed == ~ShouldRound(MaxDecimal)
<1>1. PICK n \in Nat \ {0} : n = Digits(MaxDecimal[1])
  BY MaxType, DigitsType DEF Decs
<1>2. Plain \in Nat
  BY DecimalsAssumption
<1>3. PICK z \in Int : z = MaxDecimal[2] /\ z <= 0 /\ z >= 0
  BY MaxType
<1>4. CharsAfterPoint(MaxDecimal) = -z
  BY <1>1, <1>2, <1>3 DEF CharsAfterPoint
<1>5. QED
  BY <1>3, <1>4, PrecIs DEF ShouldRound

(* A number floored in the last decimal, with the zeros at its end gone.   *)
LEMMA RoundedIs ==
    ASSUME NEW d \in Decs, NEW f \in Decs, f = FlooredTo(d, -Lower)
    PROVE  /\ Normalized(f) \in Decs
           /\ -Lower <= Normalized(f)[2]
           /\ Equal(Normalized(f), f)
           /\ AtMost(Normalized(f), d)
           /\ FlooredTo(Normalized(f), -Lower) = f
<1>1. PICK g \in Int : g = -Lower /\ g <= 0
  BY PrecIs
<1>2. f = FlooredTo(d, g) /\ f[2] = g
  BY <1>1, FlooredType
<1>3. PICK r \in Decs : r = Normalized(f) /\ g <= r[2] /\ Equal(r, f)
  <2>1. Upper \in Nat /\ Lower \in Nat /\ g <= f[2]
    BY <1>1, <1>2, PrecIs
  <2>2. Normalized(f) \in Decs /\ g <= Normalized(f)[2] /\ Equal(Normalized(f), f)
    BY <1>1, <2>1, NormalizedSame
  <2>3. QED
    BY <2>2
<1>4. AtMost(f, d)
  BY <1>2, FlooredAtMost
<1>5. AtMost(r, d)
  BY <1>3, <1>4, AtMostTransitive DEF Equal
<1>6. At(r, g) = f[1]
  BY <1>2, <1>3, EqualAt, AtOwn
<1>7. FlooredTo(r, g) = <<f[1], g>>
  BY <1>3, <1>6, r[2] >= g DEF FlooredTo, Decs
<1>8. f = <<f[1], f[2]>>
  BY DEF Decs
<1>9. QED
  BY <1>1, <1>2, <1>3, <1>5, <1>7, <1>8

LEMMA FixedType ==
    ASSUME NEW d \in Decs, NEW b, FixedAs(d, b)
    PROVE  b \in Decs /\ AtMost(b, d) /\ AtMost(b, MaxDecimal)
<1>1. CASE b = MaxDecimal /\ ~AtMost(d, MaxDecimal)
  BY <1>1, MaxType, AtMostTotal
<1>2. CASE AtMost(d, MaxDecimal) /\ b = Normalized(FlooredTo(d, -Lower))
  <2>1. PICK f \in Decs : f = FlooredTo(d, -Lower)
    BY PrecIs, FlooredType
  <2>2. b \in Decs /\ AtMost(b, d)
    BY <1>2, <2>1, RoundedIs
  <2>3. QED
    BY <1>2, <2>2, MaxType, AtMostTransitive
<1>3. CASE AtMost(d, MaxDecimal) /\ b = d
  BY <1>3, AtMostTotal
<1>4. QED
  BY <1>1, <1>2, <1>3 DEF FixedAs

(* What was fixed once stays as it is.                                     *)
LEMMA FixedOnce ==
    ASSUME NEW d \in Decs, NEW b, FixedAs(d, b)
    PROVE  FixedAs(b, b)
<1>1. b \in Decs /\ AtMost(b, MaxDecimal)
  BY FixedType
<1>2. CASE ~ShouldRound(b)
  BY <1>1, <1>2 DEF FixedAs
<1>3. CASE ShouldRound(b)
  <2>1. CASE b = MaxDecimal
    BY <1>3, <2>1, MaxIsFixed
  <2>2. CASE /\ Digits(FlooredTo(d, -Lower)[1]) <= Prec
             /\ b = Normalized(FlooredTo(d, -Lower))
    <3>1. PICK f \in Decs : f = FlooredTo(d, -Lower)
      BY PrecIs, FlooredType
    <3>2. FlooredTo(b, -Lower) = f
      BY <2>2, <3>1, RoundedIs
    <3>3. QED
      BY <1>1, <1>3, <2>2, <3>1, <3>2 DEF FixedAs
  <2>3. CASE b = d /\ ~ShouldRound(d)
    BY <1>3, <2>3
  <2>4. QED
    BY <2>1, <2>2, <2>3 DEF FixedAs
<1>4. QED
  BY <1>2, <1>3

(* A decimal on disk is at most the one in the cache, and smaller by less  *)
(* than a unit of the last decimal or the maximum.                         *)
LEMMA PlusIs ==
    ASSUME NEW x \in Decs, NEW y \in Decs
    PROVE  /\ Plus(x, y) \in Decs
           /\ \A g \in Int : g <= x[2] /\ g <= y[2] =>
                /\ g <= Plus(x, y)[2]
                /\ At(Plus(x, y), g) = At(x, g) + At(y, g)
<1>1. PICK e \in Int : e = LowerExponent(x, y) /\ e <= x[2] /\ e <= y[2]
  BY LowerType
<1>2. PICK a \in Int : a = At(x, e)
  BY <1>1, AtType
<1>3. PICK b \in Int : b = At(y, e)
  BY <1>1, AtType
<1>4. PICK s \in Decs : s = Plus(x, y) /\ s[1] = a + b /\ s[2] = e
  <2>1. Plus(x, y) = <<a + b, e>>
    BY <1>1, <1>2, <1>3 DEF Plus
  <2>2. QED
    BY <2>1 DEF Decs
<1>5. ASSUME NEW g \in Int, g <= x[2], g <= y[2]
      PROVE  g <= s[2] /\ At(s, g) = At(x, g) + At(y, g)
  <2>1. g <= e
    BY <1>1, <1>5, LowerType
  <2>2. PICK t \in Nat : t = Ten[e - g]
    BY <2>1, TenPositive, e - g \in Nat
  <2>3. At(x, g) = a * t /\ At(y, g) = b * t
    BY <1>1, <1>2, <1>3, <2>1, <2>2, AtLower
  <2>4. At(s, g) = (a + b) * t
    BY <1>4, <2>2 DEF At
  <2>5. (a + b) * t = a * t + b * t
    OBVIOUS
  <2>6. QED
    BY <1>4, <2>1, <2>3, <2>4, <2>5
<1>6. QED
  BY <1>4, <1>5

LEMMA UnitType == Unit \in Decs /\ Unit[2] = -Lower /\ Unit[1] = 1
BY PrecIs DEF Unit, Decs

LEMMA LessThanUnit ==
    ASSUME NEW d \in Decs, NEW b, FixedAs(d, b)
    PROVE  /\ ~Exceeds(b, d)
           /\ \/ Exceeds(Plus(b, Unit), d)
              \/ Exceeds(d, MaxDecimal) /\ SameNumber(b, MaxDecimal)
<1>1. b \in Decs /\ AtMost(b, d)
  BY FixedType
<1>2. ~Exceeds(b, d)
  BY <1>1, ExceedsIs
<1>3. PICK s \in Decs : s = Plus(b, Unit)
  BY <1>1, UnitType, PlusIs
<1>4. PICK h \in Int : h = -Lower /\ h = Unit[2]
  BY PrecIs, UnitType
<1>5. PICK g \in Int : g <= b[2] /\ g <= d[2] /\ g <= h
  <2>1. PICK i \in Int : i <= b[2] /\ i <= d[2]
    BY <1>1, LowerType
  <2>2. CASE i <= h
    BY <2>1, <2>2
  <2>3. CASE h <= i
    <3>1. b[2] \in Int /\ d[2] \in Int
      BY <1>1 DEF Decs
    <3>2. h <= b[2] /\ h <= d[2]
      BY <2>1, <2>3, <3>1
    <3>3. QED
      BY <3>2
  <2>4. QED
    BY <2>2, <2>3
<1>6. PICK u \in Nat \ {0} : u = Ten[h - g]
  BY <1>5, TenPositive, h - g \in Nat
<1>7. At(Unit, g) = u
  BY <1>4, <1>6, UnitType DEF At
<1>8. g <= s[2] /\ At(s, g) = At(b, g) + u
  BY <1>1, <1>3, <1>4, <1>5, <1>7, PlusIs, UnitType
<1>9. At(b, g) \in Int /\ At(d, g) \in Int
  BY <1>1, <1>5, AtType
<1>10. CASE b = MaxDecimal /\ ~AtMost(d, MaxDecimal)
  BY <1>2, <1>10, MaxType, ExceedsIs, SameNumberIs, AtMostTotal DEF Equal
<1>11. CASE b = Normalized(FlooredTo(d, -Lower))
  <2>1. PICK f \in Decs : f = FlooredTo(d, h) /\ f[2] = h
    BY FlooredType
  <2>2. Equal(b, f)
    BY <1>4, <1>11, <2>1, RoundedIs
  <2>3. At(b, g) = At(f, g)
    BY <1>1, <1>5, <2>1, <2>2, EqualAt
  <2>4. At(d, g) < At(f, g) + u
    BY <1>5, <1>6, <2>1, FlooredBounds
  <2>5. ~(At(s, g) <= At(d, g))
    BY <1>8, <1>9, <2>3, <2>4
  <2>6. Exceeds(s, d)
    BY <1>5, <1>8, <2>5, AtMostAt, ExceedsIs
  <2>7. QED
    BY <1>2, <1>3, <2>6
<1>12. CASE b = d
  <2>1. ~(At(s, g) <= At(d, g))
    BY <1>8, <1>9, <1>12
  <2>2. Exceeds(s, d)
    BY <1>5, <1>8, <2>1, AtMostAt, ExceedsIs
  <2>3. QED
    BY <1>2, <1>3, <2>2
<1>13. QED
  BY <1>10, <1>11, <1>12 DEF FixedAs

-----------------------------------------------------------------------------
(* Whoever divides by a positive number and multiplies by it again has no  *)
(* more than before.                                                       *)
Multiplied(x, y) == <<x[1] * y[1], x[2] + y[2]>>

LEMMA TimesAt ==
    ASSUME NEW x \in Decs, NEW y \in Decs, NEW e \in Int, e <= x[2]
    PROVE  /\ Multiplied(x, y) \in Decs
           /\ e + y[2] \in Int
           /\ e + y[2] <= Multiplied(x, y)[2]
           /\ At(Multiplied(x, y), e + y[2]) = At(x, e) * y[1]
<1>1. PICK a \in Int, b \in Int : x[1] = a /\ x[2] = b
  BY DEF Decs
<1>2. PICK c \in Int, h \in Int : y[1] = c /\ y[2] = h
  BY DEF Decs
<1>3. PICK z \in Decs : z = Multiplied(x, y) /\ z[1] = a * c /\ z[2] = b + h
  <2>1. Multiplied(x, y) = <<a * c, b + h>>
    BY <1>1, <1>2 DEF Multiplied
  <2>2. a * c \in Int /\ b + h \in Int
    OBVIOUS
  <2>3. QED
    BY <2>1, <2>2 DEF Decs
<1>4. (b + h) - (e + h) = b - e /\ b - e \in Nat /\ e + h <= b + h
  BY <1>1
<1>5. PICK t \in Nat : t = Ten[b - e]
  BY <1>4, TenPositive
<1>6. At(z, e + h) = (a * c) * t
  BY <1>3, <1>4, <1>5 DEF At
<1>7. At(x, e) = a * t
  BY <1>1, <1>5 DEF At
<1>8. (a * c) * t = (a * t) * c
  BY TimesTimes
<1>9. QED
  BY <1>2, <1>3, <1>4, <1>6, <1>7, <1>8

LEMMA TimesAtMost ==
    ASSUME NEW x \in Decs, NEW z \in Decs, AtMost(x, z), NEW y \in Decs, y[1] > 0
    PROVE  AtMost(Multiplied(x, y), Multiplied(z, y))
<1>1. PICK e \in Int : e <= x[2] /\ e <= z[2]
  BY LowerType
<1>2. PICK a \in Int : a = At(x, e)
  BY <1>1, AtType
<1>3. PICK b \in Int : b = At(z, e)
  BY <1>1, AtType
<1>4. PICK c \in Nat : c = y[1]
  BY DEF Decs
<1>5. a <= b
  BY <1>1, <1>2, <1>3, AtMostAt
<1>6. a * c <= b * c
  BY <1>5, TimesMore
<1>7. /\ Multiplied(x, y) \in Decs /\ Multiplied(z, y) \in Decs
      /\ e + y[2] \in Int /\ e + y[2] <= Multiplied(x, y)[2] /\ e + y[2] <= Multiplied(z, y)[2]
      /\ At(Multiplied(x, y), e + y[2]) = a * c
      /\ At(Multiplied(z, y), e + y[2]) = b * c
  BY <1>1, <1>2, <1>3, <1>4, TimesAt
<1>8. QED
  BY <1>6, <1>7, AtMostAt

(* The quotient as divmod() gives it, before the CONTEXT cuts it.          *)
LEMMA WholeQuotientAtMost ==
    ASSUME NEW x \in Decs, NEW y \in Decs, y[1] > 0, NEW shift \in Int,
           NEW dividend, dividend = Raised(x[1], shift),
           NEW divisor, divisor = Raised(y[1], -shift),
           NEW whole, whole = <<dividend \div divisor, (x[2] - y[2]) - shift>>
    PROVE  /\ dividend \in Int /\ divisor \in Nat \ {0}
           /\ whole \in Decs
           /\ AtMost(Multiplied(whole, y), x)
           /\ x[1] # 0 => dividend # 0
<1>1. PICK a \in Int, b \in Int : x[1] = a /\ x[2] = b
  BY DEF Decs
<1>2. PICK c \in Nat \ {0}, h \in Int : y[1] = c /\ y[2] = h
  BY DEF Decs
<1>3. CASE shift > 0
  <2>1. PICK t \in Nat \ {0} : t = Ten[shift]
    BY <1>3, TenPositive
  <2>2. dividend = a * t /\ divisor = c
    BY <1>1, <1>2, <1>3, <2>1 DEF Raised
  <2>3. a * t \in Int /\ (a # 0 => a * t # 0)
    OBVIOUS
  <2>4. PICK q \in Int : \E r \in 0..(c - 1) :
          (a * t) \div c = q /\ ((a * t) % c) = r /\ a * t = q * c + r
    BY <2>3, DivParts
  <2>5. q * c <= a * t /\ whole = <<q, (b - h) - shift>>
    BY <1>1, <1>2, <2>2, <2>3, <2>4
  <2>6. whole \in Decs /\ (b - h) - shift \in Int
    BY <2>5 DEF Decs
  <2>7. PICK z \in Decs : z = Multiplied(whole, y) /\ z[1] = q * c /\ z[2] = b - shift
    <3>1. Multiplied(whole, y) = <<q * c, ((b - h) - shift) + h>>
      BY <1>2, <2>5 DEF Multiplied
    <3>2. q * c \in Int /\ ((b - h) - shift) + h \in Int
      OBVIOUS
    <3>3. QED
      BY <3>1, <3>2 DEF Decs
  <2>8. At(z, b - shift) = q * c
    BY <2>7, AtOwn
  <2>9. At(x, b - shift) = a * t
    BY <1>1, <2>1, b - (b - shift) = shift DEF At
  <2>10. b - shift \in Int /\ b - shift <= x[2] /\ b - shift <= z[2]
    BY <1>1, <1>3, <2>7
  <2>11. AtMost(z, x)
    BY <2>5, <2>8, <2>9, <2>10, AtMostAt
  <2>12. QED
    BY <1>1, <1>2, <2>2, <2>3, <2>6, <2>7, <2>11
<1>4. CASE ~(shift > 0)
  <2>1. PICK k \in Nat : k = -shift
    BY <1>4
  <2>2. PICK t \in Nat \ {0} : t = Ten[k]
    BY TenPositive
  <2>3. c * t \in Nat \ {0}
    OBVIOUS
  <2>4. divisor = c * t /\ dividend = a
    <3>1. CASE k > 0
      BY <1>1, <1>2, <1>4, <2>1, <2>2, <3>1 DEF Raised
    <3>2. CASE ~(k > 0)
      BY <1>1, <1>2, <1>4, <2>1, <2>2, <3>2, TenZero DEF Raised
    <3>3. QED
      BY <3>1, <3>2
  <2>5. PICK q \in Int : \E r \in 0..((c * t) - 1) :
          a \div (c * t) = q /\ (a % (c * t)) = r /\ a = q * (c * t) + r
    BY <2>3, DivParts
  <2>6. q * (c * t) <= a /\ whole = <<q, (b - h) - shift>>
    BY <1>1, <1>2, <2>3, <2>4, <2>5
  <2>7. whole \in Decs /\ (b - h) - shift \in Int
    BY <2>6 DEF Decs
  <2>8. PICK z \in Decs : z = Multiplied(whole, y) /\ z[1] = q * c /\ z[2] = b + k
    <3>1. Multiplied(whole, y) = <<q * c, ((b - h) - shift) + h>>
      BY <1>2, <2>6 DEF Multiplied
    <3>2. q * c \in Int /\ ((b - h) - shift) + h \in Int
      OBVIOUS
    <3>3. QED
      BY <2>1, <3>1, <3>2 DEF Decs
  <2>9. At(z, b) = (q * c) * t
    BY <2>2, <2>8, (b + k) - b = k DEF At
  <2>10. (q * c) * t = q * (c * t)
    BY TimesTimes
  <2>11. At(x, b) = a
    BY <1>1, AtOwn
  <2>12. b <= x[2] /\ b <= z[2]
    BY <1>1, <2>8
  <2>13. AtMost(z, x)
    BY <2>6, <2>9, <2>10, <2>11, <2>12, AtMostAt
  <2>14. QED
    BY <1>1, <1>2, <2>3, <2>4, <2>7, <2>8, <2>13
<1>5. QED
  BY <1>3, <1>4

LEMMA QuotientAtMost ==
    ASSUME NEW x \in Decs, NEW y \in Decs, y[1] > 0
    PROVE  /\ Quotient(x, y) \in Decs
           /\ AtMost(Multiplied(Quotient(x, y), y), x)
<1>1. PICK a \in Int, b \in Int : x[1] = a /\ x[2] = b
  BY DEF Decs
<1>2. PICK c \in Nat \ {0}, h \in Int : y[1] = c /\ y[2] = h
  BY DEF Decs
<1>3. CASE a = 0
  <2>1. PICK q \in Decs : q = Quotient(x, y) /\ q[1] = 0 /\ q[2] = b - h
    <3>1. Quotient(x, y) = <<0, b - h>>
      BY <1>1, <1>2, <1>3 DEF Quotient
    <3>2. 0 \in Int /\ b - h \in Int
      OBVIOUS
    <3>3. QED
      BY <3>1, <3>2 DEF Decs
  <2>2. PICK z \in Decs : z = Multiplied(q, y) /\ z[1] = 0 /\ z[2] = b
    <3>1. Multiplied(q, y) = <<0 * c, (b - h) + h>>
      BY <1>2, <2>1 DEF Multiplied
    <3>2. 0 * c \in Int /\ (b - h) + h \in Int
      OBVIOUS
    <3>3. QED
      BY <3>1, <3>2 DEF Decs
  <2>3. At(z, b) = 0 /\ At(x, b) = 0 /\ b <= z[2] /\ b <= x[2]
    BY <1>1, <1>3, <2>2, AtOwn
  <2>4. QED
    BY <2>1, <2>2, <2>3, AtMostAt
<1>4. CASE a # 0
  <2>1. PICK shift \in Int : shift = Digits(y[1]) - Digits(x[1]) + Prec + 1
    BY <1>1, <1>2, DigitsType, PrecIs
  <2>2. PICK dividend : dividend = Raised(x[1], shift)
    OBVIOUS
  <2>3. PICK divisor : divisor = Raised(y[1], -shift)
    OBVIOUS
  <2>4. PICK whole : whole = <<dividend \div divisor, (x[2] - y[2]) - shift>>
    OBVIOUS
  <2>5. /\ dividend \in Int /\ divisor \in Nat \ {0}
        /\ whole \in Decs
        /\ AtMost(Multiplied(whole, y), x)
        /\ dividend # 0
    BY <1>1, <1>4, <2>2, <2>3, <2>4, WholeQuotientAtMost
  <2>6. 1 * x[1] = x[1] /\ 1 * y[1] = y[1] /\ ~(y[1] < 0)
    BY <1>1, <1>2
  <2>7. Quotient(x, y) = IF dividend % divisor = 0
                         THEN InContext(StrippedTo(whole, x[2] - y[2]))
                         ELSE InContext(whole)
    BY <1>1, <1>4, <2>1, <2>2, <2>3, <2>4, <2>6 DEF Quotient
  <2>8. dividend % divisor = 0 => whole[1] # 0
    <3>1. PICK q \in Int : \E r \in 0..(divisor - 1) :
            dividend \div divisor = q /\ (dividend % divisor) = r /\ dividend = q * divisor + r
      BY <2>5, DivParts
    <3>2. SUFFICES ASSUME dividend % divisor = 0, q = 0 PROVE FALSE
      BY <2>4, <3>1
    <3>3. QED
      BY <2>5, <3>1, <3>2
  <2>9. PICK z \in Decs : AtMost(z, whole) /\ Quotient(x, y) = InContext(z)
    <3>1. CASE dividend % divisor = 0
      <4>1. x[2] - y[2] \in Int
        BY <1>1, <1>2
      <4>2. /\ StrippedTo(whole, x[2] - y[2]) \in Decs
            /\ Equal(StrippedTo(whole, x[2] - y[2]), whole)
        BY <2>5, <2>8, <3>1, <4>1, StrippedSame
      <4>3. QED
        BY <2>7, <3>1, <4>2 DEF Equal
    <3>2. CASE ~(dividend % divisor = 0)
      BY <2>5, <2>7, <3>2, AtMostTotal
    <3>3. QED
      BY <3>1, <3>2
  <2>10. PICK q \in Decs : q = Quotient(x, y) /\ AtMost(q, whole)
    BY <2>5, <2>9, ContextAtMost, AtMostTransitive
  <2>11. AtMost(Multiplied(q, y), Multiplied(whole, y))
    BY <2>5, <2>10, TimesAtMost
  <2>12. Multiplied(q, y) \in Decs /\ Multiplied(whole, y) \in Decs
    BY <2>5, <2>10 DEF Multiplied, Decs
  <2>13. AtMost(Multiplied(q, y), x)
    BY <2>5, <2>11, <2>12, AtMostTransitive
  <2>14. QED
    BY <2>10, <2>13
<1>5. QED
  BY <1>1, <1>3, <1>4

(* The result of an operation of two Python numbers.                       *)
LEMMA WrappedIs ==
    ASSUME NEW x, NEW y, NEW d \in Decs, IsDecimal(Wrapped(x, y, d))
    PROVE  /\ Wrapped(x, y, d)[2] \in Decs
           /\ AtMost(Wrapped(x, y, d)[2], d)
           /\ Wrapped(x, y, d)[2] = d \/ FixedAs(d, Wrapped(x, y, d)[2])
<1>1. CASE "ContractingDecimal" \in {x[1], y[1]}
  <2>1. Wrapped(x, y, d) = FixPrecision(d)
    BY <1>1 DEF Wrapped
  <2>2. FixedAs(d, FixPrecision(d)[2])
    BY <2>1, FixedIs
  <2>3. QED
    BY <2>1, <2>2, FixedType
<1>2. CASE ~("ContractingDecimal" \in {x[1], y[1]})
  <2>1. Wrapped(x, y, d)[2] = d
    BY <1>2 DEF Wrapped
  <2>2. QED
    BY <2>1, AtMostTotal
<1>3. QED
  BY <1>1, <1>2

LEMMA ProductIs == \A x, y : Product(x, y) = InContext(Multiplied(x, y))
BY DEF Product, Multiplied

LEMMA ShareAtMost ==
    ASSUME NEW x, NEW y, x[2] \in Decs, y[2] \in Decs, y[2][1] > 0,
           NEW share, share = Divide(x, y), IsDecimal(share),
           NEW whole, whole = Multiply(share, y), IsDecimal(whole)
    PROVE  ~Exceeds(whole[2], x[2])
<1>1. PICK d \in Decs : d = x[2]
  OBVIOUS
<1>2. PICK v \in Decs : v = y[2] /\ v[1] > 0
  OBVIOUS
<1>3. PICK q \in Decs : q = Quotient(d, v) /\ AtMost(Multiplied(q, v), d)
  BY <1>2, QuotientAtMost
<1>4. share = Wrapped(x, y, q)
  BY <1>1, <1>2, <1>3 DEF Divide
<1>5. PICK s \in Decs : s = share[2] /\ AtMost(s, q)
  BY <1>4, WrappedIs
<1>6. AtMost(Multiplied(s, v), Multiplied(q, v))
  BY <1>2, <1>5, TimesAtMost
<1>7. Multiplied(s, v) \in Decs /\ Multiplied(q, v) \in Decs
  BY DEF Multiplied, Decs
<1>8. AtMost(Multiplied(s, v), d)
  BY <1>3, <1>6, <1>7, AtMostTransitive
<1>9. PICK p \in Decs : p = Product(s, v) /\ AtMost(p, Multiplied(s, v))
  BY <1>7, ContextAtMost, ProductIs
<1>10. whole = Wrapped(share, y, p)
  BY <1>2, <1>5, <1>9 DEF Multiply
<1>11. PICK w \in Decs : w = whole[2] /\ AtMost(w, p)
  BY <1>10, WrappedIs
<1>12. AtMost(w, d)
  BY <1>7, <1>8, <1>9, <1>11, AtMostTransitive
<1>13. QED
  BY <1>1, <1>11, <1>12, ExceedsIs

-----------------------------------------------------------------------------
(* Amounts that are whole in the last decimal: n is how many units.        *)
Whole(d, n) == d \in Decs /\ n \in Int /\ Equal(d, <<n, -Lower>>)

LEMMA UnitsType ==
    ASSUME NEW n \in Int
    PROVE  /\ <<n, -Lower>> \in Decs
           /\ <<n, -Lower>>[1] = n /\ <<n, -Lower>>[2] = -Lower
           /\ \A g \in Int : g <= -Lower => At(<<n, -Lower>>, g) = n * Ten[(-Lower) - g]
<1>1. -Lower \in Int
  BY PrecIs
<1>2. QED
  BY <1>1 DEF Decs, At

LEMMA WholeAt ==
    ASSUME NEW d \in Decs, NEW n \in Int, NEW g \in Int, g <= d[2], g <= -Lower
    PROVE  Whole(d, n) <=> At(d, g) = n * Ten[(-Lower) - g]
BY UnitsType, EqualAt DEF Whole

LEMMA WholeIs ==
    ASSUME NEW x, x[2] \in Decs, IsWhole(x)
    PROVE  \E n : Whole(x[2], n)
<1>1. PICK d \in Decs : d = x[2]
  OBVIOUS
<1>2. PICK f \in Decs : f = FlooredTo(d, -Lower) /\ f[2] = -Lower
  BY FlooredType, PrecIs
<1>3. Equal(f, d)
  BY <1>1, <1>2, SameNumberIs DEF IsWhole
<1>4. f = <<f[1], -Lower>> /\ f[1] \in Int
  BY <1>2 DEF Decs
<1>5. Whole(d, f[1])
  BY <1>3, <1>4 DEF Whole, Equal
<1>6. QED
  BY <1>1, <1>5

LEMMA LowPoint ==
    ASSUME NEW x \in Decs, NEW y \in Decs, NEW h \in Int
    PROVE  \E g \in Int : g <= x[2] /\ g <= y[2] /\ g <= h
<1>1. PICK i \in Int : i <= x[2] /\ i <= y[2]
  BY LowerType
<1>2. CASE i <= h
  BY <1>1, <1>2
<1>3. CASE h <= i
  <2>1. x[2] \in Int /\ y[2] \in Int
    BY DEF Decs
  <2>2. h <= x[2] /\ h <= y[2]
    BY <1>1, <1>3, <2>1
  <2>3. QED
    BY <2>2
<1>4. QED
  BY <1>2, <1>3

LEMMA WholeEqual ==
    ASSUME NEW d \in Decs, NEW n, Whole(d, n), NEW b \in Decs, Equal(b, d)
    PROVE  Whole(b, n)
BY UnitsType, EqualTransitive DEF Whole

LEMMA WholeSame ==
    ASSUME NEW x, NEW y, NEW n, Whole(x, n), Whole(y, n)
    PROVE  SameNumber(x, y)
<1>1. x \in Decs /\ y \in Decs /\ n \in Int
  BY DEF Whole
<1>2. PICK w \in Decs : w = <<n, -Lower>>
  BY <1>1, UnitsType
<1>3. Equal(x, w) /\ Equal(w, y)
  BY <1>2 DEF Whole, Equal
<1>4. QED
  BY <1>1, <1>2, <1>3, EqualTransitive, SameNumberIs

LEMMA WholeSum ==
    ASSUME NEW x, NEW m, Whole(x, m), NEW y, NEW n, Whole(y, n)
    PROVE  Whole(Plus(x, y), m + n)
<1>1. x \in Decs /\ y \in Decs /\ m \in Int /\ n \in Int
  BY DEF Whole
<1>2. PICK h \in Int : h = -Lower
  BY PrecIs
<1>3. PICK g \in Int : g <= x[2] /\ g <= y[2] /\ g <= h
  BY <1>1, LowPoint
<1>4. PICK t \in Int : t = Ten[h - g]
  BY <1>3, TenPositive, h - g \in Nat
<1>5. At(x, g) = m * t /\ At(y, g) = n * t
  BY <1>1, <1>2, <1>3, <1>4, WholeAt
<1>6. PICK s \in Decs : s = Plus(x, y) /\ g <= s[2] /\ At(s, g) = At(x, g) + At(y, g)
  BY <1>1, <1>3, PlusIs
<1>7. m * t + n * t = (m + n) * t
  BY <1>1, <1>4
<1>8. At(s, g) = (m + n) * t
  BY <1>5, <1>6, <1>7
<1>9. QED
  BY <1>1, <1>2, <1>3, <1>4, <1>6, <1>8, WholeAt, m + n \in Int

Minus(x, y) ==
    <<At(x, LowerExponent(x, y)) - At(y, LowerExponent(x, y)), LowerExponent(x, y)>>

LEMMA MinusIs ==
    ASSUME NEW x \in Decs, NEW y \in Decs
    PROVE  /\ Minus(x, y) \in Decs
           /\ Difference(x, y) = InContext(Minus(x, y))
           /\ Sum(x, y) = InContext(Plus(x, y))
           /\ \A g \in Int : g <= x[2] /\ g <= y[2] =>
                /\ g <= Minus(x, y)[2]
                /\ At(Minus(x, y), g) = At(x, g) - At(y, g)
<1>1. PICK e \in Int : e = LowerExponent(x, y) /\ e <= x[2] /\ e <= y[2]
  BY LowerType
<1>2. PICK a \in Int : a = At(x, e)
  BY <1>1, AtType
<1>3. PICK b \in Int : b = At(y, e)
  BY <1>1, AtType
<1>4. PICK s \in Decs : s = Minus(x, y) /\ s[1] = a - b /\ s[2] = e
  <2>1. Minus(x, y) = <<a - b, e>>
    BY <1>1, <1>2, <1>3 DEF Minus
  <2>2. QED
    BY <2>1 DEF Decs
<1>5. ASSUME NEW g \in Int, g <= x[2], g <= y[2]
      PROVE  g <= s[2] /\ At(s, g) = At(x, g) - At(y, g)
  <2>1. g <= e
    BY <1>1, <1>5, LowerType
  <2>2. PICK t \in Nat : t = Ten[e - g]
    BY <2>1, TenPositive, e - g \in Nat
  <2>3. At(x, g) = a * t /\ At(y, g) = b * t
    BY <1>1, <1>2, <1>3, <2>1, <2>2, AtLower
  <2>4. At(s, g) = (a - b) * t
    BY <1>4, <2>2 DEF At
  <2>5. (a - b) * t = a * t - b * t
    OBVIOUS
  <2>6. QED
    BY <1>4, <2>1, <2>3, <2>4, <2>5
<1>6. Difference(x, y) = InContext(Minus(x, y)) /\ Sum(x, y) = InContext(Plus(x, y))
  BY DEF Difference, Minus, Sum
<1>7. QED
  BY <1>4, <1>5, <1>6

LEMMA WholeDifference ==
    ASSUME NEW x, NEW m, Whole(x, m), NEW y, NEW n, Whole(y, n)
    PROVE  Whole(Minus(x, y), m - n)
<1>1. x \in Decs /\ y \in Decs /\ m \in Int /\ n \in Int
  BY DEF Whole
<1>2. PICK h \in Int : h = -Lower
  BY PrecIs
<1>3. PICK g \in Int : g <= x[2] /\ g <= y[2] /\ g <= h
  BY <1>1, LowPoint
<1>4. PICK t \in Int : t = Ten[h - g]
  BY <1>3, TenPositive, h - g \in Nat
<1>5. At(x, g) = m * t /\ At(y, g) = n * t
  BY <1>1, <1>2, <1>3, <1>4, WholeAt
<1>6. PICK s \in Decs : s = Minus(x, y) /\ g <= s[2] /\ At(s, g) = At(x, g) - At(y, g)
  BY <1>1, <1>3, MinusIs
<1>7. m * t - n * t = (m - n) * t
  BY <1>1, <1>4
<1>8. At(s, g) = (m - n) * t
  BY <1>5, <1>6, <1>7
<1>9. QED
  BY <1>1, <1>2, <1>3, <1>4, <1>6, <1>8, WholeAt, m - n \in Int

(* Small amounts have fewer than Prec digits in units.                     *)
Opposite(d) == <<-d[1], d[2]>>

LEMMA OppositeIs ==
    ASSUME NEW d \in Decs
    PROVE  /\ Opposite(d) \in Decs /\ Opposite(d)[2] = d[2]
           /\ \A g \in Int : g <= d[2] => At(Opposite(d), g) = -At(d, g)
<1>1. PICK a \in Int, b \in Int : d[1] = a /\ d[2] = b
  BY DEF Decs
<1>2. Opposite(d) = <<-a, b>>
  BY <1>1 DEF Opposite
<1>3. ASSUME NEW g \in Int, g <= b PROVE At(Opposite(d), g) = -At(d, g)
  <2>1. PICK t \in Nat : t = Ten[b - g]
    BY <1>3, TenPositive, b - g \in Nat
  <2>2. At(Opposite(d), g) = (-a) * t /\ At(d, g) = a * t
    BY <1>1, <1>2, <2>1 DEF At
  <2>3. (-a) * t = -(a * t)
    OBVIOUS
  <2>4. QED
    BY <2>2, <2>3
<1>4. QED
  BY <1>1, <1>2, <1>3 DEF Decs

LEMMA SmallIs ==
    ASSUME NEW d \in Decs
    PROVE  Small(d) <=> AtMost(d, MaxDecimal) /\ AtMost(Opposite(d), MaxDecimal)
BY OppositeIs, MaxType, ExceedsIs DEF Small, Opposite

LEMMA MaxAt ==
    ASSUME NEW g \in Int, g <= -Lower
    PROVE  /\ g <= MaxDecimal[2]
           /\ At(MaxDecimal, g) = Ten[Prec - 1] * Ten[(-Lower) - g]
<1>1. PICK u \in Nat : u = Upper - 1
  BY PrecIs
<1>2. PICK l \in Nat : l = Lower
  BY PrecIs
<1>3. PICK k \in Nat : k = (-Lower) - g /\ 0 - g = l + k
  BY <1>2
<1>4. Prec - 1 = u + l
  BY <1>1, <1>2, PrecIs
<1>5. PICK a \in Nat : a = Ten[u]
  BY TenPositive
<1>6. PICK b \in Nat : b = Ten[l]
  BY TenPositive
<1>7. PICK c \in Nat : c = Ten[k]
  BY TenPositive
<1>8. Ten[u + l] = a * b /\ Ten[l + k] = b * c
  BY <1>5, <1>6, <1>7, TenSum
<1>9. At(MaxDecimal, g) = a * (b * c)
  BY <1>1, <1>3, <1>5, <1>8, MaxType DEF At
<1>10. a * (b * c) = (a * b) * c
  BY TimesTimes
<1>11. g <= 0
  BY PrecIs
<1>12. QED
  BY <1>3, <1>4, <1>7, <1>8, <1>9, <1>10, <1>11, MaxType

LEMMA SmallSize ==
    ASSUME NEW d, NEW n, Whole(d, n)
    PROVE  Small(d) <=> Size(n) <= Ten[Prec - 1]
<1>1. d \in Decs /\ n \in Int
  BY DEF Whole
<1>2. PICK h \in Int : h = -Lower
  BY PrecIs
<1>3. PICK g \in Int : g <= d[2] /\ g <= h
  BY <1>1, <1>2, LowPoint
<1>4. PICK t \in Nat \ {0} : t = Ten[h - g]
  BY <1>3, TenPositive, h - g \in Nat
<1>5. PICK m \in Nat : m = Ten[Prec - 1]
  BY PrecIs, TenPositive, Prec - 1 \in Nat
<1>6. At(d, g) = n * t
  BY <1>1, <1>2, <1>3, <1>4, WholeAt
<1>7. g <= MaxDecimal[2] /\ At(MaxDecimal, g) = m * t
  BY <1>2, <1>3, <1>4, <1>5, MaxAt
<1>8. Opposite(d) \in Decs /\ g <= Opposite(d)[2] /\ At(Opposite(d), g) = -(n * t)
  BY <1>1, <1>3, <1>6, OppositeIs
<1>9. AtMost(d, MaxDecimal) <=> n * t <= m * t
  BY <1>1, <1>3, <1>6, <1>7, AtMostAt, MaxType
<1>10. AtMost(Opposite(d), MaxDecimal) <=> -(n * t) <= m * t
  BY <1>7, <1>8, AtMostAt, MaxType
<1>11. n <= m <=> n * t <= m * t
  <2>1. m < n <=> m * t < n * t
    BY <1>1, TimesMoreThan
  <2>2. m * t \in Int /\ n * t \in Int
    BY <1>1
  <2>3. QED
    BY <1>1, <2>1, <2>2
<1>12. -n <= m <=> -(n * t) <= m * t
  <2>1. m < -n <=> m * t < (-n) * t
    BY <1>1, TimesMoreThan, -n \in Int
  <2>2. (-n) * t = -(n * t) /\ m * t \in Int /\ n * t \in Int
    BY <1>1
  <2>3. QED
    BY <1>1, <2>1, <2>2
<1>13. Small(d) <=> n <= m /\ -n <= m
  BY <1>1, <1>9, <1>10, <1>11, <1>12, SmallIs
<1>14. QED
  BY <1>1, <1>5, <1>13 DEF Size

(* Flooring does not go below what the exponent has room for.              *)
LEMMA FlooredMonotone ==
    ASSUME NEW v \in Decs, NEW d \in Decs, AtMost(v, d), NEW e \in Int, e <= v[2]
    PROVE  AtMost(v, FlooredTo(d, e))
<1>1. PICK f \in Decs : f = FlooredTo(d, e) /\ f[2] = e
  BY FlooredType
<1>2. PICK g \in Int : g <= v[2] /\ g <= d[2] /\ g <= e
  BY LowPoint
<1>3. PICK u \in Nat \ {0} : u = Ten[e - g]
  BY <1>2, TenPositive, e - g \in Nat
<1>4. PICK k \in Int : k = At(v, e)
  BY AtType
<1>5. PICK j \in Int : j = f[1] /\ At(f, g) = j * u
  BY <1>1, <1>3 DEF At, Decs
<1>6. At(v, g) = k * u
  BY <1>2, <1>3, <1>4, AtLower
<1>7. k * u <= At(d, g) /\ At(d, g) < j * u + u /\ At(d, g) \in Int
  BY <1>1, <1>2, <1>3, <1>5, <1>6, FlooredBounds, AtMostAt, AtType
<1>8. (j + 1) * u = j * u + u /\ k * u \in Int /\ j * u \in Int
  OBVIOUS
<1>9. k < j + 1
  <2>1. k * u < (j + 1) * u
    BY <1>7, <1>8
  <2>2. QED
    BY <2>1, TimesMoreThan, j + 1 \in Int
<1>10. k <= j
  BY <1>9
<1>11. At(v, e) <= At(f, e)
  BY <1>1, <1>4, <1>5, <1>10, AtOwn
<1>12. QED
  BY <1>1, <1>11, AtMostAt

LEMMA PowerType ==
    ASSUME NEW e \in Int
    PROVE  /\ <<1, e>> \in Decs
           /\ <<1, e>>[2] = e
           /\ \A g \in Int : g <= e => At(<<1, e>>, g) = Ten[e - g]
<1>1. ASSUME NEW g \in Int, g <= e PROVE At(<<1, e>>, g) = Ten[e - g]
  <2>1. Ten[e - g] \in Nat
    BY <1>1, TenPositive, e - g \in Nat
  <2>2. QED
    BY <2>1 DEF At
<1>2. QED
  BY <1>1 DEF Decs

LEMMA CutAtLeast ==
    ASSUME NEW d \in Decs, AtMost(<<1, Upper>>, d)
    PROVE  AtMost(<<1, Upper>>, Cut(d))
<1>0. PICK a \in Int, b \in Int : d[1] = a /\ d[2] = b
  BY DEF Decs
<1>1. PICK v \in Decs : v = <<1, Upper>> /\ v[2] = Upper
  BY PowerType, PrecIs
<1>2. PICK n \in Nat \ {0} : n = Digits(a)
  BY DigitsType
<1>3. CASE n - Prec > 0
  <2>1. PICK k \in Nat : k = n - Prec /\ k <= n - 1
    BY <1>3, PrecIs
  <2>2. PICK e \in Int : e = b + k
    OBVIOUS
  <2>3. Cut(d) = FlooredTo(d, e)
    BY <1>0, <1>2, <1>3, <2>1, <2>2 DEF Cut
  <2>4. CASE e <= Upper
    BY <1>1, <2>3, <2>4, FlooredMonotone
  <2>5. CASE Upper <= e
    <3>1. PICK w \in Decs : w = <<1, e>> /\ w[2] = e
      BY PowerType
    <3>2. At(w, b) = Ten[k]
      BY <2>2, <3>1, PowerType, e - b = k, b <= e
    <3>3. a > 0
      <4>1. PICK g \in Int : g <= v[2] /\ g <= d[2]
        BY <1>1, LowerType
      <4>2. At(v, g) > 0 /\ At(v, g) \in Int
        BY <1>1, <4>1, SignAt, v[1] = 1
      <4>3. At(v, g) <= At(d, g) /\ At(d, g) \in Int
        BY <1>1, <4>1, AtMostAt, AtType
      <4>4. At(d, g) > 0
        BY <4>2, <4>3
      <4>5. QED
        BY <1>0, <4>1, <4>4, SignAt
    <3>4. Ten[n - 1] <= a
      <4>1. Size(a) = a
        BY <3>3, SizeType
      <4>2. QED
        BY <1>2, <3>3, <4>1, DigitsAtLeast
    <3>5. Ten[k] <= Ten[n - 1] /\ Ten[k] \in Nat /\ Ten[n - 1] \in Nat
      BY <2>1, TenMore, TenPositive, n - 1 \in Nat
    <3>6. At(w, b) <= At(d, b)
      BY <1>0, <3>2, <3>4, <3>5, AtOwn
    <3>7. AtMost(w, d)
      BY <1>0, <2>2, <3>1, <3>6, AtMostAt
    <3>8. AtMost(w, Cut(d))
      BY <2>3, <3>1, <3>7, FlooredMonotone
    <3>9. AtMost(v, w)
      <4>1. At(v, Upper) = 1
        BY <1>1, AtOwn
      <4>2. At(w, Upper) = Ten[e - Upper] /\ e - Upper \in Nat
        BY <2>5, <3>1, PowerType, PrecIs
      <4>3. At(w, Upper) \in Nat \ {0}
        BY <4>2, TenPositive
      <4>4. QED
        BY <1>1, <2>5, <3>1, <4>1, <4>3, AtMostAt, PrecIs
    <3>10. QED
      BY <1>1, <3>1, <3>8, <3>9, CutType, AtMostTransitive
  <2>6. QED
    BY <2>4, <2>5, PrecIs
<1>4. CASE ~(n - Prec > 0)
  BY <1>0, <1>2, <1>4 DEF Cut
<1>5. QED
  BY <1>3, <1>4

(* If a result is small, its exact value has few digits before the point.  *)
LEMMA SmallResult ==
    ASSUME NEW d, NEW n, Whole(d, n), Small(InContext(d))
    PROVE  Size(n) < Ten[Prec]
<1>1. d \in Decs /\ n \in Int
  BY DEF Whole
<1>2. PICK z \in Decs : z = InContext(d) /\ AtMost(z, d)
  BY <1>1, ContextAtMost
<1>3. AtMost(z, MaxDecimal) /\ AtMost(Opposite(z), MaxDecimal)
  BY <1>2, SmallIs
<1>4. PICK h \in Int : h = -Lower
  BY PrecIs
<1>5. PICK g \in Int : g <= d[2] /\ g <= z[2] /\ g <= h
  BY <1>1, LowPoint
<1>6. PICK t \in Nat \ {0} : t = Ten[h - g]
  BY <1>5, TenPositive, h - g \in Nat
<1>7. PICK m \in Nat \ {0} : m = Ten[Prec - 1] /\ Ten[Prec] = 10 * m
  <2>1. Prec - 1 \in Nat /\ (Prec - 1) + 1 = Prec
    BY PrecIs
  <2>2. QED
    BY <2>1, TenPositive, TenNext
<1>8. At(d, g) = n * t
  BY <1>1, <1>4, <1>5, <1>6, WholeAt
<1>9. g <= MaxDecimal[2] /\ At(MaxDecimal, g) = m * t
  BY <1>4, <1>5, <1>6, <1>7, MaxAt
<1>10. ASSUME n >= 10 * m PROVE FALSE
  <2>1. PICK v \in Decs : v = <<1, Upper>> /\ v[2] = Upper
    <3>1. Upper \in Int
      BY PrecIs
    <3>2. QED
      BY <3>1, PowerType
  <2>2. g <= Upper
    BY <1>4, <1>5, PrecIs
  <2>3. At(v, g) = (10 * m) * t
    <3>1. Upper - g = Prec + (h - g) /\ h - g \in Nat
      BY <1>4, <1>5, PrecIs
    <3>2. Ten[Prec + (h - g)] = Ten[Prec] * Ten[h - g]
      BY <3>1, PrecIs, TenSum
    <3>3. At(v, g) = Ten[Upper - g]
      BY <2>1, <2>2, PowerType, PrecIs
    <3>4. QED
      BY <1>6, <1>7, <3>1, <3>2, <3>3
  <2>4. (10 * m) * t <= n * t
    BY <1>1, <1>10, TimesMore, 10 * m \in Int
  <2>5. AtMost(v, d)
    BY <1>1, <1>5, <1>8, <2>1, <2>2, <2>3, <2>4, AtMostAt
  <2>6. AtMost(v, z)
    <3>1. AtMost(v, Cut(d)) /\ Cut(d) \in Decs
      BY <1>1, <2>1, <2>5, CutAtLeast, CutType
    <3>2. AtMost(v, Cut(Cut(d)))
      BY <2>1, <3>1, CutAtLeast
    <3>3. QED
      BY <1>2, <3>2, InContextIs
  <2>7. AtMost(v, MaxDecimal)
    BY <1>3, <2>6, MaxType, AtMostTransitive
  <2>8. (10 * m) * t <= m * t
    BY <1>5, <1>9, <2>1, <2>2, <2>3, <2>7, MaxType, AtMostAt
  <2>9. m * t < (10 * m) * t
    BY TimesMoreThan, m < 10 * m, 10 * m \in Int
  <2>10. m * t \in Int /\ (10 * m) * t \in Int
    OBVIOUS
  <2>11. QED
    BY <2>8, <2>9, <2>10
<1>11. ASSUME -n >= 10 * m PROVE FALSE
  <2>1. PICK y \in Int : y = At(z, g)
    BY <1>5, AtType
  <2>2. y <= n * t
    BY <1>1, <1>2, <1>5, <1>8, <2>1, AtMostAt
  <2>3. Opposite(z) \in Decs /\ g <= Opposite(z)[2] /\ At(Opposite(z), g) = -y
    BY <1>5, <2>1, OppositeIs
  <2>4. -y <= m * t
    BY <1>3, <1>9, <2>3, MaxType, AtMostAt
  <2>5. (10 * m) * t <= (-n) * t
    BY <1>1, <1>11, TimesMore, 10 * m \in Int, -n \in Int
  <2>6. (-n) * t = -(n * t)
    BY <1>1
  <2>7. m * t < (10 * m) * t
    BY TimesMoreThan, m < 10 * m, 10 * m \in Int
  <2>8. m * t \in Int /\ (10 * m) * t \in Int /\ n * t \in Int
    BY <1>1
  <2>9. QED
    BY <2>2, <2>4, <2>5, <2>6, <2>7, <2>8
<1>12. QED
  BY <1>1, <1>7, <1>10, <1>11 DEF Size

(* fix_precision() leaves small amounts of whole units as they are.        *)
LEMMA FixedWhole ==
    ASSUME NEW d, NEW n, Whole(d, n), Small(d)
    PROVE  IsDecimal(FixPrecision(d)) /\ Whole(FixPrecision(d)[2], n)
<1>1. d \in Decs /\ n \in Int
  BY DEF Whole
<1>2. AtMost(d, MaxDecimal)
  BY <1>1, SmallIs
<1>3. CASE ~ShouldRound(d)
  <2>1. FixedAs(d, d)
    BY <1>2, <1>3 DEF FixedAs
  <2>2. QED
    BY <1>1, <2>1, FixedConversely
<1>4. CASE ShouldRound(d)
  <2>1. PICK w \in Decs : w = <<n, -Lower>> /\ Equal(d, w) /\ w[1] = n /\ w[2] = -Lower
    BY <1>1, UnitsType DEF Whole
  <2>2. PICK f \in Decs : f = FlooredTo(d, -Lower) /\ f[2] = -Lower
    BY <1>1, PrecIs, FlooredType
  <2>3. Equal(f, d)
    BY <1>1, <2>1, <2>2, PrecIs, FlooredWhole, -Lower <= -Lower
  <2>4. Equal(f, w)
    BY <1>1, <2>1, <2>3, EqualTransitive
  <2>5. f[1] = n
    <3>1. At(f, f[2]) = At(w, f[2])
      BY <2>1, <2>2, <2>4, PrecIs, EqualAt, -Lower <= -Lower
    <3>2. QED
      BY <2>1, <2>2, <3>1, AtOwn
  <2>6. Digits(f[1]) <= Prec
    <3>1. Size(n) <= Ten[Prec - 1]
      BY <1>2, SmallSize
    <3>2. Prec - 1 \in Nat /\ (Prec - 1) + 1 = Prec
      BY PrecIs
    <3>3. PICK m \in Nat \ {0} : m = Ten[Prec - 1] /\ Ten[Prec] = 10 * m
      BY <3>2, TenPositive, TenNext
    <3>4. Size(n) < Ten[Prec]
      BY <1>1, <3>1, <3>3, SizeType
    <3>5. QED
      BY <1>1, <2>5, <3>4, DigitsAtMost, PrecIs
  <2>7. PICK b \in Decs : b = Normalized(f) /\ Equal(b, f)
    BY <1>1, <2>2, RoundedIs
  <2>8. FixedAs(d, b)
    BY <1>2, <1>4, <2>2, <2>6, <2>7 DEF FixedAs
  <2>9. Equal(b, d)
    BY <1>1, <2>3, <2>7, EqualTransitive
  <2>10. Whole(b, n)
    BY <1>1, <2>9, WholeEqual
  <2>11. QED
    BY <1>1, <2>8, <2>10, FixedConversely
<1>5. QED
  BY <1>3, <1>4

(* The result of an addition or subtraction that is small is exact.        *)
LEMMA WholeResult ==
    ASSUME NEW x, NEW y, NEW d, NEW n, Whole(d, n), Small(InContext(d))
    PROVE  /\ Whole(Wrapped(x, y, InContext(d))[2], n)
           /\ Size(n) <= Ten[Prec - 1]
<1>1. d \in Decs /\ n \in Int
  BY DEF Whole
<1>2. PICK w \in Decs : w = <<n, -Lower>> /\ Equal(d, w) /\ w[1] = n /\ w[2] = -Lower
  BY <1>1, UnitsType DEF Whole
<1>3. Size(n) < Ten[Prec]
  BY SmallResult
<1>4. PICK z \in Decs : z = InContext(d) /\ Equal(z, d)
  BY <1>1, <1>2, <1>3, ContextWhole, ContextAtMost
<1>5. Whole(z, n)
  BY <1>1, <1>4, WholeEqual
<1>6. Small(z)
  BY <1>4
<1>7. IsDecimal(FixPrecision(z)) /\ Whole(FixPrecision(z)[2], n)
  BY <1>5, <1>6, FixedWhole
<1>8. Whole(Wrapped(x, y, z)[2], n)
  BY <1>5, <1>7 DEF Wrapped
<1>9. QED
  BY <1>4, <1>5, <1>6, <1>8, SmallSize

LEMMA WholeInContext ==
    ASSUME NEW d, NEW n, Whole(d, n), Size(n) < Ten[Prec]
    PROVE  Whole(InContext(d), n)
<1>1. d \in Decs /\ n \in Int
  BY DEF Whole
<1>2. PICK w \in Decs : w = <<n, -Lower>> /\ Equal(d, w) /\ w[1] = n /\ w[2] = -Lower
  BY <1>1, UnitsType DEF Whole
<1>3. InContext(d) \in Decs /\ Equal(InContext(d), d)
  BY <1>1, <1>2, ContextWhole, ContextAtMost
<1>4. QED
  BY <1>1, <1>3, WholeEqual

LEMMA TransferConserves ==
    ASSUME NEW own, own[2] \in Decs, IsWhole(own),
           NEW x, x[2] \in Decs, IsWhole(x), NEW y, y[2] \in Decs, IsWhole(y),
           Small(Difference(own[2], x[2])), Small(Sum(y[2], x[2]))
    PROVE  SameNumber(Sum(Subtract(own, x)[2], Add(y, x)[2]), Sum(own[2], y[2]))
<1>1. PICK h, k : h = own[2] /\ Whole(h, k)
  BY WholeIs
<1>2. PICK v, m : v = x[2] /\ Whole(v, m)
  BY WholeIs
<1>3. PICK u, n : u = y[2] /\ Whole(u, n)
  BY WholeIs
<1>4. /\ h \in Decs /\ v \in Decs /\ u \in Decs
      /\ k \in Int /\ m \in Int /\ n \in Int
  BY <1>1, <1>2, <1>3 DEF Whole
<1>5. /\ Difference(h, v) = InContext(Minus(h, v)) /\ Whole(Minus(h, v), k - m)
      /\ Sum(u, v) = InContext(Plus(u, v)) /\ Whole(Plus(u, v), n + m)
      /\ Sum(h, u) = InContext(Plus(h, u)) /\ Whole(Plus(h, u), k + n)
  BY <1>1, <1>2, <1>3, <1>4, MinusIs, WholeDifference, WholeSum
<1>6. PICK p : /\ p = Subtract(own, x)[2] /\ Whole(p, k - m)
               /\ Size(k - m) <= Ten[Prec - 1]
  BY <1>1, <1>2, <1>5, WholeResult DEF Subtract
<1>7. PICK r : /\ r = Add(y, x)[2] /\ Whole(r, n + m)
               /\ Size(n + m) <= Ten[Prec - 1]
  BY <1>2, <1>3, <1>5, WholeResult DEF Add
<1>8. (k - m) + (n + m) = k + n
  BY <1>4
<1>9. Size(k + n) < Ten[Prec]
  <2>1. Prec - 1 \in Nat /\ (Prec - 1) + 1 = Prec
    BY PrecIs
  <2>2. PICK t \in Nat \ {0} : t = Ten[Prec - 1] /\ Ten[Prec] = 10 * t
    BY <2>1, TenPositive, TenNext
  <2>3. PICK i \in Int : i = k - m /\ Size(i) <= t
    BY <1>4, <1>6, <2>2
  <2>4. PICK j \in Int : j = n + m /\ Size(j) <= t
    BY <1>4, <1>7, <2>2
  <2>5. Size(i + j) < 10 * t
    BY <2>3, <2>4 DEF Size
  <2>6. QED
    BY <1>8, <2>2, <2>3, <2>4, <2>5
<1>10. Whole(Plus(p, r), k + n) /\ Sum(p, r) = InContext(Plus(p, r))
  <2>1. Whole(Plus(p, r), (k - m) + (n + m))
    BY <1>6, <1>7, WholeSum
  <2>2. p \in Decs /\ r \in Decs
    BY <1>6, <1>7 DEF Whole
  <2>3. QED
    BY <1>8, <2>1, <2>2, MinusIs
<1>11. Whole(Sum(p, r), k + n) /\ Whole(Sum(h, u), k + n)
  BY <1>5, <1>9, <1>10, WholeInContext
<1>12. QED
  BY <1>1, <1>3, <1>6, <1>7, <1>11, WholeSame

-----------------------------------------------------------------------------
(* What is computed fits the CONTEXT, and what is fixed the bounds.        *)
LEMMA DigitsOfZero == Digits(0) = 1
<1>1. PICK z \in Nat : z = 0 /\ z < 10
  OBVIOUS
<1>2. Size(z) = z
  BY <1>1, SizeType
<1>3. DigitsOf[z] = 1
  BY <1>1, DigitsOfIs
<1>4. QED
  BY <1>1, <1>2, <1>3 DEF Digits

LEMMA FewerDigits ==
    ASSUME NEW m \in Int, NEW n \in Int, Size(m) <= Size(n), Digits(n) <= Prec
    PROVE  Digits(m) <= Prec
<1>1. Size(n) < Ten[Prec]
  BY PrecIs, DigitsAtMost
<1>2. PICK t \in Nat : t = Ten[Prec]
  BY PrecIs, TenPositive
<1>3. Size(m) \in Nat /\ Size(n) \in Nat
  BY SizeType
<1>4. Size(m) < Ten[Prec]
  BY <1>1, <1>2, <1>3
<1>5. QED
  BY <1>4, PrecIs, DigitsAtMost

(* A coefficient gets no longer, and an exponent no larger than Upper,     *)
(* when the zeros at the end go.                                           *)
LEMMA RoundedBounds ==
    ASSUME NEW f \in Decs, f[2] = -Lower, Digits(f[1]) <= Prec
    PROVE  /\ Normalized(f) \in Decs
           /\ Digits(Normalized(f)[1]) <= Prec
           /\ -Lower <= Normalized(f)[2] /\ Normalized(f)[2] <= Upper - 1
<1>1. PICK a \in Int, g \in Int : f[1] = a /\ f[2] = g /\ g = -Lower /\ g <= 0
  BY PrecIs DEF Decs
<1>2. PICK up \in Nat : up = Upper - 1
  BY PrecIs
<1>3. CASE a = 0
  <2>1. PICK z \in Int : z = 0 /\ g <= z /\ z <= up
    BY <1>1, <1>2
  <2>2. Normalized(f) = <<z, z>>
    BY <1>1, <1>3, <2>1 DEF Normalized
  <2>3. Digits(z) <= Prec
    BY <2>1, DigitsOfZero, PrecIs
  <2>4. QED
    BY <1>1, <1>2, <2>1, <2>2, <2>3 DEF Decs
<1>4. CASE a # 0
  <2>1. PICK r \in Decs : r = Normalized(f) /\ r[1] # 0 /\ g <= r[2] /\ Equal(r, f)
    <3>1. 2 * Prec \in Int
      BY PrecIs
    <3>2. Normalized(f) = StrippedTo(f, 2 * Prec)
      BY <1>1, <1>4 DEF Normalized
    <3>3. QED
      BY <1>1, <1>4, <3>1, <3>2, StrippedSame
  <2>2. PICK c \in Int, k \in Nat : r[1] = c /\ c # 0 /\ k = r[2] - g
    BY <1>1, <2>1 DEF Decs
  <2>3. PICK t \in Nat \ {0} : t = Ten[k]
    BY <2>2, TenPositive
  <2>4. c * t = a
    <3>1. At(r, g) = At(f, g)
      BY <1>1, <2>1, EqualAt
    <3>2. At(r, g) = c * t
      BY <2>2, <2>3 DEF At
    <3>3. At(f, g) = a
      BY <1>1, AtOwn
    <3>4. QED
      BY <3>1, <3>2, <3>3
  <2>5. Size(c) <= Size(a) /\ t <= Size(a)
    <3>1. PICK s \in Nat \ {0} : s = Size(c)
      BY <2>2 DEF Size
    <3>2. Size(a) = s * t
      <4>1. CASE c > 0
        BY <2>4, <3>1, <4>1 DEF Size
      <4>2. CASE c < 0
        BY <2>4, <3>1, <4>2 DEF Size
      <4>3. QED
        BY <2>2, <4>1, <4>2
    <3>3. s <= s * t /\ t <= s * t
      BY SMT
    <3>4. QED
      BY <3>1, <3>2, <3>3
  <2>6. Digits(c) <= Prec
    BY <1>1, <2>5, FewerDigits
  <2>7. k < Prec
    <3>1. PICK p \in Nat, q \in Nat : p = Prec /\ q = Ten[p]
      BY PrecIs, TenPositive
    <3>2. Size(a) < q /\ Size(a) \in Nat
      BY <1>1, <3>1, PrecIs, DigitsAtMost, SizeType
    <3>3. SUFFICES ASSUME p <= k PROVE FALSE
      BY <3>1
    <3>4. q <= t
      BY <2>3, <3>1, <3>3, TenMore
    <3>5. QED
      BY <2>5, <3>2, <3>4
  <2>8. g + k < g + Prec /\ g + Prec = up + 1 /\ r[2] = g + k
    BY <1>1, <1>2, <2>1, <2>2, <2>7, PrecIs DEF Decs
  <2>9. QED
    BY <1>1, <1>2, <2>1, <2>2, <2>6, <2>8, PrecIs
<1>5. QED
  BY <1>3, <1>4

LEMMA FixedExponent ==
    ASSUME NEW d \in Decs, d[2] \in MinExponent..MaxExponent, NEW b, FixedAs(d, b)
    PROVE  b[2] \in MinExponent..MaxExponent
<1>1. /\ MinExponent \in Int /\ MaxExponent \in Int
      /\ MinExponent <= -Lower /\ Upper - 1 <= MaxExponent
  BY ValuesAssumption
<1>2. CASE b = MaxDecimal
  BY <1>1, <1>2, MaxType, PrecIs
<1>3. CASE /\ Digits(FlooredTo(d, -Lower)[1]) <= Prec
           /\ b = Normalized(FlooredTo(d, -Lower))
  <2>1. PICK f \in Decs : f = FlooredTo(d, -Lower) /\ f[2] = -Lower
    BY PrecIs, FlooredType
  <2>2. b \in Decs /\ -Lower <= b[2] /\ b[2] <= Upper - 1
    BY <1>3, <2>1, RoundedBounds
  <2>3. QED
    BY <1>1, <2>2, PrecIs DEF Decs
<1>4. CASE b = d
  BY <1>4
<1>5. QED
  BY <1>2, <1>3, <1>4 DEF FixedAs

LEMMA FixedDigits ==
    ASSUME NEW d \in Decs, Digits(d[1]) <= Prec, NEW b, FixedAs(d, b)
    PROVE  Digits(b[1]) <= Prec
<1>1. CASE b = MaxDecimal
  <2>1. PICK n \in Nat, t \in Nat \ {0} : n = Prec - 1 /\ t = Ten[n] /\ Ten[Prec] = 10 * t
    <3>1. Prec - 1 \in Nat /\ (Prec - 1) + 1 = Prec
      BY PrecIs
    <3>2. QED
      BY <3>1, TenPositive, TenNext
  <2>2. PICK m \in Nat : m = Upper - 1 /\ m <= n
    BY <2>1, PrecIs
  <2>3. PICK a \in Nat \ {0} : a = b[1] /\ a <= t
    BY <1>1, <2>1, <2>2, MaxType, TenMore, TenPositive
  <2>4. Size(a) < Ten[Prec]
    BY <2>1, <2>3 DEF Size
  <2>5. QED
    BY <2>3, <2>4, PrecIs, DigitsAtMost
<1>2. CASE /\ Digits(FlooredTo(d, -Lower)[1]) <= Prec
           /\ b = Normalized(FlooredTo(d, -Lower))
  <2>1. PICK f \in Decs : f = FlooredTo(d, -Lower) /\ f[2] = -Lower
    BY PrecIs, FlooredType
  <2>2. QED
    BY <1>2, <2>1, RoundedBounds
<1>3. CASE b = d
  BY <1>3
<1>4. QED
  BY <1>1, <1>2, <1>3 DEF FixedAs

(* The operations.                                                         *)
Fits(d) == d \in Decs /\ Digits(d[1]) <= Prec

LEMMA ContextFits ==
    ASSUME NEW d \in Decs
    PROVE  Fits(InContext(d))
BY ContextAtMost, ContextDigits DEF Fits

LEMMA SumFits ==
    ASSUME NEW x \in Decs, NEW y \in Decs
    PROVE  Fits(Sum(x, y)) /\ Fits(Difference(x, y)) /\ Fits(Product(x, y))
<1>1. Plus(x, y) \in Decs /\ Minus(x, y) \in Decs
  BY PlusIs, MinusIs
<1>2. Multiplied(x, y) \in Decs
  BY DEF Multiplied, Decs
<1>3. Fits(InContext(Multiplied(x, y)))
  BY <1>2, ContextFits
<1>4. QED
  BY <1>1, <1>3, MinusIs, ContextFits, ProductIs

LEMMA QuotientFits ==
    ASSUME NEW x \in Decs, NEW y \in Decs, y[1] # 0
    PROVE  Fits(Quotient(x, y))
<1>1. PICK a \in Int, b \in Int : x[1] = a /\ x[2] = b
  BY DEF Decs
<1>2. PICK c \in Int, h \in Int : y[1] = c /\ y[2] = h /\ c # 0
  BY DEF Decs
<1>3. CASE a = 0
  <2>1. PICK z \in Int : z = 0
    OBVIOUS
  <2>2. Quotient(x, y) = <<z, b - h>>
    BY <1>1, <1>2, <1>3, <2>1 DEF Quotient
  <2>3. Digits(z) <= Prec
    BY <2>1, DigitsOfZero, PrecIs
  <2>4. QED
    BY <2>2, <2>3 DEF Fits, Decs
<1>4. CASE a # 0
  <2>1. PICK shift \in Int : shift = Digits(y[1]) - Digits(x[1]) + Prec + 1
    BY <1>1, <1>2, DigitsType, PrecIs
  <2>2. PICK sign \in {-1, 1} : sign = IF c < 0 THEN -1 ELSE 1
    OBVIOUS
  <2>3. PICK p \in Int : p = sign * a /\ p # 0
    BY <1>4, <2>2
  <2>4. PICK v \in Nat \ {0} : v = sign * c
    BY <1>2, <2>2
  <2>5. PICK dividend \in Int : dividend = Raised(p, shift) /\ dividend # 0
    <3>1. CASE shift > 0
      <4>1. PICK t \in Nat \ {0} : t = Ten[shift]
        BY <3>1, TenPositive
      <4>2. p * t \in Int /\ p * t # 0
        BY <2>3
      <4>3. QED
        BY <3>1, <4>1, <4>2 DEF Raised
    <3>2. CASE ~(shift > 0)
      BY <2>3, <3>2 DEF Raised
    <3>3. QED
      BY <3>1, <3>2
  <2>6. PICK divisor \in Nat \ {0} : divisor = Raised(v, -shift)
    <3>1. CASE -shift > 0
      <4>1. PICK t \in Nat \ {0} : t = Ten[-shift]
        BY <3>1, TenPositive
      <4>2. v * t \in Nat \ {0}
        BY <2>4
      <4>3. QED
        BY <3>1, <4>1, <4>2 DEF Raised
    <3>2. CASE ~(-shift > 0)
      BY <2>4, <3>2 DEF Raised
    <3>3. QED
      BY <3>1, <3>2
  <2>7. PICK whole : whole = <<dividend \div divisor, (b - h) - shift>>
    OBVIOUS
  <2>8. PICK q \in Int : /\ q = dividend \div divisor
                         /\ dividend % divisor = 0 => q # 0
    <3>1. PICK q \in Int : \E r \in 0..(divisor - 1) :
            dividend \div divisor = q /\ (dividend % divisor) = r /\ dividend = q * divisor + r
      BY <2>5, <2>6, DivParts
    <3>2. ASSUME dividend % divisor = 0, q = 0 PROVE FALSE
      BY <2>5, <3>1, <3>2
    <3>3. QED
      BY <3>1, <3>2
  <2>9. whole \in Decs /\ whole[1] = q
    BY <2>7, <2>8, (b - h) - shift \in Int DEF Decs
  <2>10. Quotient(x, y) = IF dividend % divisor = 0
                          THEN InContext(StrippedTo(whole, b - h))
                          ELSE InContext(whole)
    BY <1>1, <1>2, <1>4, <2>1, <2>2, <2>3, <2>4, <2>5, <2>6, <2>7 DEF Quotient
  <2>11. dividend % divisor = 0 => StrippedTo(whole, b - h) \in Decs
    BY <2>8, <2>9, b - h \in Int, StrippedSame
  <2>12. QED
    BY <2>9, <2>10, <2>11, ContextFits
<1>5. QED
  BY <1>1, <1>3, <1>4

LEMMA RatioFits ==
    ASSUME NEW x \in Decs, NEW y \in Decs, y[1] # 0
    PROVE  /\ Ratio(x, y) \in Int
           /\ Fits(Remainder(x, y))
           /\ Digits(Ratio(x, y)) <= Prec => Fits(WholeQuotient(x, y))
<1>1. PICK e \in Int : e = LowerExponent(x, y) /\ e <= x[2] /\ e <= y[2]
  BY LowerType
<1>2. PICK a \in Int, b \in Int : a = At(x, e) /\ b = At(y, e) /\ b # 0
  <2>1. At(x, e) \in Int /\ At(y, e) \in Int
    BY <1>1, AtType
  <2>2. At(y, e) # 0
    BY <1>1, SignAt DEF Decs
  <2>3. QED
    BY <2>1, <2>2
<1>3. PICK m \in Nat, n \in Nat \ {0} : m = Size(a) /\ n = Size(b)
  BY <1>2 DEF Size
<1>4. PICK q \in Int : q = m \div n
  BY <1>3, DivMod
<1>5. PICK r \in Int : r = Ratio(x, y)
  BY <1>1, <1>2, <1>3, <1>4 DEF Ratio
<1>6. PICK d : d = <<a - r * b, e>>
  OBVIOUS
<1>7. d \in Decs
  BY <1>1, <1>2, <1>5, <1>6, a - r * b \in Int DEF Decs
<1>8. Remainder(x, y) = InContext(d)
  BY <1>1, <1>2, <1>5, <1>6 DEF Remainder
<1>9. PICK z \in Int : z = 0
  OBVIOUS
<1>10. WholeQuotient(x, y) = <<r, z>>
  BY <1>5, <1>9 DEF WholeQuotient
<1>11. QED
  BY <1>5, <1>7, <1>8, <1>10, ContextFits DEF Fits, Decs

LEMMA NegatedFits ==
    ASSUME NEW d \in Decs
    PROVE  Fits(Negated(d))
<1>1. <<-d[1], d[2]>> \in Decs
  BY DEF Decs
<1>2. QED
  BY <1>1, ContextFits DEF Negated

(* What they make Python numbers of.                                       *)
IsNew(node) == /\ node[1] \in {"Decimal", "ContractingDecimal"} /\ Fits(node[2])
               /\ node = <<node[1], node[2]>>

LEMMA WrappedFits ==
    ASSUME NEW x, NEW y, NEW d, Fits(d), IsDecimal(Wrapped(x, y, d))
    PROVE  IsNew(Wrapped(x, y, d))
<1>1. d \in Decs /\ Digits(d[1]) <= Prec
  BY DEF Fits
<1>2. CASE "ContractingDecimal" \in {x[1], y[1]}
  <2>1. Wrapped(x, y, d) = FixPrecision(d)
    BY <1>2 DEF Wrapped
  <2>2. FixedAs(d, FixPrecision(d)[2])
    BY <1>1, <2>1, FixedIs
  <2>3. Fits(FixPrecision(d)[2])
    BY <1>1, <2>2, FixedType, FixedDigits DEF Fits
  <2>4. FixPrecision(d) = <<FixPrecision(d)[1], FixPrecision(d)[2]>>
    BY <2>1 DEF FixPrecision, Quantized, IsDecimal
  <2>5. QED
    BY <2>1, <2>3, <2>4 DEF IsNew, IsDecimal
<1>3. CASE ~("ContractingDecimal" \in {x[1], y[1]})
  <2>1. Wrapped(x, y, d) = <<"Decimal", d>>
    BY <1>3 DEF Wrapped
  <2>2. QED
    BY <2>1 DEF IsNew
<1>4. QED
  BY <1>2, <1>3

-----------------------------------------------------------------------------
(* Timedeltas, which datetime.timedelta normalizes.                        *)
LEMMA DayType == SecondsInDay \in Nat \ {0} /\ Tick \in Nat \ {0}
BY TimesAssumption DEF SecondsInDay

IsSpanOf(t, n) ==
    /\ n \in Int
    /\ \E a \in Int, b \in 0..(SecondsInDay - 1) :
         t = <<"Timedelta", <<a, b>>, n>> /\ n = a * SecondsInDay + b

LEMMA SpanOf ==
    ASSUME NEW t, NEW n, IsSpanOf(t, n)
    PROVE  IsSpan(t) /\ t[1] = "Timedelta" /\ t[3] = n /\ Span(t) = n
<1>1. PICK a \in Int, b \in 0..(SecondsInDay - 1) :
        t = <<"Timedelta", <<a, b>>, n>> /\ n = a * SecondsInDay + b
  BY DEF IsSpanOf
<1>2. t[2] = <<a, b>> /\ t[2][1] = a /\ t[2][2] = b /\ t[1] = "Timedelta" /\ t[3] = n
  BY <1>1
<1>3. Span(t) = n
  BY <1>1, <1>2 DEF Span
<1>4. QED
  BY <1>1, <1>2, <1>3 DEF IsSpan

LEMMA SpanIs ==
    ASSUME NEW t, IsSpan(t)
    PROVE  /\ IsSpanOf(t, t[3])
           /\ t[2][1] \in Int /\ t[2][2] \in 0..(SecondsInDay - 1)
           /\ t[3] = t[2][1] * SecondsInDay + t[2][2]
<1>1. PICK a \in Int, b \in 0..(SecondsInDay - 1) : t[2] = <<a, b>>
  BY DEF IsSpan
<1>2. t[2][1] = a /\ t[2][2] = b
  BY <1>1
<1>3. t = <<"Timedelta", <<a, b>>, a * SecondsInDay + b>>
  BY <1>1, <1>2 DEF IsSpan, Span
<1>4. t[3] = a * SecondsInDay + b /\ t[3] \in Int
  <2>1. PICK n \in Nat \ {0} : n = SecondsInDay
    BY DayType
  <2>2. a * n + b \in Int
    BY <2>1
  <2>3. QED
    BY <1>3, <2>1, <2>2
<1>5. QED
  BY <1>2, <1>3, <1>4 DEF IsSpanOf

LEMMA NormalizedSpan ==
    ASSUME NEW i \in Int, NEW s \in Int
    PROVE  IsSpanOf(OfDaysSeconds(i, s), i * SecondsInDay + s)
<1>1. PICK n \in Nat \ {0} : n = SecondsInDay
  BY DayType
<1>2. PICK q \in Int : \E r \in 0..(n - 1) : s \div n = q /\ (s % n) = r /\ s = q * n + r
  BY DivParts
<1>3. PICK r \in 0..(n - 1) : s \div n = q /\ (s % n) = r /\ s = q * n + r
  BY <1>2
<1>4. /\ s + 60 * 0 + 3600 * 0 = s
      /\ 7 * 0 + i + q = i + q
      /\ s + 0 * 60 + 0 * 3600 + i * n + 0 * 604800 = i * n + s
  OBVIOUS
<1>5. Delta(0, i, 0, 0, s) = <<i + q, r>>
  <2>1. Delta(0, i, 0, 0, s) = <<7 * 0 + i + (s \div n), s % n>>
    BY <1>1, <1>4 DEF Delta, SecondsInDay
  <2>2. QED
    BY <1>3, <1>4, <2>1
<1>6. RawSeconds(0, i, 0, 0, s) = i * n + s
  BY <1>1, <1>4 DEF RawSeconds, SecondsInMinute, SecondsInHour, SecondsInDay, SecondsInWeek
<1>7. OfDaysSeconds(i, s) = <<"Timedelta", <<i + q, r>>, i * n + s>>
  BY <1>5, <1>6 DEF OfDaysSeconds, Timedelta
<1>8. i * n + s = (i + q) * n + r /\ i * n + s \in Int /\ i + q \in Int
  BY <1>3
<1>9. QED
  BY <1>1, <1>7, <1>8 DEF IsSpanOf

(* A Timedelta is made of its days and seconds.                            *)
LEMMA SpanKept ==
    ASSUME NEW t, IsSpan(t)
    PROVE  OfDaysSeconds(t[2][1], t[2][2]) = t
<1>1. PICK a \in Int, b \in 0..(SecondsInDay - 1) : a = t[2][1] /\ b = t[2][2]
  BY SpanIs
<1>2. PICK n \in Nat \ {0} : n = SecondsInDay
  BY DayType
<1>3. PICK u : u = OfDaysSeconds(a, b)
  OBVIOUS
<1>4. IsSpanOf(u, a * n + b)
  BY <1>1, <1>2, <1>3, b \in Int, NormalizedSpan
<1>5. PICK c \in Int, d \in 0..(n - 1) :
        u = <<"Timedelta", <<c, d>>, a * n + b>> /\ a * n + b = c * n + d
  BY <1>2, <1>4 DEF IsSpanOf
<1>6. c = a /\ d = b
  <2>1. (a * n + b) \div n = a /\ (a * n + b) % n = b
    BY <1>1, <1>2, DivUnique
  <2>2. (c * n + d) \div n = c /\ (c * n + d) % n = d
    BY <1>5, DivUnique
  <2>3. QED
    BY <1>5, <2>1, <2>2
<1>7. t = <<"Timedelta", <<a, b>>, a * n + b>>
  <2>1. t[2] = <<a, b>>
    BY <1>1 DEF IsSpan
  <2>2. QED
    BY <1>1, <1>2, <2>1 DEF IsSpan, Span
<1>8. QED
  BY <1>1, <1>3, <1>5, <1>6, <1>7

LEMMA ShorterIs ==
    ASSUME NEW t, NEW m, IsSpanOf(t, m), NEW u, NEW n, IsSpanOf(u, n)
    PROVE  Shorter(t, u) <=> m < n
<1>1. PICK a \in Int, b \in 0..(SecondsInDay - 1) :
        t = <<"Timedelta", <<a, b>>, m>> /\ m = a * SecondsInDay + b
  BY DEF IsSpanOf
<1>2. PICK c \in Int, d \in 0..(SecondsInDay - 1) :
        u = <<"Timedelta", <<c, d>>, n>> /\ n = c * SecondsInDay + d
  BY DEF IsSpanOf
<1>3. Shorter(t, u) <=> a < c \/ (a = c /\ b < d)
  BY <1>1, <1>2 DEF Shorter
<1>4. PICK k \in Nat \ {0} : k = SecondsInDay
  BY DayType
<1>5. a < c \/ (a = c /\ b < d) <=> a * k + b < c * k + d
  <2>1. b \in 0..(k - 1) /\ d \in 0..(k - 1)
    BY <1>4
  <2>2. CASE a < c
    <3>1. a + 1 <= c /\ (a + 1) * k <= c * k
      BY <2>2, a + 1 \in Int, TimesMore
    <3>2. QED
      BY <2>1, <2>2, <3>1, (a + 1) * k = a * k + k, a * k \in Int, c * k \in Int
  <2>3. CASE c < a
    <3>1. c + 1 <= a /\ (c + 1) * k <= a * k
      BY <2>3, c + 1 \in Int, TimesMore
    <3>2. QED
      BY <2>1, <2>3, <3>1, (c + 1) * k = c * k + k, a * k \in Int, c * k \in Int
  <2>4. CASE a = c
    BY <2>1, <2>4, a * k \in Int
  <2>5. QED
    BY <2>2, <2>3, <2>4
<1>6. QED
  BY <1>1, <1>2, <1>3, <1>4, <1>5

(* The operations of two Timedeltas, and those with an integer.            *)
LEMMA SpansOf ==
    ASSUME NEW t, IsSpan(t), NEW u, IsSpan(u), NEW n \in Int
    PROVE  /\ IsSpan(PlusDelta(t, u)) /\ IsSpan(MinusDelta(t, u)) /\ IsSpan(TimesDelta(t, u))
           /\ IsSpanOf(TimesInt(t, n), t[3] * n)
<1>1. PICK a \in Int, b \in Int : a = t[2][1] /\ b = t[2][2] /\ t[3] = a * SecondsInDay + b
  BY SpanIs
<1>2. PICK c \in Int, d \in Int : c = u[2][1] /\ d = u[2][2]
  BY SpanIs
<1>3. /\ a + c \in Int /\ b + d \in Int /\ a - c \in Int /\ b - d \in Int
      /\ a * c \in Int /\ b * d \in Int /\ a * n \in Int /\ b * n \in Int
  OBVIOUS
<1>4. IsSpan(PlusDelta(t, u))
  BY <1>1, <1>2, <1>3, NormalizedSpan, SpanOf DEF PlusDelta
<1>5. IsSpan(MinusDelta(t, u))
  BY <1>1, <1>2, <1>3, NormalizedSpan, SpanOf DEF MinusDelta
<1>6. IsSpan(TimesDelta(t, u))
  BY <1>1, <1>2, <1>3, NormalizedSpan, SpanOf DEF TimesDelta
<1>7. IsSpanOf(TimesInt(t, n), (a * n) * SecondsInDay + b * n)
  BY <1>1, <1>3, NormalizedSpan DEF TimesInt
<1>8. (a * n) * SecondsInDay + b * n = (a * SecondsInDay + b) * n
  <2>1. PICK k \in Nat \ {0} : k = SecondsInDay
    BY DayType
  <2>2. (a * n) * k + b * n = (a * k + b) * n
    OBVIOUS
  <2>3. QED
    BY <2>1, <2>2
<1>9. QED
  BY <1>1, <1>4, <1>5, <1>6, <1>7, <1>8

LEMMA SinceIs ==
    ASSUME NEW c, c[2] \in Int, NEW d, d[2] \in Int
    PROVE  IsSpanOf(Since(c, d), (c[2] - d[2]) \div Tick)
<1>1. PICK m \in Int : m = c[2] - d[2]
  OBVIOUS
<1>2. PICK w \in Int : w = m \div Tick
  BY DayType, DivMod
<1>3. PICK k \in Nat \ {0} : k = SecondsInDay
  BY DayType
<1>4. PICK q \in Int, r \in Int : w \div k = q /\ (w % k) = r /\ w = q * k + r
  <2>1. PICK q \in Int : \E r \in 0..(k - 1) : w \div k = q /\ (w % k) = r /\ w = q * k + r
    BY DivParts
  <2>2. QED
    BY <2>1
<1>5. Since(c, d) = OfDaysSeconds(q, r)
  BY <1>1, <1>2, <1>3, <1>4 DEF Since
<1>6. QED
  BY <1>1, <1>2, <1>3, <1>4, <1>5, NormalizedSpan

(* A second of the later moment is all that can be missing.                *)
LEMMA LeadsBack ==
    ASSUME NEW c, c[2] \in Int, NEW d, d[2] \in Int,
           NEW gap, gap = Since(c, d), NEW back, back = After(d, gap)
    PROVE  /\ ~Earlier(c, back)
           /\ c[2] - back[2] < Tick
           /\ Seconds(gap) > 0 => Earlier(d, c)
           /\ Earlier(c, d) => Seconds(gap) < 0
<1>1. PICK i \in Int, j \in Int, k \in Nat \ {0} : i = c[2] /\ j = d[2] /\ k = Tick
  BY DayType
<1>2. PICK w \in Int : \E r \in 0..(k - 1) :
        (i - j) \div k = w /\ ((i - j) % k) = r /\ i - j = w * k + r
  BY <1>1, i - j \in Int, DivParts
<1>3. PICK r \in 0..(k - 1) : (i - j) \div k = w /\ i - j = w * k + r
  BY <1>2
<1>4. IsSpanOf(gap, w)
  BY <1>1, <1>3, SinceIs
<1>5. Span(gap) = w /\ Seconds(gap) = w
  BY <1>4, SpanOf DEF Seconds
<1>6. back[2] = j + w * k
  BY <1>1, <1>5 DEF After, Datetime
<1>7. /\ w > 0 => w * k > 0
      /\ w >= 0 => w * k >= 0
  <2>1. w \in Nat => w * k \in Nat
    OBVIOUS
  <2>2. w \in Nat \ {0} => w * k \in Nat \ {0}
    OBVIOUS
  <2>3. QED
    BY <2>1, <2>2
<1>8. w * k \in Int /\ w * k + r >= w * k /\ w * k + r < w * k + k
  OBVIOUS
<1>9. /\ ~(i < j + w * k) /\ i - (j + w * k) < k
  BY <1>3, <1>8
<1>10. w > 0 => j < i
  BY <1>3, <1>7, <1>8
<1>11. i < j => w < 0
  BY <1>3, <1>7, <1>8
<1>12. QED
  BY <1>1, <1>5, <1>6, <1>9, <1>10, <1>11 DEF Earlier

(* How many weeks, days, hours, minutes and seconds there are.             *)
LEMMA PartsOf ==
    ASSUME NEW t, IsSpan(t), NEW w, NEW n \in Nat \ {0}, IsSpanOf(w, n),
           NEW count, count = t[3] \div n
    PROVE  ~Shorter(t, TimesInt(w, count)) /\ Shorter(t, TimesInt(w, count + 1))
<1>1. PICK s \in Int : s = t[3] /\ IsSpanOf(t, s)
  BY SpanIs DEF IsSpanOf
<1>2. PICK q \in Int : \E r \in 0..(n - 1) :
        s \div n = q /\ (s % n) = r /\ s = q * n + r
  BY DivParts
<1>3. PICK r \in 0..(n - 1) : s \div n = q /\ s = q * n + r
  BY <1>2
<1>4. count = q /\ q + 1 \in Int
  BY <1>1, <1>3
<1>5. w[3] = n /\ IsSpan(w)
  BY SpanOf
<1>6. IsSpanOf(TimesInt(w, q), n * q) /\ IsSpanOf(TimesInt(w, q + 1), n * (q + 1))
  BY <1>4, <1>5, SpansOf
<1>7. n * q = q * n /\ n * (q + 1) = q * n + n /\ q * n \in Int
  OBVIOUS
<1>8. ~(s < n * q) /\ s < n * (q + 1)
  BY <1>3, <1>7
<1>9. QED
  BY <1>1, <1>4, <1>6, <1>8, ShorterIs

LEMMA UnitsAre ==
    /\ IsSpanOf(Timedelta(1, 0, 0, 0, 0), 604800)
    /\ IsSpanOf(Timedelta(0, 1, 0, 0, 0), 86400)
    /\ IsSpanOf(Timedelta(0, 0, 1, 0, 0), 3600)
    /\ IsSpanOf(Timedelta(0, 0, 0, 1, 0), 60)
    /\ IsSpanOf(Timedelta(0, 0, 0, 0, 1), 1)
<1>1. Timedelta(1, 0, 0, 0, 0) = <<"Timedelta", <<7, 0>>, 604800>>
  BY DEF Timedelta, Delta, RawSeconds, SecondsInMinute, SecondsInHour, SecondsInDay,
         SecondsInWeek
<1>2. Timedelta(0, 1, 0, 0, 0) = <<"Timedelta", <<1, 0>>, 86400>>
  BY DEF Timedelta, Delta, RawSeconds, SecondsInMinute, SecondsInHour, SecondsInDay,
         SecondsInWeek
<1>3. Timedelta(0, 0, 1, 0, 0) = <<"Timedelta", <<0, 3600>>, 3600>>
  BY DEF Timedelta, Delta, RawSeconds, SecondsInMinute, SecondsInHour, SecondsInDay,
         SecondsInWeek
<1>4. Timedelta(0, 0, 0, 1, 0) = <<"Timedelta", <<0, 60>>, 60>>
  BY DEF Timedelta, Delta, RawSeconds, SecondsInMinute, SecondsInHour, SecondsInDay,
         SecondsInWeek
<1>5. Timedelta(0, 0, 0, 0, 1) = <<"Timedelta", <<0, 1>>, 1>>
  BY DEF Timedelta, Delta, RawSeconds, SecondsInMinute, SecondsInHour, SecondsInDay,
         SecondsInWeek
<1>6. /\ 604800 = 7 * SecondsInDay + 0 /\ 86400 = 1 * SecondsInDay + 0
      /\ 3600 = 0 * SecondsInDay + 3600 /\ 60 = 0 * SecondsInDay + 60
      /\ 1 = 0 * SecondsInDay + 1
      /\ {0, 1, 60, 3600} \subseteq 0..(SecondsInDay - 1)
  BY DEF SecondsInDay
<1>7. QED
  BY <1>1, <1>2, <1>3, <1>4, <1>5, <1>6 DEF IsSpanOf

LEMMA PartsOfAll ==
    ASSUME NEW t, IsSpan(t), NEW w \in Units
    PROVE  LET count == CASE Seconds(w) = SecondsInWeek -> Weeks(t)
                          [] Seconds(w) = SecondsInDay -> Days(t)
                          [] Seconds(w) = SecondsInHour -> Hours(t)
                          [] Seconds(w) = SecondsInMinute -> Minutes(t)
                          [] OTHER -> Seconds(t)
           IN  ~Shorter(t, TimesInt(w, count)) /\ Shorter(t, TimesInt(w, count + 1))
<1> DEFINE count == CASE Seconds(w) = SecondsInWeek -> Weeks(t)
                      [] Seconds(w) = SecondsInDay -> Days(t)
                      [] Seconds(w) = SecondsInHour -> Hours(t)
                      [] Seconds(w) = SecondsInMinute -> Minutes(t)
                      [] OTHER -> Seconds(t)
<1>1. PICK n \in {SecondsInWeek, SecondsInDay, SecondsInHour, SecondsInMinute, 1} :
        IsSpanOf(w, n)
  BY UnitsAre DEF Units, SecondsInWeek, SecondsInDay, SecondsInHour, SecondsInMinute
<1>2. Seconds(w) = n
  BY <1>1, SpanOf DEF Seconds
<1>3. t[3] \in Int
  BY SpanIs DEF IsSpanOf
<1>4. count = t[3] \div n
  <2>1. /\ SecondsInDay # SecondsInWeek
        /\ SecondsInHour \notin {SecondsInWeek, SecondsInDay}
        /\ SecondsInMinute \notin {SecondsInWeek, SecondsInDay, SecondsInHour}
        /\ 1 \notin {SecondsInWeek, SecondsInDay, SecondsInHour, SecondsInMinute}
    BY DEF SecondsInWeek, SecondsInDay, SecondsInHour, SecondsInMinute
  <2>2. CASE n = SecondsInWeek
    BY <1>2, <2>1, <2>2 DEF Weeks
  <2>3. CASE n = SecondsInDay
    BY <1>2, <2>1, <2>3 DEF Days
  <2>4. CASE n = SecondsInHour
    BY <1>2, <2>1, <2>4 DEF Hours
  <2>5. CASE n = SecondsInMinute
    BY <1>2, <2>1, <2>5 DEF Minutes
  <2>6. CASE n = 1
    <3>1. count = t[3]
      BY <1>2, <2>1, <2>6 DEF Seconds
    <3>2. t[3] = t[3] \div 1
      BY <1>3
    <3>3. QED
      BY <2>6, <3>1, <3>2
  <2>7. QED
    BY <1>1, <2>2, <2>3, <2>4, <2>5, <2>6
<1>5. n \in Nat \ {0}
  BY <1>1 DEF SecondsInWeek, SecondsInDay, SecondsInHour, SecondsInMinute
<1> HIDE DEF count
<1>6. ~Shorter(t, TimesInt(w, count)) /\ Shorter(t, TimesInt(w, count + 1))
  BY <1>1, <1>4, <1>5, PartsOf
<1>7. QED
  BY <1>6 DEF count

-----------------------------------------------------------------------------
(* One node: what as_object makes of what Default makes of it.             *)
LEMMA EncodeIntIs ==
    ASSUME NEW n
    PROVE  /\ EncodeInt(n) \in {<<"int", n>>, <<"__big_int__", n>>}
           /\ EncodeInt(n)[1] = "int" =>
                EncodeInt(n)[2] = n /\ MongoMin < n /\ n < MongoMax
BY DEF EncodeInt

LEMMA MomentKept ==
    ASSUME NEW m \in Int
    PROVE  AsObject(<<"__time__", Fields(m)>>) = Datetime(m)
<1>1. PICK n \in Nat \ {0} : n = SecondsInDay * Tick
  <2>1. PICK j \in Nat \ {0}, k \in Nat \ {0} : j = SecondsInDay /\ k = Tick
    BY DayType
  <2>2. j * k \in Nat \ {0}
    OBVIOUS
  <2>3. QED
    BY <2>1, <2>2
<1>2. m = (m \div n) * n + (m % n)
  BY DivMod
<1>3. Fields(m) = <<m \div n, m % n>>
  BY <1>1 DEF Fields
<1>4. AsObject(<<"__time__", Fields(m)>>) = Datetime(Fields(m)[1] * n + Fields(m)[2])
  BY <1>1 DEF AsObject
<1>5. QED
  BY <1>2, <1>3, <1>4

Coded(node, reached) ==
    Default(IF node[1] = "int" /\ reached THEN EncodeInt(node[2]) ELSE node)

LEMMA MomentsType == Moments \subseteq Int
<1>1. PICK l \in Int : l = LastDay * SecondsInDay * Tick - 1
  <2>1. PICK i \in Int, j \in Int, k \in Int : i = LastDay /\ j = SecondsInDay /\ k = Tick
    BY DayType, TimesAssumption
  <2>2. i * j * k - 1 \in Int
    OBVIOUS
  <2>3. QED
    BY <2>1, <2>2
<1>2. QED
  BY <1>1 DEF Moments

(* Whatever is no decimal comes back as JSON has it.                       *)
LEMMA JsonIs ==
    ASSUME NEW node
    PROVE  /\ node[1] = "dict" => JsonForm(node) = PyDict
           /\ node = PyTuple => JsonForm(node) = PyList
           /\ node[1] # "dict" /\ node # PyTuple => JsonForm(node) = node
           /\ JsonForm(JsonForm(node)) = JsonForm(node)
<1>1. PyTuple[1] # "dict" /\ PyList[1] # "dict" /\ PyList # PyTuple /\ PyDict[1] = "dict"
  BY DEF PyTuple, PyList, PyDict, DictOver
<1>2. /\ node[1] = "dict" => JsonForm(node) = PyDict
      /\ node = PyTuple => JsonForm(node) = PyList
      /\ node[1] # "dict" /\ node # PyTuple => JsonForm(node) = node
  BY <1>1 DEF JsonForm
<1>3. JsonForm(PyDict) = PyDict /\ JsonForm(PyList) = PyList
  BY <1>1 DEF JsonForm
<1>4. CASE node[1] = "dict"
  BY <1>2, <1>3, <1>4
<1>5. CASE node = PyTuple
  BY <1>2, <1>3, <1>5
<1>6. CASE node[1] # "dict" /\ node # PyTuple
  BY <1>2, <1>6
<1>7. QED
  BY <1>4, <1>5, <1>6, <1>2

LEMMA OtherKept ==
    ASSUME NEW node, IsData(node), ~IsDecimal(node), NEW reached \in BOOLEAN
    PROVE  /\ AsObject(Coded(node, reached)) = JsonForm(node)
           /\ Coded(node, reached)[1] # "__fixed__"
           /\ node[1] = "dict" => Coded(node, reached) = PyDict
           /\ node \in {PyList, PyTuple} => Coded(node, reached) = PyList
           /\ Coded(node, reached) = PyDict => node[1] = "dict"
<1>d. CASE node \in {"dict"} \X SUBSET STRING
  <2>1. node[1] = "dict"
    BY <1>d
  <2>2. Coded(node, reached) = PyDict
    BY <2>1 DEF Coded, Default, PyTuple
  <2>3. AsObject(PyDict) = PyDict /\ PyDict[1] = "dict"
    BY DEF AsObject, PyDict, DictOver
  <2>4. node # PyTuple /\ node # PyList
    BY <2>1 DEF PyTuple, PyList
  <2>5. QED
    BY <2>1, <2>2, <2>3, <2>4, JsonIs
<1>t. CASE node = PyTuple
  <2>1. node[1] = "tuple"
    BY <1>t DEF PyTuple
  <2>2. Coded(node, reached) = PyList
    BY <1>t, <2>1 DEF Coded, Default
  <2>3. AsObject(PyList) = PyList /\ PyList[1] = "list" /\ PyDict[1] = "dict"
    BY DEF AsObject, PyList, PyDict, DictOver
  <2>4. QED
    BY <1>t, <2>1, <2>2, <2>3, JsonIs
<1> SUFFICES ASSUME node[1] # "dict", node # PyTuple
             PROVE  /\ AsObject(Coded(node, reached)) = node
                    /\ Coded(node, reached)[1] \notin {"__fixed__", "dict"}
                    /\ node = PyList => Coded(node, reached) = PyList
  <2>1. PyDict[1] = "dict"
    BY DEF PyDict, DictOver
  <2>2. CASE node[1] = "dict"
    <3>1. node \in {"dict"} \X SUBSET STRING
      BY <2>2 DEF IsData, IsSpan, IsDecimal, PyList, PyTuple
    <3>2. QED
      BY <1>d, <3>1
  <2>3. QED
    BY <1>t, <2>1, <2>2, JsonIs
<1>0. CASE node \in {"dict"} \X SUBSET STRING
  BY <1>0
<1>1. CASE node \in {PyList, PyTuple, <<"None">>}
  BY <1>1 DEF Coded, Default, AsObject, PyList
<1>2. CASE node \in {"bool"} \X BOOLEAN
  <2>1. PICK b \in BOOLEAN : node = <<"bool", b>>
    BY <1>2
  <2>2. QED
    BY <2>1 DEF Coded, Default, AsObject, PyList, PyTuple
<1>3. CASE node \in {"str", "bytes"} \X STRING
  <2>1. PICK t, b : t \in {"str", "bytes"} /\ node = <<t, b>>
    <3>1. node[1] \in {"str", "bytes"} /\ node = <<node[1], node[2]>>
      BY <1>3
    <3>2. QED
      BY <3>1
  <2>2. CASE t = "str"
    <3>1. node = <<"str", b>> /\ node[1] = "str"
      BY <2>1, <2>2
    <3>2. Coded(node, reached) = node
      BY <3>1 DEF Coded, Default
    <3>3. QED
      BY <3>1, <3>2 DEF AsObject, PyList
  <2>3. CASE t = "bytes"
    <3>1. node = <<"bytes", b>> /\ node[1] = "bytes" /\ node[2] = b
      BY <2>1, <2>3
    <3>2. Coded(node, reached) = <<"__bytes__", b>>
      BY <3>1 DEF Coded, Default
    <3>3. AsObject(<<"__bytes__", b>>) = <<"bytes", b>>
      BY DEF AsObject
    <3>4. QED
      BY <3>1, <3>2, <3>3 DEF PyList, PyTuple
  <2>4. QED
    BY <2>1, <2>2, <2>3
<1>4. CASE node \in {"int"} \X Int
  <2>1. PICK n \in Int : node = <<"int", n>>
    BY <1>4
  <2>2. Coded(node, reached) \in {<<"int", n>>, <<"__big_int__", n>>}
    BY <2>1, EncodeIntIs DEF Coded, Default, PyTuple
  <2>3. QED
    BY <2>1, <2>2 DEF AsObject, PyList, PyTuple
<1>5. CASE node \in {"Datetime"} \X Moments
  <2>1. PICK m \in Int : node = <<"Datetime", m>>
    <3>1. node[2] \in Moments /\ node = <<"Datetime", node[2]>>
      BY <1>5
    <3>2. QED
      BY <3>1, MomentsType
  <2>2. Coded(node, reached) = <<"__time__", Fields(m)>>
    BY <2>1 DEF Coded, Default
  <2>3. AsObject(Coded(node, reached)) = node
    BY <2>1, <2>2, MomentKept DEF Datetime
  <2>4. QED
    BY <2>1, <2>2, <2>3 DEF PyList, PyTuple
<1>6. CASE IsSpan(node)
  <2>1. node[1] = "Timedelta"
    BY <1>6 DEF IsSpan
  <2>2. Coded(node, reached) = <<"__delta__", node[2]>>
    BY <2>1 DEF Coded, Default
  <2>3. AsObject(<<"__delta__", node[2]>>) = OfDaysSeconds(node[2][1], node[2][2])
    BY DEF AsObject
  <2>4. QED
    BY <1>6, <2>1, <2>2, <2>3, SpanKept DEF PyList, PyTuple
<1>7. CASE node \in {"Decimal", "ContractingDecimal"} \X (Int \X (MinExponent..MaxExponent))
  BY <1>7 DEF IsDecimal
<1>8. QED
  BY <1>0, <1>1, <1>2, <1>3, <1>4, <1>5, <1>6, <1>7 DEF IsData

(* A decimal comes back fixed.                                             *)
LEMMA DecimalFixed ==
    ASSUME NEW node, IsData(node), IsDecimal(node), NEW reached \in BOOLEAN
    PROVE  /\ node[2] \in Decs /\ node[2][2] \in MinExponent..MaxExponent
           /\ node = <<node[1], node[2]>>
           /\ FixedAs(node[2], FixPrecision(node[2])[2])
           /\ Coded(node, reached) = <<"__fixed__", FixPrecision(node[2])[2]>>
           /\ AsObject(Coded(node, reached)) =
                <<"ContractingDecimal", FixPrecision(node[2])[2]>>
<1>1. /\ node \in {"Decimal", "ContractingDecimal"} \X (Int \X (MinExponent..MaxExponent))
      /\ IsDecimal(FixPrecision(node[2]))
  BY DEF IsData, IsDecimal, IsSpan, PyTuple, PyList
<1>2. PICK t \in {"Decimal", "ContractingDecimal"}, d \in Int \X (MinExponent..MaxExponent) :
        node = <<t, d>>
  BY <1>1
<1>3. d \in Decs /\ d[2] \in MinExponent..MaxExponent
  BY DEF Decs
<1>4. FixedAs(d, FixPrecision(d)[2])
  BY <1>1, <1>2, <1>3, FixedIs
<1>5. Coded(node, reached) = <<"__fixed__", FixPrecision(d)[2]>>
  BY <1>2 DEF Coded, Default
<1>6. QED
  BY <1>2, <1>3, <1>4, <1>5 DEF AsObject

(* And stays as it came back.                                              *)
LEMMA FixedData ==
    ASSUME NEW d \in Decs, d[2] \in MinExponent..MaxExponent, NEW b, FixedAs(d, b)
    PROVE  /\ IsData(<<"ContractingDecimal", b>>)
           /\ FixPrecision(b)[2] = b
<1>1. b \in Decs /\ FixedAs(b, b) /\ b[2] \in MinExponent..MaxExponent
  BY FixedType, FixedOnce, FixedExponent
<1>2. IsDecimal(FixPrecision(b)) /\ FixPrecision(b)[2] = b
  BY <1>1, FixedConversely
<1>3. b \in Int \X (MinExponent..MaxExponent)
  BY <1>1 DEF Decs
<1>4. <<"ContractingDecimal", b>> \in
        {"Decimal", "ContractingDecimal"} \X (Int \X (MinExponent..MaxExponent))
  BY <1>3
<1>5. <<"ContractingDecimal", b>>[2] = b
  OBVIOUS
<1>6. QED
  BY <1>2, <1>4, <1>5 DEF IsData

LEMMA NodeOnce ==
    ASSUME NEW node, IsData(node), NEW reached \in BOOLEAN,
           NEW back, back = AsObject(Coded(node, reached))
    PROVE  /\ IsData(back)
           /\ IsDecimal(back) <=> IsDecimal(node)
           /\ JsonForm(back) = back
           /\ \A again \in BOOLEAN : AsObject(Coded(back, again)) = back
           /\ ~IsDecimal(node) => back = JsonForm(node)
<1>1. CASE ~IsDecimal(node)
  <2>1. back = JsonForm(node)
    BY <1>1, OtherKept
  <2>2. JsonForm(back) = back
    BY <2>1, JsonIs
  <2>3. IsData(back) /\ ~IsDecimal(back)
    <3>1. PyDict \in {"dict"} \X SUBSET STRING /\ PyDict[1] = "dict" /\ PyList[1] = "list"
      BY DEF PyDict, DictOver, PyList
    <3>2. IsData(PyDict) /\ IsData(PyList)
      BY <3>1 DEF IsData
    <3>3. ~IsDecimal(PyDict) /\ ~IsDecimal(PyList)
      BY <3>1 DEF IsDecimal
    <3>4. back \in {node, PyDict, PyList}
      BY <2>1, JsonIs
    <3>5. QED
      BY <1>1, <3>2, <3>3, <3>4
  <2>4. \A again \in BOOLEAN : AsObject(Coded(back, again)) = back
    BY <2>2, <2>3, OtherKept
  <2>5. QED
    BY <1>1, <2>1, <2>2, <2>3, <2>4
<1>2. CASE IsDecimal(node)
  <2>1. PICK d, b : /\ d = node[2] /\ b = FixPrecision(d)[2]
                    /\ d \in Decs /\ d[2] \in MinExponent..MaxExponent /\ FixedAs(d, b)
                    /\ Coded(node, reached) = <<"__fixed__", b>>
                    /\ back = <<"ContractingDecimal", b>>
    BY <1>2, DecimalFixed
  <2>2. IsData(back) /\ FixPrecision(b)[2] = b
    BY <2>1, FixedData
  <2>3. IsDecimal(back) /\ back[2] = b
    BY <2>1 DEF IsDecimal
  <2>4. \A again \in BOOLEAN : AsObject(Coded(back, again)) = back
    <3>1. ASSUME NEW again \in BOOLEAN
          PROVE  AsObject(Coded(back, again)) = <<"ContractingDecimal", FixPrecision(back[2])[2]>>
      BY <2>2, <2>3, DecimalFixed
    <3>2. QED
      BY <2>1, <2>2, <2>3, <3>1
  <2>5. JsonForm(back) = back
    <3>1. back[1] = "ContractingDecimal"
      BY <2>1
    <3>2. back[1] # "dict" /\ back # PyTuple
      BY <3>1 DEF PyTuple
    <3>3. QED
      BY <3>2, JsonIs
  <2>6. QED
    BY <1>2, <2>2, <2>3, <2>4, <2>5
<1>3. QED
  BY <1>1, <1>2

-----------------------------------------------------------------------------
(* Trees.                                                                  *)
AllData(v) == IsTree(v) /\ \A p \in DOMAIN v : IsData(v[p])

LEMMA EncodeIs ==
    ASSUME NEW v
    PROVE  /\ Encode(v) = [p \in DOMAIN v |-> Coded(v[p], Reached(v, p))]
           /\ Decode(Encode(v)) = [p \in DOMAIN v |-> AsObject(Coded(v[p], Reached(v, p)))]
<1>1. Encode(v) = [p \in DOMAIN v |-> Coded(v[p], Reached(v, p))]
  <2>1. DOMAIN EncodeInts(v) = DOMAIN v
    BY DEF EncodeInts
  <2>2. ASSUME NEW p \in DOMAIN v PROVE Default(EncodeInts(v)[p]) = Coded(v[p], Reached(v, p))
    BY DEF EncodeInts, Coded
  <2>3. QED
    BY <2>1, <2>2 DEF Encode, Dumps
<1>2. QED
  BY <1>1 DEF Decode

LEMMA ReachedType == \A v, p : Reached(v, p) \in BOOLEAN
BY DEF Reached

LEMMA BackIs ==
    ASSUME NEW v, AllData(v), NEW back, back = Decode(Encode(v))
    PROVE  /\ DOMAIN back = DOMAIN v
           /\ AllData(back)
           /\ AsJson(back) = back
           /\ Decode(Encode(back)) = back
           /\ HasDecimal(back) <=> HasDecimal(v)
           /\ ~HasDecimal(v) => back = AsJson(v)
<1>1. back = [p \in DOMAIN v |-> AsObject(Coded(v[p], Reached(v, p)))]
  BY EncodeIs
<1>2. ASSUME NEW p \in DOMAIN v
      PROVE  /\ IsData(back[p])
             /\ IsDecimal(back[p]) <=> IsDecimal(v[p])
             /\ JsonForm(back[p]) = back[p]
             /\ \A again \in BOOLEAN : AsObject(Coded(back[p], again)) = back[p]
             /\ ~IsDecimal(v[p]) => back[p] = JsonForm(v[p])
  BY <1>1, ReachedType, NodeOnce DEF AllData
<1>3. DOMAIN back = DOMAIN v /\ back = [p \in DOMAIN v |-> back[p]]
  BY <1>1
<1>4. AllData(back)
  <2>1. ASSUME NEW p \in DOMAIN v
        PROVE  /\ v[p][1] = "dict" => back[p][1] = "dict"
               /\ v[p] \in {PyList, PyTuple} => back[p] \in {PyList, PyTuple}
    <3>1. CASE v[p][1] = "dict"
      <4>1. ~IsDecimal(v[p]) /\ v[p] \notin {PyList, PyTuple}
        BY <3>1 DEF IsDecimal, PyList, PyTuple
      <4>2. back[p] = PyDict
        BY <1>2, <3>1, <4>1, JsonIs
      <4>3. QED
        BY <4>1, <4>2 DEF PyDict, DictOver
    <3>2. CASE v[p] \in {PyList, PyTuple}
      <4>1. ~IsDecimal(v[p]) /\ v[p][1] # "dict"
        BY <3>2 DEF IsDecimal, PyList, PyTuple
      <4>2. back[p] = PyList
        BY <1>2, <3>2, <4>1, JsonIs
      <4>3. QED
        BY <4>1, <4>2
    <3>3. QED
      BY <3>1, <3>2
  <2>2. back = [p \in DOMAIN back |-> back[p]]
    BY <1>1
  <2>3. ASSUME NEW p \in DOMAIN v, NEW i \in 1..Len(p)
        PROVE  /\ SubSeq(p, 1, i - 1) \in DOMAIN v
               /\ IF p[i][1] = "key" THEN back[SubSeq(p, 1, i - 1)][1] = "dict"
                  ELSE back[SubSeq(p, 1, i - 1)] \in {PyList, PyTuple}
    <3>1. PICK above : above = SubSeq(p, 1, i - 1)
      OBVIOUS
    <3>2. /\ above \in DOMAIN v
          /\ IF p[i][1] = "key" THEN v[above][1] = "dict" ELSE v[above] \in {PyList, PyTuple}
      BY <3>1 DEF AllData, IsTree
    <3>3. IF p[i][1] = "key" THEN back[above][1] = "dict" ELSE back[above] \in {PyList, PyTuple}
      BY <2>1, <3>2
    <3>4. QED
      BY <3>1, <3>2, <3>3
  <2>4. <<>> \in DOMAIN v /\ \A p \in DOMAIN v : p \in Seq(Steps)
    BY DEF AllData, IsTree
  <2>5. IsTree(back)
    BY <1>3, <2>2, <2>3, <2>4 DEF IsTree
  <2>6. QED
    BY <1>2, <1>3, <2>5 DEF AllData
<1>5. Decode(Encode(back)) = back
  <2>1. Decode(Encode(back)) = [p \in DOMAIN v |-> AsObject(Coded(back[p], Reached(back, p)))]
    BY <1>3, EncodeIs
  <2>2. \A p \in DOMAIN v : AsObject(Coded(back[p], Reached(back, p))) = back[p]
    BY <1>2, ReachedType
  <2>3. QED
    BY <1>3, <2>1, <2>2
<1>6. HasDecimal(back) <=> HasDecimal(v)
  BY <1>2, <1>3 DEF HasDecimal
<1>7. AsJson(back) = back
  BY <1>2, <1>3 DEF AsJson
<1>8. ASSUME ~HasDecimal(v) PROVE back = AsJson(v)
  <2>1. \A p \in DOMAIN v : back[p] = JsonForm(v[p])
    BY <1>2, <1>8 DEF HasDecimal
  <2>2. QED
    BY <1>3, <2>1 DEF AsJson
<1>9. QED
  BY <1>3, <1>4, <1>5, <1>6, <1>7, <1>8

(* Where the lists of a text are in dicts every node of it is reached.     *)
LEMMA ListsReached ==
    ASSUME NEW v, AllData(v), NEW coded, coded = Encode(v), ListsAreInDicts(coded),
           NEW p \in DOMAIN v
    PROVE  Reached(coded, p)
<1>1. coded = [q \in DOMAIN v |-> Coded(v[q], Reached(v, q))]
  BY EncodeIs
<1>2. ASSUME NEW q \in DOMAIN v
      PROVE  /\ v[q] \in {PyList, PyTuple} => coded[q] = PyList
             /\ coded[q] = PyDict => v[q][1] = "dict"
  <2>1. IsData(v[q]) /\ Reached(v, q) \in BOOLEAN /\ coded[q] = Coded(v[q], Reached(v, q))
    BY <1>1, ReachedType DEF AllData
  <2>2. CASE IsDecimal(v[q])
    <3>1. v[q] \notin {PyList, PyTuple}
      BY <2>2 DEF PyList, PyTuple, IsDecimal
    <3>2. coded[q][1] = "__fixed__"
      BY <2>1, <2>2, DecimalFixed
    <3>3. coded[q] # PyDict
      BY <3>2 DEF PyDict, DictOver
    <3>4. QED
      BY <3>1, <3>3
  <2>3. CASE ~IsDecimal(v[q])
    BY <2>1, <2>3, OtherKept
  <2>4. QED
    BY <2>2, <2>3
<1>3. SUFFICES ASSUME NEW i \in 1..Len(p), p[i][1] = "item"
               PROVE  i > 1 /\ p[i - 1][1] = "key" /\ coded[SubSeq(p, 1, i - 1)] = PyList
  BY DEF Reached
<1>4. /\ p \in Seq(Steps)
      /\ \A j \in 1..Len(p) :
           /\ SubSeq(p, 1, j - 1) \in DOMAIN v
           /\ IF p[j][1] = "key" THEN v[SubSeq(p, 1, j - 1)][1] = "dict"
              ELSE v[SubSeq(p, 1, j - 1)] \in {PyList, PyTuple}
  BY DEF AllData, IsTree
<1>5. PICK above : above = SubSeq(p, 1, i - 1)
  OBVIOUS
<1>6. above \in DOMAIN v /\ v[above] \in {PyList, PyTuple} /\ coded[above] = PyList
  <2>1. above \in DOMAIN v /\ v[above] \in {PyList, PyTuple}
    BY <1>3, <1>4, <1>5
  <2>2. QED
    BY <1>2, <2>1
<1>7. above # <<>> /\ coded[SubSeq(above, 1, Len(above) - 1)] = PyDict
  BY <1>1, <1>6 DEF ListsAreInDicts
<1>8. i > 1
  <2>1. SUFFICES ASSUME i = 1 PROVE FALSE
    OBVIOUS
  <2>2. SubSeq(p, 1, 0) = <<>>
    BY <1>4
  <2>3. QED
    BY <1>5, <1>7, <2>1, <2>2
<1>9. SubSeq(above, 1, Len(above) - 1) = SubSeq(p, 1, (i - 1) - 1)
  <2>1. Len(p) \in Nat
    BY <1>4
  <2>2. PICK n \in Nat : n = i - 1 /\ n <= Len(p)
    BY <1>8, <2>1
  <2>3. above \in Seq(Steps) /\ Len(above) = n /\ \A k \in 1..n : above[k] = p[k]
    BY <1>4, <1>5, <2>1, <2>2
  <2>4. SubSeq(above, 1, n - 1) = SubSeq(p, 1, n - 1)
    BY <1>4, <2>1, <2>2, <2>3
  <2>5. QED
    BY <2>2, <2>3, <2>4
<1>10. i - 1 \in 1..Len(p)
  BY <1>8, <1>4
<1>11. /\ SubSeq(p, 1, (i - 1) - 1) \in DOMAIN v
       /\ IF p[i - 1][1] = "key" THEN v[SubSeq(p, 1, (i - 1) - 1)][1] = "dict"
          ELSE v[SubSeq(p, 1, (i - 1) - 1)] \in {PyList, PyTuple}
  BY <1>4, <1>10
<1>12. v[SubSeq(p, 1, (i - 1) - 1)][1] = "dict"
  BY <1>2, <1>7, <1>9, <1>11
<1>13. PyList[1] # "dict" /\ PyTuple[1] # "dict"
  BY DEF PyList, PyTuple
<1>14. QED
  BY <1>5, <1>6, <1>8, <1>11, <1>12, <1>13

LEMMA Alike ==
    ASSUME NEW v, AllData(v), NEW coded, coded = Encode(v), ListsAreInDicts(coded)
    PROVE  ConvertDict(coded) = Decode(coded)
<1>1. DOMAIN coded = DOMAIN v
  BY EncodeIs
<1>2. \A p \in DOMAIN coded : Reached(coded, p)
  BY <1>1, ListsReached
<1>3. QED
  BY <1>2 DEF ConvertDict, Decode

-----------------------------------------------------------------------------
(* The inductive invariant: the text is that of a value that is still held *)
(* or has been read back since.                                            *)
TextOf(v) == AllData(v) /\ text = Encode(v) /\ held \in {v, Decode(text)}

IInv ==
    /\ TypeOK
    /\ AllData(held)
    /\ text = NoText \/ \E v : TextOf(v)

LEMMA ScalarData ==
    ASSUME NEW node, IsData(node)
    PROVE  AllData(Scalar(node)) /\ Root(Scalar(node)) = node
<1>1. PICK v : v = [p \in {<<>>} |-> node]
  OBVIOUS
<1>2. DOMAIN v = {<<>>} /\ v[<<>>] = node /\ v = [p \in DOMAIN v |-> v[p]]
  BY <1>1
<1>3. <<>> \in Seq(Steps) /\ Len(<<>>) = 0
  OBVIOUS
<1>4. 1..0 = {}
  OBVIOUS
<1>5. IsTree(v)
  BY <1>2, <1>3, <1>4 DEF IsTree
<1>6. AllData(v)
  BY <1>2, <1>5 DEF AllData
<1>7. QED
  BY <1>1, <1>2, <1>6 DEF Scalar, Root

LEMMA RootData ==
    ASSUME NEW v, AllData(v)
    PROVE  /\ IsData(Root(v))
           /\ Root(Encode(v)) = Coded(Root(v), TRUE)
           /\ Root(Decode(Encode(v))) = AsObject(Coded(Root(v), TRUE))
<1>1. <<>> \in DOMAIN v /\ IsData(v[<<>>])
  BY DEF AllData, IsTree
<1>2. Reached(v, <<>>)
  <2>1. 1..Len(<<>>) = {}
    OBVIOUS
  <2>2. QED
    BY <2>1 DEF Reached
<1>3. Reached(v, <<>>) = TRUE
  BY <1>2
<1>4. QED
  BY <1>1, <1>3, EncodeIs DEF Root

LEMMA EncodedInt ==
    ASSUME NEW node, Coded(node, TRUE)[1] = "int"
    PROVE  MongoMin < Coded(node, TRUE)[2] /\ Coded(node, TRUE)[2] < MongoMax
<1>1. PICK x : x = IF node[1] = "int" THEN EncodeInt(node[2]) ELSE node
  OBVIOUS
<1>2. Coded(node, TRUE) = Default(x)
  BY <1>1 DEF Coded
<1>3. Default(x) = x /\ x[1] = "int"
  <2>1. \/ Default(x) \in {x, PyDict, PyList}
        \/ \E y : Default(x) \in {<<"__time__", y>>, <<"__delta__", y>>,
                                 <<"__bytes__", y>>, <<"__fixed__", y>>}
    BY DEF Default
  <2>2. Default(x)[1] = "int"
    BY <1>2
  <2>3. PyDict[1] # "int" /\ PyList[1] # "int"
    BY DEF PyDict, DictOver, PyList
  <2>4. QED
    BY <2>1, <2>2, <2>3
<1>4. x = EncodeInt(node[2])
  BY <1>1, <1>3
<1>5. QED
  BY <1>2, <1>3, <1>4, EncodeIntIs

(* What contracts compute.                                                 *)
IsResult(node) ==
    /\ IsData(node)
    /\ IsDecimal(node) \/ node[1] \in {"Datetime", "Timedelta"}
    /\ IsDecimal(node) => Digits(node[2][1]) <= Prec

LEMMA DataOf ==
    ASSUME NEW node, IsData(node)
    PROVE  /\ IsDecimal(node) => node[2] \in Int \X (MinExponent..MaxExponent)
           /\ node[1] = "Datetime" => node[2] \in Moments
           /\ node[1] = "Timedelta" => IsSpan(node)
<1>1. CASE IsDecimal(node)
  <2>1. node \in {"Decimal", "ContractingDecimal"} \X (Int \X (MinExponent..MaxExponent))
    BY <1>1 DEF IsData, IsDecimal, IsSpan, PyTuple, PyList
  <2>2. QED
    BY <1>1, <2>1 DEF IsDecimal
<1>2. CASE node[1] = "Datetime"
  BY <1>2 DEF IsData, IsDecimal, IsSpan, PyTuple, PyList
<1>3. CASE node[1] = "Timedelta"
  BY <1>3 DEF IsData, IsDecimal, IsSpan, PyTuple, PyList
<1>4. QED
  BY <1>1, <1>2, <1>3

(* The type of what is held, without what it is.                           *)
LEMMA TypeIs ==
    TypeOK <=>
      /\ IsDecimal(Root(held)) =>
           /\ Root(held)[2] \in Int \X (MinExponent..MaxExponent)
           /\ computed > 0 => Digits(Root(held)[2][1]) <= Prec
      /\ Root(held)[1] = "Datetime" => Root(held)[2] \in Moments
      /\ Root(held)[1] = "Timedelta" => IsSpan(Root(held))
      /\ ~IsDecimal(Root(held)) /\ Root(held)[1] \notin {"Datetime", "Timedelta"} =>
           HasDecimal(held) \/ held \in Inputs \cup InputsAsJson
      /\ computed \in 0..MaxComputed
      /\ text # NoText /\ Root(text)[1] = "int" =>
           MongoMin < Root(text)[2] /\ Root(text)[2] < MongoMax
BY DEF TypeOK, IsDecimal

LEMMA SetKeeps ==
    ASSUME IInv, NEW node, Set(node), IsResult(node)
    PROVE  IInv'
<1>1. /\ held' = Scalar(node) /\ text' = NoText
      /\ computed < MaxComputed /\ computed' = computed + 1
  BY DEF Set
<1>2. AllData(held') /\ Root(held') = node
  BY <1>1, ScalarData DEF IsResult
<1>3. computed' \in 0..MaxComputed
  BY <1>1, TypeIs, ValuesAssumption DEF IInv
<1>4. TypeOK'
  BY <1>1, <1>2, <1>3, DataOf, TypeIs DEF IsResult, TypeOK
<1>5. QED
  BY <1>1, <1>2, <1>4 DEF IInv, AllData

LEMMA SetNumberKeeps ==
    ASSUME IInv, NEW node, SetNumber(node), IsDecimal(node) => IsNew(node)
    PROVE  IInv'
<1>1. /\ IsDecimal(node) /\ node[2][2] \in MinExponent..MaxExponent
      /\ IsDecimal(FixPrecision(node[2])) /\ Set(node)
  BY DEF SetNumber
<1>2. PICK t \in {"Decimal", "ContractingDecimal"}, d \in Decs :
        /\ t = node[1] /\ d = node[2] /\ node = <<t, d>> /\ Digits(d[1]) <= Prec
  BY <1>1 DEF IsNew, Fits
<1>3. d \in Int \X (MinExponent..MaxExponent)
  BY <1>1, <1>2 DEF Decs
<1>4. node \in {"Decimal", "ContractingDecimal"} \X (Int \X (MinExponent..MaxExponent))
  BY <1>2, <1>3
<1>5. IsData(node)
  BY <1>1, <1>4 DEF IsData
<1>6. QED
  BY <1>1, <1>2, <1>5, SetKeeps DEF IsResult

LEMMA SetDateKeeps ==
    ASSUME IInv, NEW m, SetDate(Datetime(m))
    PROVE  IInv'
<1>1. PICK node : node = <<"Datetime", m>> /\ node = Datetime(m)
  BY DEF Datetime
<1>2. node[1] = "Datetime" /\ node[2] = m /\ m \in Moments /\ Set(node)
  BY <1>1 DEF SetDate
<1>3. node \in {"Datetime"} \X Moments
  BY <1>1, <1>2
<1>4. IsData(node) /\ ~IsDecimal(node)
  BY <1>2, <1>3 DEF IsData, IsDecimal
<1>5. QED
  BY <1>2, <1>4, SetKeeps DEF IsResult

LEMMA SetSpanKeeps ==
    ASSUME IInv, NEW t, IsSpan(t), SetSpan(t)
    PROVE  IInv'
<1>1. t[1] = "Timedelta" /\ Set(t)
  BY DEF IsSpan, SetSpan
<1>2. IsData(t) /\ ~IsDecimal(t)
  BY <1>1 DEF IsData, IsDecimal
<1>3. QED
  BY <1>1, <1>2, SetKeeps DEF IsResult

(* The numbers that a contract computes with.                              *)
Operand(x) == /\ x[1] = "int" => x[2] \in Int
              /\ IsDecimal(x) => x[2] \in Decs

LEMMA NumbersAre ==
    ASSUME NEW x \in Numbers
    PROVE  Operand(x)
<1>1. x \in {"int"} \X Int \/ (IsDecimal(x) /\ x[2] \in Int \X Int)
  BY ValuesAssumption
<1>2. CASE x \in {"int"} \X Int
  <2>1. x[1] = "int" /\ x[2] \in Int
    BY <1>2
  <2>2. QED
    BY <2>1 DEF Operand, IsDecimal
<1>3. CASE IsDecimal(x) /\ x[2] \in Int \X Int
  BY <1>3 DEF Operand, IsDecimal, Decs
<1>4. QED
  BY <1>1, <1>2, <1>3

LEMMA HeldIsOperand ==
    ASSUME IInv
    PROVE  Operand(Root(held))
<1>1. PICK node : node = Root(held) /\ IsData(node)
  BY RootData DEF IInv
<1>2. IsDecimal(node) => node[2] \in Decs
  BY <1>1, DecimalFixed
<1>3. ASSUME node[1] = "int" PROVE node[2] \in Int
  BY <1>1, <1>3 DEF IsData, IsDecimal, IsSpan, PyTuple, PyList
<1>4. QED
  BY <1>1, <1>2, <1>3 DEF Operand

LEMMA OperationFits ==
    ASSUME NEW u, NEW w, u[2] \in Decs, w[2] \in Decs
    PROVE  /\ IsDecimal(Add(u, w)) => IsNew(Add(u, w))
           /\ IsDecimal(Subtract(u, w)) => IsNew(Subtract(u, w))
           /\ IsDecimal(Multiply(u, w)) => IsNew(Multiply(u, w))
           /\ w[2][1] # 0 =>
                /\ IsDecimal(Divide(u, w)) => IsNew(Divide(u, w))
                /\ Digits(Ratio(u[2], w[2])) <= Prec =>
                     /\ IsDecimal(FloorDivide(u, w)) => IsNew(FloorDivide(u, w))
                     /\ IsDecimal(Modulo(u, w)) => IsNew(Modulo(u, w))
<1>1. PICK x \in Decs, y \in Decs : x = u[2] /\ y = w[2]
  OBVIOUS
<1>2. Fits(Sum(x, y)) /\ Fits(Difference(x, y)) /\ Fits(Product(x, y))
  BY SumFits
<1>3. IsDecimal(Add(u, w)) => IsNew(Add(u, w))
  BY <1>1, <1>2, WrappedFits DEF Add
<1>4. IsDecimal(Subtract(u, w)) => IsNew(Subtract(u, w))
  BY <1>1, <1>2, WrappedFits DEF Subtract
<1>5. IsDecimal(Multiply(u, w)) => IsNew(Multiply(u, w))
  BY <1>1, <1>2, WrappedFits DEF Multiply
<1>6. ASSUME y[1] # 0 PROVE IsDecimal(Divide(u, w)) => IsNew(Divide(u, w))
  BY <1>1, <1>6, QuotientFits, WrappedFits DEF Divide
<1>7. ASSUME y[1] # 0, Digits(Ratio(x, y)) <= Prec
      PROVE  /\ IsDecimal(FloorDivide(u, w)) => IsNew(FloorDivide(u, w))
             /\ IsDecimal(Modulo(u, w)) => IsNew(Modulo(u, w))
  BY <1>1, <1>7, RatioFits, WrappedFits DEF FloorDivide, Modulo
<1>8. QED
  BY <1>1, <1>3, <1>4, <1>5, <1>6, <1>7

LEMMA ComputeKeeps ==
    ASSUME IInv, NEW x, Operand(x), NEW y, Operand(y), Compute(x, y)
    PROVE  IInv'
<1>1. PICK u, w : /\ u = IF x[1] = "int" THEN <<"int", FromInt(x[2])>> ELSE x
                  /\ w = IF y[1] = "int" THEN <<"int", FromInt(y[2])>> ELSE y
  OBVIOUS
<1>2. x[1] \in Types /\ y[1] \in Types
  BY DEF Compute, IsNumber
<1>3. u[2] \in Decs
  <2>1. CASE x[1] = "int"
    BY <1>1, <2>1 DEF FromInt, Decs, Operand
  <2>2. CASE x[1] # "int"
    BY <1>1, <1>2, <2>2 DEF Operand, IsDecimal, Types
  <2>3. QED
    BY <2>1, <2>2
<1>4. w[2] \in Decs
  <2>1. CASE y[1] = "int"
    BY <1>1, <2>1 DEF FromInt, Decs, Operand
  <2>2. CASE y[1] # "int"
    BY <1>1, <1>2, <2>2 DEF Operand, IsDecimal, Types
  <2>3. QED
    BY <2>1, <2>2
<1>5. \/ SetNumber(Add(u, w))
      \/ SetNumber(Subtract(u, w))
      \/ SetNumber(Multiply(u, w))
      \/ w[2][1] # 0 /\ SetNumber(Divide(u, w))
      \/ /\ w[2][1] # 0 /\ Digits(Ratio(u[2], w[2])) <= Prec
         /\ SetNumber(FloorDivide(u, w)) \/ SetNumber(Modulo(u, w))
  BY <1>1 DEF Compute
<1>6. \E node : SetNumber(node) /\ (IsDecimal(node) => IsNew(node))
  BY <1>3, <1>4, <1>5, OperationFits
<1>7. QED
  BY <1>6, SetNumberKeeps

LEMMA NegationKeeps ==
    ASSUME IInv, Negation
    PROVE  IInv'
<1>1. PICK node : node = Root(held) /\ IsDecimal(node) /\ SetNumber(Negate(node))
  BY DEF Negation
<1>2. Fits(Negated(node[2]))
  BY <1>1, HeldIsOperand, NegatedFits DEF Operand
<1>3. IsNew(Negate(node))
  BY <1>2 DEF Negate, IsNew
<1>4. QED
  BY <1>1, <1>3, SetNumberKeeps

LEMMA SpansAre ==
    ASSUME NEW t \in Spans
    PROVE  IsSpan(t)
BY ValuesAssumption

LEMMA DatesAre ==
    ASSUME NEW d \in Dates
    PROVE  d[1] = "Datetime" /\ d[2] \in Int
<1>1. d \in {"Datetime"} \X Moments
  BY ValuesAssumption
<1>2. d[1] = "Datetime" /\ d[2] \in Moments
  BY <1>1
<1>3. QED
  BY <1>2, MomentsType

LEMMA HeldTimes ==
    ASSUME IInv
    PROVE  /\ Root(held)[1] = "Datetime" => Root(held)[2] \in Int
           /\ Root(held)[1] = "Timedelta" => IsSpan(Root(held))
BY RootData, DataOf, MomentsType DEF IInv

LEMMA ComputeDateKeeps ==
    ASSUME IInv, ComputeDate(Root(held))
    PROVE  IInv'
<1>1. PICK c : c = Root(held) /\ c[1] = "Datetime" /\ c[2] \in Int /\ ComputeDate(c)
  BY HeldTimes DEF ComputeDate
<1>2. ASSUME NEW d \in Dates, SetSpan(Since(c, d)) PROVE IInv'
  <2>1. IsSpan(Since(c, d))
    BY <1>1, DatesAre, SinceIs, SpanOf
  <2>2. QED
    BY <1>2, <2>1, SetSpanKeeps
<1>3. ASSUME NEW t \in Spans, SetDate(After(c, t)) \/ SetDate(Ago(t, c)) PROVE IInv'
  BY <1>3, SetDateKeeps DEF After, Ago
<1>4. QED
  BY <1>1, <1>2, <1>3 DEF ComputeDate

LEMMA ComputeSpanKeeps ==
    ASSUME IInv, ComputeSpan(Root(held))
    PROVE  IInv'
<1>1. PICK t : t = Root(held) /\ IsSpan(t) /\ ComputeSpan(t)
  BY HeldTimes DEF ComputeSpan
<1>2. ASSUME NEW d \in Dates, SetDate(After(d, t)) \/ SetDate(Ago(t, d)) PROVE IInv'
  BY <1>2, SetDateKeeps DEF After, Ago
<1>3. ASSUME NEW u \in Spans,
             \/ SetSpan(PlusDelta(t, u)) \/ SetSpan(MinusDelta(t, u))
             \/ SetSpan(TimesDelta(t, u))
      PROVE  IInv'
  <2>1. IsSpan(PlusDelta(t, u)) /\ IsSpan(MinusDelta(t, u)) /\ IsSpan(TimesDelta(t, u))
    BY <1>1, SpansAre, SpansOf, 0 \in Int
  <2>2. QED
    BY <1>3, <2>1, SetSpanKeeps
<1>4. ASSUME NEW y \in Numbers, y[1] = "int", SetSpan(TimesInt(t, y[2])) PROVE IInv'
  <2>1. y[2] \in Int
    BY <1>4, NumbersAre DEF Operand
  <2>2. IsSpan(TimesInt(t, y[2]))
    BY <1>1, <2>1, SpansOf, SpanOf
  <2>3. QED
    BY <1>4, <2>2, SetSpanKeeps
<1>5. QED
  BY <1>1, <1>2, <1>3, <1>4 DEF ComputeSpan

LEMMA CommitKeeps ==
    ASSUME IInv, Commit
    PROVE  IInv'
<1>1. text' = Encode(held) /\ held' = held /\ computed' = computed
  BY DEF Commit
<1>2. Root(text') = Coded(Root(held), TRUE)
  BY <1>1, RootData DEF IInv
<1>3. Root(text')[1] = "int" => MongoMin < Root(text')[2] /\ Root(text')[2] < MongoMax
  BY <1>2, EncodedInt
<1>4. TypeOK'
  BY <1>1, <1>3, TypeIs DEF IInv, TypeOK
<1>5. TextOf(held)'
  BY <1>1 DEF TextOf, IInv, AllData
<1>6. QED
  BY <1>1, <1>4, <1>5 DEF IInv, AllData

LEMMA ReloadKeeps ==
    ASSUME IInv, Reload
    PROVE  IInv'
<1>0. text # NoText /\ held' = Decode(text) /\ text' = text /\ computed' = computed
  BY DEF Reload
<1>v. PICK v : TextOf(v)
  BY <1>0 DEF IInv
<1>b. PICK back : back = held' /\ AllData(v) /\ text = Encode(v) /\ back = Decode(Encode(v))
  BY <1>0, <1>v DEF TextOf
<1>t. TextOf(v)'
  BY <1>0, <1>v DEF TextOf, AllData
<1>r. CASE held = Decode(text)
  <2>1. held' = held
    BY <1>0, <1>r
  <2>2. TypeOK'
    BY <1>0, <2>1 DEF IInv, TypeOK
  <2>3. QED
    BY <1>0, <1>t, <2>1, <2>2 DEF IInv, AllData
<1> SUFFICES ASSUME held = v PROVE IInv'
  BY <1>v, <1>r DEF TextOf
<1>1. text = Encode(held)
  BY <1>b
<1>2. v = held /\ back = held' /\ AllData(v) /\ back = Decode(Encode(v))
  BY <1>b
<1>3. /\ AllData(back)
      /\ HasDecimal(back) <=> HasDecimal(v)
      /\ ~HasDecimal(v) => back = AsJson(v)
      /\ AsJson(back) = back
  BY <1>2, BackIs
<1>4. PICK node : node = Root(v) /\ IsData(node) /\ Root(back) = AsObject(Coded(node, TRUE))
  BY <1>2, RootData
<1>5. PICK read : read = Root(back)
  OBVIOUS
<1>6. /\ IsData(read)
      /\ IsDecimal(read) <=> IsDecimal(node)
      /\ ~IsDecimal(node) => read = JsonForm(node)
  BY <1>4, <1>5, NodeOnce
<1>7. ASSUME IsDecimal(read), computed > 0 PROVE Digits(read[2][1]) <= Prec
  <2>1. /\ node[2] \in Decs
        /\ FixedAs(node[2], FixPrecision(node[2])[2])
        /\ AsObject(Coded(node, TRUE)) = <<"ContractingDecimal", FixPrecision(node[2])[2]>>
    BY <1>4, <1>6, <1>7, DecimalFixed
  <2>2. read[2] = FixPrecision(node[2])[2]
    <3>1. PICK b : b = FixPrecision(node[2])[2]
      OBVIOUS
    <3>2. read = <<"ContractingDecimal", b>>
      BY <1>4, <1>5, <2>1, <3>1, Zenon
    <3>3. QED
      BY <3>1, <3>2
  <2>3. Digits(node[2][1]) <= Prec
    BY <1>2, <1>4, <1>6, <1>7, TypeIs DEF IInv
  <2>4. QED
    BY <2>1, <2>2, <2>3, FixedDigits
<1>8. ~IsDecimal(read) /\ read[1] \notin {"Datetime", "Timedelta"} =>
        HasDecimal(back) \/ back \in Inputs \cup InputsAsJson
  <2>1. SUFFICES ASSUME ~IsDecimal(read), read[1] \notin {"Datetime", "Timedelta"},
                        ~HasDecimal(back)
                 PROVE  back \in InputsAsJson
    OBVIOUS
  <2>2. back = AsJson(v) /\ ~HasDecimal(v) /\ ~IsDecimal(node) /\ read = JsonForm(node)
    BY <1>3, <1>6, <2>1
  <2>3. node[1] \notin {"Datetime", "Timedelta"}
    <3>1. node[1] \in {"Datetime", "Timedelta"} => node[1] # "dict" /\ node # PyTuple
      BY DEF PyTuple
    <3>2. QED
      BY <2>1, <2>2, <3>1, JsonIs
  <2>4. v \in Inputs \cup InputsAsJson
    BY <1>2, <1>4, <2>2, <2>3, TypeIs DEF IInv
  <2>5. CASE v \in Inputs
    BY <2>2, <2>5 DEF InputsAsJson
  <2>6. CASE v \in InputsAsJson
    <3>1. PICK w \in Inputs : v = AsJson(w)
      BY <2>6 DEF InputsAsJson
    <3>2. AsJson(AsJson(w)) = AsJson(w)
      BY JsonIs DEF AsJson
    <3>3. QED
      BY <2>2, <2>6, <3>1, <3>2
  <2>7. QED
    BY <2>4, <2>5, <2>6
<1>9. TypeOK'
  <2>1. computed \in 0..MaxComputed
    BY TypeIs DEF IInv
  <2>2. text # NoText /\ Root(text)[1] = "int" =>
          MongoMin < Root(text)[2] /\ Root(text)[2] < MongoMax
    BY TypeIs DEF IInv
  <2>3. /\ IsDecimal(read) => read[2] \in Int \X (MinExponent..MaxExponent)
        /\ read[1] = "Datetime" => read[2] \in Moments
        /\ read[1] = "Timedelta" => IsSpan(read)
    BY <1>6, DataOf
  <2>4. Root(held') = read
    BY <1>2, <1>5
  <2>5. CASE IsDecimal(read)
    BY <1>0, <1>7, <2>1, <2>2, <2>3, <2>4, <2>5 DEF TypeOK, IsDecimal
  <2>6. CASE ~IsDecimal(read)
    BY <1>0, <1>2, <1>8, <2>1, <2>2, <2>3, <2>4, <2>6 DEF TypeOK, IsDecimal
  <2>7. QED
    BY <2>5, <2>6
<1>10. QED
  BY <1>2, <1>3, <1>9, <1>t DEF IInv, AllData

-----------------------------------------------------------------------------
(* The invariant is inductive.                                             *)
LEMMA InitHolds == Init => IInv
<1>1. SUFFICES ASSUME Init PROVE IInv
  OBVIOUS
<1>2. held \in Inputs /\ text = NoText /\ computed = 0
  BY <1>1 DEF Init
<1>3. AllData(held)
  BY <1>2, ValuesAssumption DEF AllData
<1>4. IsData(Root(held))
  BY <1>3, RootData
<1>5. computed \in 0..MaxComputed
  BY <1>2, ValuesAssumption
<1>6. TypeOK
  BY <1>2, <1>4, <1>5, DataOf, TypeIs
<1>7. QED
  BY <1>2, <1>3, <1>6 DEF IInv

LEMMA StepKeeps == IInv /\ [Next]_vars => IInv'
<1>1. SUFFICES ASSUME IInv, [Next]_vars PROVE IInv'
  OBVIOUS
<1>2. ASSUME NEW y \in Numbers, Compute(Root(held), y) \/ Compute(y, Root(held))
      PROVE  IInv'
  BY <1>1, <1>2, NumbersAre, HeldIsOperand, ComputeKeeps
<1>3. CASE Negation
  BY <1>1, <1>3, NegationKeeps
<1>4. CASE ComputeDate(Root(held))
  BY <1>1, <1>4, ComputeDateKeeps
<1>5. CASE ComputeSpan(Root(held))
  BY <1>1, <1>5, ComputeSpanKeeps
<1>6. CASE Commit
  BY <1>1, <1>6, CommitKeeps
<1>7. CASE Reload
  BY <1>1, <1>7, ReloadKeeps
<1>8. CASE UNCHANGED vars
  BY <1>1, <1>8 DEF IInv, TextOf, AllData, TypeOK, vars
<1>9. QED
  BY <1>1, <1>2, <1>3, <1>4, <1>5, <1>6, <1>7, <1>8 DEF Next

LEMMA Inductive == Spec => []IInv
BY InitHolds, StepKeeps, PTL DEF Spec

-----------------------------------------------------------------------------
(* What follows from it.                                                   *)
LEMMA ValuesInvHolds == IInv => ValuesInv
<1>1. SUFFICES ASSUME IInv PROVE ValuesInv
  OBVIOUS
<1>2. ReadBack
  <2>1. SUFFICES ASSUME text # NoText
                 PROVE  /\ ~HasDecimal(held) => Decode(text) = AsJson(held)
                        /\ AsJson(Decode(text)) = Decode(text)
                        /\ Decode(Encode(Decode(text))) = Decode(text)
    BY DEF ReadBack
  <2>2. PICK v : TextOf(v)
    BY <1>1, <2>1 DEF IInv
  <2>3. PICK back : back = Decode(text)
    OBVIOUS
  <2>4. /\ AsJson(back) = back /\ Decode(Encode(back)) = back
        /\ ~HasDecimal(v) => back = AsJson(v)
    BY <2>2, <2>3, BackIs DEF TextOf
  <2>5. held = v \/ held = back
    BY <2>2, <2>3 DEF TextOf
  <2>6. QED
    BY <2>3, <2>4, <2>5
<1>3. ConvertedAlike
  BY <1>1, Alike DEF ConvertedAlike, IInv, TextOf
<1>4. QED
  BY <1>1, <1>2, <1>3 DEF ValuesInv, IInv

LEMMA HeldDecimal ==
    ASSUME IInv, IsDecimal(Root(held))
    PROVE  Root(held)[2] \in Decs
BY HeldIsOperand DEF Operand

LEMMA DiskIsNoMoreHolds == IInv => DiskIsNoMore
<1>1. SUFFICES ASSUME IInv, text # NoText, IsDecimal(Root(held)),
                      NEW kept, kept = Root(held)[2],
                      NEW back, back = Root(Decode(text))[2]
               PROVE  /\ ~Exceeds(back, kept)
                      /\ \/ Exceeds(Plus(back, Unit), kept)
                         \/ Exceeds(kept, MaxDecimal) /\ SameNumber(back, MaxDecimal)
  BY DEF DiskIsNoMore
<1>2. PICK node : node = Root(held) /\ IsData(node) /\ IsDecimal(node)
  BY <1>1, RootData DEF IInv
<1>3. Root(Decode(text)) = AsObject(Coded(node, TRUE))
  <2>1. PICK v : TextOf(v)
    BY <1>1 DEF IInv
  <2>2. /\ AllData(v) /\ text = Encode(v) /\ held \in {v, Decode(text)}
        /\ Root(Decode(text)) = AsObject(Coded(Root(v), TRUE)) /\ IsData(Root(v))
    BY <2>1, RootData DEF TextOf
  <2>3. AsObject(Coded(Root(Decode(text)), TRUE)) = Root(Decode(text))
    BY <2>2, NodeOnce
  <2>4. QED
    BY <1>2, <2>2, <2>3
<1>4. PICK b : b = FixPrecision(node[2])[2]
  OBVIOUS
<1>5. /\ node[2] \in Decs /\ FixedAs(node[2], b)
      /\ AsObject(Coded(node, TRUE)) = <<"ContractingDecimal", b>>
  BY <1>2, <1>4, DecimalFixed
<1>6. kept = node[2] /\ back = b
  <2>1. Root(Decode(text)) = <<"ContractingDecimal", b>>
    BY <1>3, <1>5, Zenon
  <2>2. QED
    BY <1>1, <1>2, <2>1
<1>7. QED
  BY <1>5, <1>6, LessThanUnit

LEMMA TransfersHold == IInv => TransfersConserve
<1>1. SUFFICES ASSUME IInv, NEW own, own = Root(held), IsDecimal(own), IsWhole(own),
                      NEW x \in Numbers, IsDecimal(x), IsWhole(x),
                      NEW y \in Numbers, IsDecimal(y), IsWhole(y),
                      Small(Difference(own[2], x[2])), Small(Sum(y[2], x[2]))
               PROVE  SameNumber(Sum(Subtract(own, x)[2], Add(y, x)[2]), Sum(own[2], y[2]))
  BY DEF TransfersConserve
<1>2. own[2] \in Decs /\ x[2] \in Decs /\ y[2] \in Decs
  BY <1>1, HeldDecimal, NumbersAre DEF Operand
<1>3. QED
  BY <1>1, <1>2, TransferConserves

LEMMA SharesHold == IInv => SharesAddUpToNoMore
<1>1. SUFFICES ASSUME IInv, NEW own, own = Root(held), IsDecimal(own),
                      NEW y \in Numbers, IsDecimal(y), y[2][1] > 0,
                      NEW share, share = Divide(own, y), IsDecimal(share),
                      NEW whole, whole = Multiply(share, y), IsDecimal(whole)
               PROVE  ~Exceeds(whole[2], own[2])
  BY DEF SharesAddUpToNoMore
<1>2. own[2] \in Decs /\ y[2] \in Decs
  BY <1>1, HeldDecimal, NumbersAre DEF Operand
<1>3. QED
  BY <1>1, <1>2, ShareAtMost

LEMMA NoMoneyIsMadeHolds == IInv => NoMoneyIsMade
BY TransfersHold, SharesHold DEF NoMoneyIsMade

LEMMA TimesAddUpHolds == IInv => TimesAddUp
<1>1. SUFFICES ASSUME IInv PROVE TimesAddUp
  OBVIOUS
<1>2. DifferencesLeadBack
  <2>1. SUFFICES ASSUME NEW c, c = Root(held), c[1] = "Datetime", NEW d \in Dates,
                        NEW gap, gap = Since(c, d), NEW back, back = After(d, gap)
                 PROVE  /\ ~Earlier(c, back)
                        /\ c[2] - back[2] < Tick
                        /\ Seconds(gap) > 0 => Earlier(d, c)
                        /\ Earlier(c, d) => Seconds(gap) < 0
    BY DEF DifferencesLeadBack
  <2>2. c[2] \in Int /\ d[2] \in Int
    BY <1>1, <2>1, HeldTimes, DatesAre
  <2>3. QED
    BY <2>1, <2>2, LeadsBack
<1>3. SpansAreTheirParts
  <2>1. ASSUME Root(held)[1] = "Timedelta" PROVE IsSpan(Root(held))
    BY <1>1, <2>1, HeldTimes
  <2>2. QED
    BY <2>1, PartsOfAll DEF SpansAreTheirParts
<1>4. QED
  BY <1>2, <1>3 DEF TimesAddUp

-----------------------------------------------------------------------------
(* Every value, computed or read back, is one that contracts can have;     *)
(* what encode() writes is read back as what was set, at whatever depth,   *)
(* by decode() and by convert_dict(), but that decimals are fixed, keys of *)
(* dicts are texts and tuples are lists, and nothing changes twice.        *)
THEOREM ValuesSurvive == Spec => []ValuesInv
BY Inductive, ValuesInvHolds, PTL

(* A decimal comes back from disk as no larger a number than the cache     *)
(* has, and less than a unit of the last decimal smaller, or the maximum.  *)
THEOREM DiskHasNoMore == Spec => []DiskIsNoMore
BY Inductive, DiskIsNoMoreHolds, PTL

(* Transfers of amounts that are whole in the last decimal neither make    *)
(* nor lose money, and a division and its inverse make none, whatever the  *)
(* precision and the amounts.                                              *)
THEOREM MoneyIsNotMade == Spec => []NoMoneyIsMade
BY Inductive, NoMoneyIsMadeHolds, PTL

(* Differences of Datetimes lead back to the later one but for a fraction  *)
(* of a second, and a Timedelta is as many weeks, days, hours, minutes and *)
(* seconds as its properties say.                                          *)
THEOREM TimesAgree == Spec => []TimesAddUp
BY Inductive, TimesAddUpHolds, PTL
=============================================================================
