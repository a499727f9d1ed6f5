-------------------------- MODULE TimerWheel_proof --------------------------
(***************************************************************************)
(* Proofs about TimerWheel, for any radix and any number of levels.        *)
(*                                                                         *)
(* A time is a number in base Radix, and Digits(t, l) is t without its l   *)
(* lowest digits.  In these terms an entry with deadline d may lie on      *)
(* level l at time t when d and t agree above the digit of l, and belongs  *)
(* there when they differ in that digit, or l is 0.                        *)
(*                                                                         *)
(* Exact says that every entry is where it belongs: the wheel between two  *)
(* polls.  Settling and Cascading say what is left of it in the loop of    *)
(* Wheel::poll: the entries of the slot that is emptied go down one level  *)
(* at a time, and the elapsed time follows when the slot is empty.  The    *)
(* main lemmas are InsertExact, RemoveExact, FirstExpiration, PopExact,    *)
(* CascadeStep, EndCascade and Advance, one for each operation.            *)
(***************************************************************************)
EXTENDS TimerWheel, WellFoundedInduction, SequenceTheorems, TLAPS

-----------------------------------------------------------------------------
(* Powers of Radix, division, and the digits of a time.                    *)

\* Every non-empty set of natural numbers has a least element.
LEMMA LeastNat ==
    ASSUME NEW T, T \subseteq Nat, T # {}
    PROVE  \E x \in T : \A y \in T : x <= y
  <1> DEFINE Less == {p \in Nat \X Nat : p[1] < p[2]}
  <1>1. IsWellFoundedOn(Less, Nat)
    BY NatLessThanWellFounded DEF OpToRel
  <1>. HIDE DEF Less
  <1>2. PICK x \in T : \A y \in T : <<y, x>> \notin Less
    BY <1>1, WFMin
  <1>3. \A y \in T : ~ (y < x)
    BY <1>2 DEF Less
  <1>4. QED BY <1>3

\* A function that satisfies the recursive definition of SlotRange exists up to
\* any level.
LEMMA PowersExist ==
    \A n \in Nat : \E f :
        f = [level \in 0..n |-> IF level = 0 THEN 1 ELSE Radix * f[level - 1]]
  <1> DEFINE Good(n) == \E f :
          f = [level \in 0..n |-> IF level = 0 THEN 1 ELSE Radix * f[level - 1]]
             Bad == {n \in Nat : ~Good(n)}
  <1>1. SUFFICES ASSUME Bad # {} PROVE FALSE
    OBVIOUS
  <1>2. PICK m \in Bad : \A n \in Bad : m <= n
    <2>1. Bad \subseteq Nat OBVIOUS
    <2> HIDE DEF Bad
    <2>2. QED BY <1>1, <2>1, LeastNat
  <1>3. m # 0
    <2>1. Good(0)
      <3>1. WITNESS [level \in 0..0 |-> 1]
      <3>2. QED OBVIOUS
    <2>2. QED BY <2>1
  <1>4. Good(m - 1)
    <2>1. m - 1 \in Nat /\ ~(m <= m - 1)
      BY <1>3
    <2>2. m - 1 \notin Bad
      <3> HIDE DEF Bad
      <3> QED BY <1>2, <2>1
    <2> HIDE DEF Good
    <2>3. QED BY <2>1, <2>2
  <1>5. PICK g : g = [level \in 0..(m - 1) |-> IF level = 0 THEN 1 ELSE Radix * g[level - 1]]
    BY <1>4
  <1>6. DEFINE f == [level \in 0..m |-> IF level = m THEN Radix * g[m - 1] ELSE g[level]]
  <1>7. f = [level \in 0..m |-> IF level = 0 THEN 1 ELSE Radix * f[level - 1]]
    <2>1. ASSUME NEW level \in 0..m
          PROVE  f[level] = IF level = 0 THEN 1 ELSE Radix * f[level - 1]
      <3>1. CASE level = 0
        BY <3>1, <1>3, <1>5
      <3>2. CASE level = m
        <4>1. m - 1 \in 0..m /\ m - 1 # m
          BY <1>3
        <4>2. f[m - 1] = g[m - 1]
          BY <4>1
        <4>3. QED BY <3>2, <4>2, <1>3
      <3>3. CASE level # 0 /\ level # m
        <4>1. level - 1 \in 0..m /\ level - 1 # m /\ level \in 0..(m - 1)
          BY <3>3
        <4>2. f[level - 1] = g[level - 1] /\ f[level] = g[level]
          BY <4>1, <3>3
        <4>3. g[level] = Radix * g[level - 1]
          BY <1>5, <4>1, <3>3
        <4>4. QED BY <4>2, <4>3, <3>3
      <3>4. QED BY <3>1, <3>2, <3>3
    <2>2. QED BY <2>1
  <1>8. Good(m)
    <2> HIDE DEF f
    <2>1. WITNESS f
    <2>2. QED BY <1>7
  <1>9. QED BY <1>8

\* SlotRange is LEVEL_MULT to the power of the level (level.rs 223-225).
LEMMA SlotRangeDef ==
    /\ SlotRange[0] = 1
    /\ \A l \in 1..NumLevels : SlotRange[l] = Radix * SlotRange[l - 1]
  <1>1. \E f : f = [level \in 0..NumLevels |-> IF level = 0 THEN 1 ELSE Radix * f[level - 1]]
    BY PowersExist, WheelAssumption
  <1>2. SlotRange = [level \in 0..NumLevels |-> IF level = 0 THEN 1 ELSE Radix * SlotRange[level - 1]]
    BY <1>1 DEF SlotRange
  <1>3. QED BY <1>2, WheelAssumption

\* What division and remainder are, for the provers.
LEMMA DivBounds ==
    ASSUME NEW a \in Nat, NEW b \in Nat \ {0}
    PROVE  /\ a \div b \in Nat
           /\ b * (a \div b) <= a
           /\ a < b * (a \div b) + b
           /\ a % b = a - b * (a \div b)
  <1>1. a \div b \in Int OBVIOUS
  <1>2.  b * (a \div b) <= a OBVIOUS
  <1>3. a < b * (a \div b) + b OBVIOUS
  <1>4. a % b = a - b * (a \div b) OBVIOUS
  <1>5. a \div b \in Nat OBVIOUS
  <1>6. QED BY <1>1, <1>2, <1>3, <1>4, <1>5

\* Multiplication by a natural number keeps an order.
LEMMA MulMono ==
    ASSUME NEW b \in Nat, NEW p \in Int, NEW q \in Int, p <= q
    PROVE  b * p <= b * q
  OBVIOUS

\* A multiple that is less than one step beyond another is not beyond it.
LEMMA MulStep ==
    ASSUME NEW b \in Nat \ {0}, NEW p \in Int, NEW q \in Int, b * p < b * q + b
    PROVE  p <= q
  <1>1. SUFFICES ASSUME q + 1 <= p PROVE FALSE OBVIOUS
  <1>2. b * (q + 1) <= b * p BY <1>1, MulMono
  <1>3. b * (q + 1) = b * q + b OBVIOUS
  <1>4. b * p \in Int /\ b * q \in Int OBVIOUS
  <1>5. QED BY <1>2, <1>3, <1>4

\* The quotient is the one number whose step of b holds a.
LEMMA DivUnique ==
    ASSUME NEW a \in Nat, NEW b \in Nat \ {0}, NEW q \in Int, b * q <= a, a < b * q + b
    PROVE  a \div b = q
  <1> DEFINE p == a \div b
  <1>1. p \in Nat /\ b * p <= a /\ a < b * p + b BY DivBounds
  <1> HIDE DEF p
  <1>2. b * p < b * q + b /\ b * q < b * p + b
    <2>1. b * p \in Int /\ b * q \in Int BY <1>1
    <2>2. QED BY <1>1, <2>1
  <1>3. p <= q /\ q <= p BY <1>1, <1>2, MulStep
  <1>4. p = q BY <1>3, <1>1
  <1>5. QED BY <1>4 DEF p

\* Division keeps an order.
LEMMA DivMono ==
    ASSUME NEW a \in Nat, NEW c \in Nat, NEW b \in Nat \ {0}, a <= c
    PROVE  a \div b <= c \div b
  <1> DEFINE p == a \div b
             q == c \div b
  <1>1. p \in Nat /\ b * p <= a /\ q \in Nat /\ c < b * q + b BY DivBounds
  <1> HIDE DEF p, q
  <1>2. b * p < b * q + b
    <2>1. b * p \in Int /\ b * q \in Int BY <1>1
    <2>2. QED BY <1>1, <2>1
  <1>3. p <= q BY <1>1, <1>2, MulStep
  <1>4. QED BY <1>3 DEF p, q

\* Dividing twice is dividing by the product.
LEMMA DivDiv ==
    ASSUME NEW a \in Nat, NEW b \in Nat \ {0}, NEW r \in Nat \ {0}
    PROVE  (a \div b) \div r = a \div (r * b)
  <1> DEFINE p == a \div b
             q == p \div r
  <1>1. p \in Nat /\ b * p <= a /\ a < b * p + b BY DivBounds
  <1> HIDE DEF p
  <1>2. q \in Nat /\ r * q <= p /\ p < r * q + r BY <1>1, DivBounds
  <1> HIDE DEF q
  <1>3. (r * b) * q <= a
    <2>1. r * q \in Int BY <1>2
    <2>2. b * (r * q) <= b * p BY <1>1, <1>2, <2>1, MulMono
    <2>3. b * (r * q) = (r * b) * q BY <1>2
    <2>4. b * p \in Int /\ b * (r * q) \in Int BY <1>1, <2>1
    <2>5. QED BY <1>1, <2>2, <2>3, <2>4
  <1>4. a < (r * b) * q + r * b
    <2>1. r * q + r - 1 \in Int BY <1>2
    <2>2. p <= r * q + r - 1
      <3>1. r * q \in Int BY <1>2
      <3>2. QED BY <1>1, <1>2, <3>1
    <2>3. b * p <= b * (r * q + r - 1) BY <1>1, <2>1, <2>2, MulMono
    <2>4. b * (r * q + r - 1) = (r * b) * q + r * b - b
      <3>1. r * q \in Int BY <1>2
      <3>2. b * (r * q + r - 1) = b * (r * q) + b * r - b BY <3>1
      <3>3. b * (r * q) = (r * b) * q /\ b * r = r * b BY <1>2
      <3>4. QED BY <3>2, <3>3
    <2>5. b * p \in Int /\ (r * b) * q + r * b \in Int BY <1>1, <1>2
    <2>6. b * p <= (r * b) * q + r * b - b BY <2>3, <2>4
    <2> DEFINE x == b * p
               y == (r * b) * q + r * b
    <2>7. /\ x \in Int
          /\ y \in Int
          /\ x <= y - b
          /\ a < x + b
      <3>1. x \in Int BY <2>5
      <3>2. y \in Int BY <2>5
      <3>3. x <= y - b BY <1>1, <1>2, <2>6
      <3>4. a < x + b BY <1>1
      <3>5. QED BY <3>1, <3>2, <3>3, <3>4
    <2> HIDE DEF x, y
    <2>8. a < y BY <2>7
    <2>9. QED BY <2>8 DEF y
  <1>5. r * b \in Nat \ {0}
    <2>1. r * b \in Nat OBVIOUS
    <2>2. r * 1 <= r * b BY MulMono
    <2>3. QED BY <2>1, <2>2
  <1>6. a \div (r * b) = q BY <1>2, <1>3, <1>4, <1>5, DivUnique
  <1>7. QED BY <1>6 DEF p, q
\* t without its l lowest digits.
Digits(t, l) == t \div SlotRange[l]

\* A slot of any level lasts at least a millisecond.
LEMMA SlotRangeType == \A l \in 0..NumLevels : SlotRange[l] \in Nat \ {0}
  <1> DEFINE Bad == {l \in 0..NumLevels : SlotRange[l] \notin Nat \ {0}}
  <1>1. SUFFICES ASSUME Bad # {} PROVE FALSE OBVIOUS
  <1>2. PICK m \in Bad : \A n \in Bad : m <= n
    <2>1. Bad \subseteq Nat BY WheelAssumption
    <2> HIDE DEF Bad
    <2>2. QED BY <1>1, <2>1, LeastNat
  <1>3. m # 0 BY SlotRangeDef
  <1>4. m - 1 \in 0..NumLevels /\ ~(m <= m - 1) /\ m \in 1..NumLevels
    BY <1>3, WheelAssumption
  <1>5. m - 1 \notin Bad
    <2> HIDE DEF Bad
    <2> QED BY <1>2, <1>4
  <1>6. SlotRange[m - 1] \in Nat \ {0} BY <1>4, <1>5
  <1>7. SlotRange[m] = Radix * SlotRange[m - 1] BY <1>4, SlotRangeDef
  <1>8. \A p \in Nat \ {0} : Radix * p \in Nat \ {0}
    <2>1. TAKE p \in Nat \ {0}
    <2>2. Radix * 1 <= Radix * p BY MulMono, WheelAssumption
    <2>3. Radix * p \in Nat BY WheelAssumption
    <2>4. QED BY <2>2, <2>3, WheelAssumption
  <1>9. QED BY <1>6, <1>7, <1>8

\* What is left of a time is a natural number.
LEMMA DigitsType ==
    ASSUME NEW t \in Nat, NEW l \in 0..NumLevels
    PROVE  Digits(t, l) \in Nat
  BY SlotRangeType, DivBounds DEF Digits

\* Without its 0 lowest digits a time is itself.
LEMMA DigitsZero ==
    ASSUME NEW t \in Nat
    PROVE  Digits(t, 0) = t
  BY SlotRangeDef, DivUnique DEF Digits

\* One digit more is one division by Radix more.
LEMMA DigitsStep ==
    ASSUME NEW t \in Nat, NEW l \in Levels
    PROVE  Digits(t, l + 1) = Digits(t, l) \div Radix
  <1>1. l \in 0..NumLevels /\ l + 1 \in 1..NumLevels /\ (l + 1) - 1 = l
    BY WheelAssumption DEF Levels
  <1>2. SlotRange[l + 1] = Radix * SlotRange[l]
    BY <1>1, SlotRangeDef
  <1>3. SlotRange[l] \in Nat \ {0} /\ Radix \in Nat \ {0}
    BY <1>1, SlotRangeType, WheelAssumption
  <1>4. QED BY <1>2, <1>3, DivDiv DEF Digits

\* A time is its higher digits, then its slot of the level (level.rs 231-234).
LEMMA SlotForFacts ==
    ASSUME NEW t \in Nat, NEW l \in Levels
    PROVE  /\ SlotFor(t, l) \in Slots
           /\ Digits(t, l) = Radix * Digits(t, l + 1) + SlotFor(t, l)
  <1> DEFINE d == Digits(t, l)
  <1>1. l \in 0..NumLevels BY WheelAssumption DEF Levels
  <1>2. d \in Nat /\ Radix \in Nat \ {0} BY <1>1, DigitsType, WheelAssumption
  <1>3. SlotFor(t, l) = d % Radix BY DEF SlotFor, Digits
  <1>4. Digits(t, l + 1) = d \div Radix BY DigitsStep
  <1> HIDE DEF d
  <1> DEFINE q == d \div Radix
             r == d % Radix
  <1>5. q \in Nat /\ Radix * q <= d /\ d < Radix * q + Radix /\ r = d - Radix * q
    BY <1>2, DivBounds
  <1> HIDE DEF q, r
  <1>6. r \in 0..(Radix - 1) /\ d = Radix * q + r
    <2>1. Radix * q \in Nat BY <1>2, <1>5
    <2>2. QED BY <1>2, <1>5, <2>1
  <1>7. QED BY <1>3, <1>4, <1>6 DEF Slots, q, r, d

\* The higher digits keep the order of times.
LEMMA DigitsMono ==
    ASSUME NEW t \in Nat, NEW u \in Nat, NEW l \in 0..NumLevels, t <= u
    PROVE  Digits(t, l) <= Digits(u, l)
  BY SlotRangeType, DivMono DEF Digits

\* Times whose higher digits are in order are in that order.
LEMMA DigitsLess ==
    ASSUME NEW t \in Nat, NEW u \in Nat, NEW l \in 0..NumLevels, Digits(t, l) < Digits(u, l)
    PROVE  t < u
  <1>1. ~(u <= t)
    <2>1. SUFFICES ASSUME u <= t PROVE FALSE OBVIOUS
    <2>2. Digits(u, l) <= Digits(t, l) BY <2>1, DigitsMono
    <2>3. QED BY <2>2, DigitsType
  <1>2. QED BY <1>1

\* Times that agree on the digits from l on agree on those from m on.
LEMMA DigitsUp ==
    ASSUME NEW t \in Nat, NEW u \in Nat, NEW l \in 0..NumLevels, NEW m \in 0..NumLevels,
           l <= m, Digits(t, l) = Digits(u, l)
    PROVE  Digits(t, m) = Digits(u, m)
  <1> DEFINE Bad == {n \in 0..NumLevels : l <= n /\ Digits(t, n) # Digits(u, n)}
  <1>1. SUFFICES ASSUME Bad # {} PROVE FALSE OBVIOUS
  <1>2. PICK n \in Bad : \A o \in Bad : n <= o
    <2>1. Bad \subseteq Nat BY WheelAssumption
    <2> HIDE DEF Bad
    <2>2. QED BY <1>1, <2>1, LeastNat
  <1>3. n # l OBVIOUS
  <1>4. n - 1 \in Levels /\ n - 1 \in 0..NumLevels /\ l <= n - 1 /\ ~(n <= n - 1) /\ (n - 1) + 1 = n
    BY <1>3, WheelAssumption DEF Levels
  <1>5. n - 1 \notin Bad
    <2> HIDE DEF Bad
    <2> QED BY <1>2, <1>4
  <1>6. Digits(t, n - 1) = Digits(u, n - 1) BY <1>4, <1>5
  <1>7. Digits(t, n) = Digits(u, n) BY <1>4, <1>6, DigitsStep
  <1>8. QED BY <1>7

\* The first time with given higher digits.
LEMMA SlotStart ==
    ASSUME NEW q \in Nat, NEW l \in 0..NumLevels
    PROVE  /\ SlotRange[l] * q \in Nat
           /\ Digits(SlotRange[l] * q, l) = q
  <1> DEFINE p == SlotRange[l]
  <1>1. p \in Nat \ {0} BY SlotRangeType
  <1> HIDE DEF p
  <1>2. p * q \in Nat BY <1>1
  <1>3. p * q <= p * q /\ p * q < p * q + p BY <1>1, <1>2
  <1>4. (p * q) \div p = q BY <1>1, <1>2, <1>3, DivUnique
  <1>5. QED BY <1>2, <1>4 DEF p, Digits

\* A slot starts no later than any of its times.
LEMMA SlotStartBelow ==
    ASSUME NEW t \in Nat, NEW l \in 0..NumLevels
    PROVE  SlotRange[l] * Digits(t, l) <= t
  BY SlotRangeType, DivBounds DEF Digits

\* The level for a deadline is the highest digit in which it differs from the
\* elapsed time (wheel/mod.rs 244-259).
LEMMA LevelForIs ==
    ASSUME NEW t \in Nat, NEW u \in Nat, NEW l \in Levels,
           Digits(t, l + 1) = Digits(u, l + 1), l = 0 \/ Digits(t, l) # Digits(u, l)
    PROVE  LevelFor(t, u) = l
  <1> DEFINE D == {n \in 0..NumLevels : t \div SlotRange[n] # u \div SlotRange[n]}
  <1>1. l \in 0..NumLevels /\ l + 1 \in 0..NumLevels BY WheelAssumption DEF Levels
  <1>2. \A n \in D : n <= l
    <2>1. TAKE n \in D
    <2>2. SUFFICES ASSUME ~(n <= l) PROVE FALSE OBVIOUS
    <2>3. l + 1 <= n BY <2>2, <1>1
    <2>4. Digits(t, n) = Digits(u, n) BY <1>1, <2>3, DigitsUp
    <2>5. QED BY <2>4 DEF Digits
  <1>3. CASE D = {}
    <2>1. l = 0 BY <1>1, <1>3 DEF Digits
    <2>2. QED BY <2>1, <1>3 DEF LevelFor
  <1>4. CASE D # {}
    <2>1. l \in D
      <3>1. CASE l = 0
        <4>1. PICK n \in D : TRUE BY <1>4
        <4>2. n <= l BY <1>2
        <4>3. n = l BY <3>1, <4>2
        <4>4. QED BY <4>3
      <3>2. CASE Digits(t, l) # Digits(u, l) BY <3>2, <1>1 DEF Digits
      <3>3. QED BY <3>1, <3>2
    <2>2. D \subseteq Int OBVIOUS
    <2>3. LevelFor(t, u) = CHOOSE n \in D : \A m \in D : m <= n BY <1>4 DEF LevelFor
    <2> HIDE DEF D
    <2>4. \A n \in D : (\A m \in D : m <= n) => n = l BY <1>2, <2>1, <2>2
    <2>5. (CHOOSE n \in D : \A m \in D : m <= n) = l BY <1>2, <2>1, <2>4
    <2>6. QED BY <2>3, <2>5
  <1>5. QED BY <1>3, <1>4

\* From the level above on, the deadline agrees with the elapsed time, and on the
\* level it does not.
LEMMA LevelForFacts ==
    ASSUME NEW t \in Nat, NEW u \in Nat
    PROVE  /\ LevelFor(t, u) \in 0..NumLevels
           /\ LevelFor(t, u) \in Levels => Digits(t, LevelFor(t, u) + 1) = Digits(u, LevelFor(t, u) + 1)
           /\ LevelFor(t, u) = 0 \/ Digits(t, LevelFor(t, u)) # Digits(u, LevelFor(t, u))
  <1> DEFINE D == {n \in 0..NumLevels : t \div SlotRange[n] # u \div SlotRange[n]}
  <1>1. CASE D = {}
    <2>1. LevelFor(t, u) = 0 BY <1>1 DEF LevelFor
    <2>2. 0 + 1 \in 0..NumLevels /\ 0 \in 0..NumLevels BY WheelAssumption
    <2>3. Digits(t, 0 + 1) = Digits(u, 0 + 1) BY <1>1, <2>2 DEF Digits
    <2>4. QED BY <2>1, <2>2, <2>3
  <1>2. CASE D # {}
    <2>1. \E n \in D : \A m \in D : m <= n
      <3> DEFINE E == {NumLevels - n : n \in D}
      <3>1. E \subseteq Nat /\ E # {} BY <1>2, WheelAssumption
      <3> HIDE DEF E
      <3>2. PICK x \in E : \A y \in E : x <= y BY <3>1, LeastNat
      <3>3. PICK n \in D : x = NumLevels - n BY DEF E
      <3>4. \A m \in D : NumLevels - m \in E BY DEF E
      <3>5. \A m \in D : m \in 0..NumLevels OBVIOUS
      <3> HIDE DEF D
      <3>6. \A m \in D : m <= n BY <3>2, <3>3, <3>4, <3>5, WheelAssumption
      <3>7. QED BY <3>6
    <2>2. LevelFor(t, u) = CHOOSE n \in D : \A m \in D : m <= n BY <1>2 DEF LevelFor
    <2>3. LevelFor(t, u) \in D /\ \A m \in D : m <= LevelFor(t, u)
      <3> HIDE DEF D
      <3> QED BY <2>1, <2>2
    <2> DEFINE n == LevelFor(t, u)
    <2>4. n \in 0..NumLevels /\ Digits(t, n) # Digits(u, n) BY <2>3 DEF Digits
    <2>5. n \in Levels => n + 1 \in 0..NumLevels /\ n + 1 \notin D
      <3>1. n \in Int BY <2>4
      <3>2. ~(n + 1 <= n) BY <3>1
      <3> HIDE DEF D, n
      <3>3. n + 1 \notin D BY <2>3, <3>2 DEF n
      <3>4. n \in Levels => n + 1 \in 0..NumLevels BY WheelAssumption DEF Levels
      <3>5. QED BY <3>3, <3>4
    <2>6. n \in Levels => Digits(t, n + 1) = Digits(u, n + 1) BY <2>5 DEF Digits
    <2>7. QED BY <2>4, <2>6
  <1>3. QED BY <1>1, <1>2

\* A list and its set of keys; contains is membership.
LEMMA EmptyFacts ==
    ASSUME NEW s \in Seq(Nat)
    PROVE  /\ s = <<>> <=> ToSet(s) = {}
           /\ ToSet(s) \subseteq Nat
           /\ IsInjective(<<>>)
           /\ \A k : Contains(s, k) <=> k \in ToSet(s)
  <1>1. DOMAIN s = 1..Len(s) /\ Len(s) \in Nat /\ \A i \in DOMAIN s : s[i] \in Nat OBVIOUS
  <1>2. ASSUME s # <<>> PROVE ToSet(s) # {}
    <2>1. 1 \in DOMAIN s BY <1>2
    <2>2. s[1] \in ToSet(s) BY <2>1 DEF ToSet
    <2>3. QED BY <2>2
  <1>3. ToSet(<<>>) = {} /\ IsInjective(<<>>) BY DEF ToSet, IsInjective
  <1>4. \A k : Contains(s, k) <=> k \in ToSet(s) BY <1>1 DEF Contains, ToSet
  <1>5. ToSet(s) \subseteq Nat BY <1>1 DEF ToSet
  <1>6. QED BY <1>2, <1>3, <1>4, <1>5

\* Stack::push adds its key and no other (delay_queue.rs 1090-1104).
LEMMA PushFacts ==
    ASSUME NEW s \in Seq(Nat), NEW k \in Nat
    PROVE  /\ Push(s, k) \in Seq(Nat)
           /\ Push(s, k) # <<>>
           /\ ToSet(Push(s, k)) = ToSet(s) \cup {k}
           /\ IsInjective(s) /\ k \notin ToSet(s) => IsInjective(Push(s, k))
  <1> DEFINE p == Push(s, k)
  <1>1. p \in Seq(Nat) /\ Len(p) = Len(s) + 1 /\ p[1] = k /\ \A i \in 1..Len(s) : p[i + 1] = s[i]
    BY DEF Push
  <1> HIDE DEF p
  <1>2. DOMAIN p = 1..(Len(s) + 1) /\ DOMAIN s = 1..Len(s) /\ Len(s) \in Nat BY <1>1
  <1>3. \A i \in 2..(Len(s) + 1) : i - 1 \in 1..Len(s) /\ p[i] = s[i - 1]
    <2>1. TAKE i \in 2..(Len(s) + 1)
    <2>2. i - 1 \in 1..Len(s) /\ (i - 1) + 1 = i BY <1>2
    <2>3. QED BY <1>1, <2>2
  <1>4. ToSet(p) = ToSet(s) \cup {k}
    <2>1. ToSet(p) \subseteq ToSet(s) \cup {k}
      <3>1. SUFFICES ASSUME NEW i \in 1..(Len(s) + 1) PROVE p[i] \in ToSet(s) \cup {k}
        BY <1>2 DEF ToSet
      <3>2. i = 1 \/ i \in 2..(Len(s) + 1) BY <1>2
      <3>3. QED BY <1>1, <1>2, <1>3, <3>2 DEF ToSet
    <2>2. k \in ToSet(p) BY <1>1, <1>2 DEF ToSet
    <2>3. ToSet(s) \subseteq ToSet(p)
      <3>1. SUFFICES ASSUME NEW i \in 1..Len(s) PROVE s[i] \in ToSet(p) BY <1>2 DEF ToSet
      <3>2. i + 1 \in DOMAIN p /\ p[i + 1] = s[i] BY <1>1, <1>2
      <3>3. QED BY <3>2 DEF ToSet
    <2>4. QED BY <2>1, <2>2, <2>3
  <1>5. ASSUME IsInjective(s), k \notin ToSet(s) PROVE IsInjective(p)
    <2>1. SUFFICES ASSUME NEW i \in 1..(Len(s) + 1), NEW j \in 1..(Len(s) + 1), p[i] = p[j], i # j
          PROVE FALSE BY <1>2 DEF IsInjective
    <2>2. \A n \in 2..(Len(s) + 1) : p[n] \in ToSet(s) BY <1>2, <1>3 DEF ToSet
    <2>3. i = 1 \/ i \in 2..(Len(s) + 1) BY <1>2
    <2>4. j = 1 \/ j \in 2..(Len(s) + 1) BY <1>2
    <2>5. CASE i = 1 BY <2>5, <2>1, <2>2, <2>4, <1>1, <1>5
    <2>6. CASE j = 1 BY <2>6, <2>1, <2>2, <2>3, <1>1, <1>5
    <2>7. CASE i \in 2..(Len(s) + 1) /\ j \in 2..(Len(s) + 1)
      <3>1. s[i - 1] = s[j - 1] /\ i - 1 \in DOMAIN s /\ j - 1 \in DOMAIN s
        BY <2>1, <2>7, <1>2, <1>3
      <3>2. i - 1 = j - 1 BY <3>1, <1>5 DEF IsInjective
      <3>3. QED BY <3>2, <2>1, <1>2
    <2>8. QED BY <2>3, <2>4, <2>5, <2>6, <2>7
  <1>6. p # <<>> BY <1>1, <1>2
  <1>7. QED BY <1>1, <1>4, <1>5, <1>6 DEF p

\* Stack::pop takes the head out and nothing else (delay_queue.rs 1106-1121).
LEMMA PopFacts ==
    ASSUME NEW s \in Seq(Nat), s # <<>>, IsInjective(s)
    PROVE  /\ Head(s) \in ToSet(s)
           /\ Pop(s) \in Seq(Nat)
           /\ ToSet(Pop(s)) = ToSet(s) \ {Head(s)}
           /\ IsInjective(Pop(s))
  <1> DEFINE p == Pop(s)
             n == Len(s)
  <1>1. n \in Nat \ {0} /\ DOMAIN s = 1..n OBVIOUS
  <1>2. p \in Seq(Nat) /\ DOMAIN p = 1..(n - 1) /\ \A i \in 1..(n - 1) : p[i] = s[i + 1]
    BY DEF Pop
  <1>3. Head(s) = s[1] OBVIOUS
  <1> HIDE DEF p, n
  <1>4. \A i, j \in 1..n : s[i] = s[j] => i = j BY <1>1 DEF IsInjective
  <1>5. Head(s) \in ToSet(s) BY <1>1, <1>3 DEF ToSet
  <1>6. /\ \A x : x \in ToSet(s) <=> \E i \in 1..n : x = s[i]
        /\ \A x : x \in ToSet(p) <=> \E i \in 1..(n - 1) : x = p[i]
    BY <1>1, <1>2 DEF ToSet
  <1>7. ToSet(p) = ToSet(s) \ {s[1]}
    <2>1. ASSUME NEW i \in 1..(n - 1) PROVE p[i] \in ToSet(s) \ {s[1]}
      <3>1. i + 1 \in 1..n /\ 1 \in 1..n /\ i + 1 # 1 BY <1>1
      <3>2. QED BY <1>2, <1>4, <1>6, <3>1
    <2>2. ASSUME NEW i \in 1..n, s[i] # s[1] PROVE s[i] \in ToSet(p)
      <3>1. i - 1 \in 1..(n - 1) /\ (i - 1) + 1 = i BY <1>1, <2>2
      <3>2. p[i - 1] = s[i] BY <1>2, <3>1
      <3>3. QED BY <1>2, <3>1, <3>2 DEF ToSet
    <2>3. QED BY <1>6, <2>1, <2>2
  <1>8. IsInjective(p)
    <2>1. SUFFICES ASSUME NEW i \in 1..(n - 1), NEW j \in 1..(n - 1), p[i] = p[j] PROVE i = j
      BY <1>2 DEF IsInjective
    <2>2. i + 1 \in 1..n /\ j + 1 \in 1..n /\ s[i + 1] = s[j + 1] BY <1>1, <1>2, <2>1
    <2>3. i + 1 = j + 1 BY <1>4, <2>2
    <2>4. QED BY <2>3
  <1>9. QED BY <1>2, <1>3, <1>5, <1>7, <1>8 DEF p

\* Stack::remove takes its key out and nothing else (delay_queue.rs 1123-1159).
LEMMA UnlinkFacts ==
    ASSUME NEW s \in Seq(Nat), IsInjective(s), NEW k \in ToSet(s)
    PROVE  /\ Unlink(s, k) \in Seq(Nat)
           /\ ToSet(Unlink(s, k)) = ToSet(s) \ {k}
           /\ IsInjective(Unlink(s, k))
  <1> DEFINE n == Len(s)
             I == {i \in 1..Len(s) : s[i] = k}
             p == Unlink(s, k)
  <1>1. n \in Nat /\ DOMAIN s = 1..n OBVIOUS
  <1>2. \A i, j \in 1..n : s[i] = s[j] => i = j BY <1>1 DEF IsInjective
  <1>3. PICK m \in 1..n : s[m] = k BY <1>1 DEF ToSet
  <1>4. I = {m} BY <1>2, <1>3
  <1>5. Min(I) = m BY <1>3, <1>4 DEF Min
  <1>6. SelectInSeq(s, LAMBDA v : v = k) = m
    BY <1>4, <1>5 DEF SelectInSeq
  <1>7. p = RemoveAt(s, m) BY <1>3, <1>6 DEF Unlink, RemoveFirst
  <1> HIDE DEF I, p, n
  <1>8. /\ p \in Seq(Nat)
        /\ DOMAIN p = 1..(n - 1)
        /\ \A i \in 1..(n - 1) : p[i] = IF i < m THEN s[i] ELSE s[i + 1]
    <2>1. p = SubSeq(s, 1, m - 1) \o SubSeq(s, m + 1, n) BY <1>7 DEF RemoveAt, n
    <2> DEFINE a == SubSeq(s, 1, m - 1)
               b == SubSeq(s, m + 1, n)
    <2>2. a \in Seq(Nat) /\ Len(a) = m - 1 /\ \A i \in 1..(m - 1) : a[i] = s[i]
      BY <1>1, <1>3 DEF n
    <2>3. b \in Seq(Nat) /\ Len(b) = n - m /\ \A i \in 1..(n - m) : b[i] = s[i + m]
      <3>1. m + 1 \in Int /\ n \in Int /\ \A i \in (m + 1)..n : s[i] \in Nat BY <1>1, <1>3
      <3>2. /\ b \in Seq(Nat)
            /\ Len(b) = IF m + 1 <= n THEN n - (m + 1) + 1 ELSE 0
            /\ \A i \in 1..(n - (m + 1) + 1) : b[i] = s[(m + 1) + i - 1]
        BY <3>1, SubSeqProperties
      <3> HIDE DEF b
      <3> DEFINE c == Len(b)
      <3>3. c = IF m + 1 <= n THEN n - (m + 1) + 1 ELSE 0 BY <3>2
      <3> HIDE DEF c
      <3>4. c = n - m BY <1>1, <1>3, <3>3
      <3>5. Len(b) = n - m BY <3>4 DEF c
      <3>6. \A i \in 1..(n - m) : i \in 1..(n - (m + 1) + 1) /\ (m + 1) + i - 1 = i + m
        BY <1>1, <1>3
      <3>7. QED BY <3>2, <3>5, <3>6
    <2> HIDE DEF a, b
    <2>4. a \o b \in Seq(Nat) /\ DOMAIN (a \o b) = 1..(n - 1)
      <3>1. a \o b \in Seq(Nat) BY <2>2, <2>3
      <3>2. Len(a \o b) = Len(a) + Len(b) BY <2>2, <2>3, ConcatProperties
      <3>3. Len(a \o b) = (m - 1) + (n - m) BY <2>2, <2>3, <3>2
      <3>4. (m - 1) + (n - m) = n - 1 BY <1>1, <1>3
      <3>5. QED BY <1>1, <3>1, <3>3, <3>4
    <2>5. ASSUME NEW i \in 1..(n - 1) PROVE (a \o b)[i] = IF i < m THEN s[i] ELSE s[i + 1]
      <3>1. CASE i < m
        <4>1. i \in 1..(m - 1) BY <3>1, <1>1, <1>3
        <4>2. (a \o b)[i] = a[i] BY <4>1, <1>1, <1>3, <2>2, <2>3
        <4>3. QED BY <3>1, <4>1, <4>2, <2>2
      <3>2. CASE ~(i < m)
        <4>1. (a \o b)[i] = b[i - (m - 1)]
          <5>1. i > m - 1 /\ i <= (m - 1) + (n - m) BY <3>2, <1>1, <1>3
          <5>2. i \in 1..(Len(a) + Len(b)) /\ ~(i <= Len(a)) BY <5>1, <2>2, <2>3, <1>1, <1>3
          <5>3. (a \o b)[i] = b[i - Len(a)] BY <5>2, <2>2, <2>3, ConcatProperties
          <5>4. QED BY <5>3, <2>2
        <4>2. i - (m - 1) \in 1..(n - m) /\ (i - (m - 1)) + m = i + 1 BY <3>2, <1>1, <1>3
        <4>3. QED BY <3>2, <4>1, <4>2, <2>3
      <3>3. QED BY <3>1, <3>2
    <2>6. p = a \o b BY <2>1 DEF a, b
    <2>7. QED BY <2>4, <2>5, <2>6
  <1>9. \A i \in 1..(n - 1) : /\ i < m => i \in 1..n /\ i # m /\ p[i] = s[i]
                              /\ ~(i < m) => i + 1 \in 1..n /\ i + 1 # m /\ p[i] = s[i + 1]
    BY <1>1, <1>3, <1>8
  <1>10. ToSet(p) = ToSet(s) \ {k}
    <2>1. ASSUME NEW i \in 1..(n - 1) PROVE p[i] \in ToSet(s) \ {k}
      <3>1. PICK j \in 1..n : j # m /\ p[i] = s[j] BY <1>9
      <3>2. QED BY <1>1, <1>3, <1>2, <1>3, <3>1 DEF ToSet
    <2>2. ASSUME NEW i \in 1..n, s[i] # k PROVE s[i] \in ToSet(p)
      <3>1. CASE i < m
        <4>1. i \in 1..(n - 1) BY <3>1, <1>1, <1>3
        <4>2. QED BY <3>1, <4>1, <1>8, <1>9 DEF ToSet
      <3>2. CASE ~(i < m)
        <4>1. i # m BY <1>3, <2>2
        <4>2. i - 1 \in 1..(n - 1) /\ ~(i - 1 < m) /\ (i - 1) + 1 = i BY <3>2, <4>1, <1>1, <1>3
        <4>3. QED BY <4>2, <1>8, <1>9 DEF ToSet
      <3>3. QED BY <3>1, <3>2
    <2>3. QED BY <1>1, <1>3, <1>8, <2>1, <2>2 DEF ToSet
  <1>11. IsInjective(p)
    <2>1. SUFFICES ASSUME NEW i \in 1..(n - 1), NEW j \in 1..(n - 1), p[i] = p[j] PROVE i = j
      BY <1>8 DEF IsInjective
    <2>2. CASE i < m /\ j < m BY <2>1, <2>2, <1>2, <1>9
    <2>3. CASE i < m /\ ~(j < m)
      <3>1. i = j + 1 BY <2>1, <2>3, <1>2, <1>9
      <3>2. QED BY <3>1, <2>3
    <2>4. CASE ~(i < m) /\ j < m
      <3>1. i + 1 = j BY <2>1, <2>4, <1>2, <1>9
      <3>2. QED BY <3>1, <2>4
    <2>5. CASE ~(i < m) /\ ~(j < m)
      <3>1. i + 1 = j + 1 BY <2>1, <2>5, <1>2, <1>9
      <3>2. QED BY <3>1
    <2>6. QED BY <2>2, <2>3, <2>4, <2>5
  <1>12. QED BY <1>8, <1>10, <1>11 DEF p

-----------------------------------------------------------------------------
(* The wheel as lists and bits.                                            *)

\* The type of a wheel.
Wheels == [elapsed  : Nat,
           slot     : [Levels -> [Slots -> Seq(Nat)]],
           occupied : [Levels -> SUBSET Slots]]

\* The keys in a slot.
At(w, l, s) == ToSet(w.slot[l][s])

\* No slot holds a key twice, and the bits tell which slots are empty.
WheelOK(w) ==
    /\ w \in Wheels
    /\ \A l \in Levels : w.occupied[l] = {s \in Slots : w.slot[l][s] # <<>>}
    /\ \A l \in Levels, s \in Slots : IsInjective(w.slot[l][s])

\* w and v differ in slot s of level l at most.
OthersSame(w, v, l, s) ==
    \A m \in Levels, t \in Slots : m # l \/ t # s => v.slot[m][t] = w.slot[m][t]

\* Replacing the list of a slot.
Replaced(w, l, s, list) ==
    [elapsed  |-> w.elapsed,
     slot     |-> [w.slot EXCEPT ![l][s] = list],
     occupied |-> [w.occupied EXCEPT ![l] = IF list = <<>> THEN @ \ {s} ELSE @ \cup {s}]]

\* Replacing one list, with its bit, leaves a wheel in order and other slots alone.
LEMMA ReplacedOK ==
    ASSUME NEW w, WheelOK(w), NEW l \in Levels, NEW s \in Slots,
           NEW list \in Seq(Nat), IsInjective(list)
    PROVE  LET v == Replaced(w, l, s, list) IN
           /\ WheelOK(v)
           /\ v.elapsed = w.elapsed
           /\ v.slot[l][s] = list
           /\ OthersSame(w, v, l, s)
  <1> DEFINE v == Replaced(w, l, s, list)
             bits == IF list = <<>> THEN w.occupied[l] \ {s} ELSE w.occupied[l] \cup {s}
  <1>1. w \in Wheels BY DEF WheelOK
  <1>2. /\ v.elapsed = w.elapsed
        /\ v.slot = [w.slot EXCEPT ![l][s] = list]
        /\ v.occupied = [w.occupied EXCEPT ![l] = bits]
    BY DEF Replaced
  <1>3. v = [elapsed |-> v.elapsed, slot |-> v.slot, occupied |-> v.occupied]
    BY DEF Replaced
  <1> HIDE DEF v
  <1>4. w.elapsed \in Nat /\ w.slot \in [Levels -> [Slots -> Seq(Nat)]] /\ w.occupied \in [Levels -> SUBSET Slots]
    BY <1>1 DEF Wheels
  <1>5. bits \in SUBSET Slots
    <2>1. w.occupied[l] \in SUBSET Slots BY <1>4
    <2>2. QED BY <2>1
  <1> HIDE DEF bits
  <1>6. /\ v.slot[l][s] = list
        /\ \A t \in Slots : t # s => v.slot[l][t] = w.slot[l][t]
        /\ \A m \in Levels, t \in Slots : m # l => v.slot[m][t] = w.slot[m][t]
    BY <1>2, <1>4
  <1>7. v.slot \in [Levels -> [Slots -> Seq(Nat)]] BY <1>2, <1>4
  <1>8. v.occupied \in [Levels -> SUBSET Slots] BY <1>2, <1>4, <1>5
  <1>9. v \in Wheels BY <1>2, <1>3, <1>4, <1>7, <1>8 DEF Wheels
  <1>10. ASSUME NEW m \in Levels PROVE v.occupied[m] = {t \in Slots : v.slot[m][t] # <<>>}
    <2>1. w.occupied[m] = {t \in Slots : w.slot[m][t] # <<>>} BY DEF WheelOK
    <2>2. CASE m # l BY <2>1, <2>2, <1>2, <1>4, <1>6
    <2>3. CASE m = l
      <3>1. v.occupied[l] = bits BY <1>2, <1>4
      <3>2. bits = {t \in Slots : v.slot[l][t] # <<>>} BY <2>1, <2>3, <1>6 DEF bits
      <3>3. QED BY <2>3, <3>1, <3>2
    <2>4. QED BY <2>2, <2>3
  <1>11. ASSUME NEW m \in Levels, NEW t \in Slots PROVE IsInjective(v.slot[m][t])
    <2>1. IsInjective(w.slot[m][t]) BY DEF WheelOK
    <2>2. v.slot[m][t] = list \/ v.slot[m][t] = w.slot[m][t] BY <1>6
    <2>3. QED BY <2>1, <2>2
  <1>12. WheelOK(v) BY <1>9, <1>10, <1>11 DEF WheelOK
  <1>13. OthersSame(w, v, l, s) BY <1>6 DEF OthersSame
  <1>14. QED BY <1>2, <1>6, <1>12, <1>13 DEF v

\* One slot of a wheel in order: its list, its keys and its bit.
LEMMA SlotOK ==
    ASSUME NEW w, WheelOK(w), NEW l \in Levels, NEW s \in Slots
    PROVE  /\ w.slot[l][s] \in Seq(Nat)
           /\ IsInjective(w.slot[l][s])
           /\ w.occupied[l] = {t \in Slots : w.slot[l][t] # <<>>}
           /\ w.slot[l][s] = <<>> <=> At(w, l, s) = {}
           /\ At(w, l, s) \subseteq Nat
  <1>1. w.slot[l][s] \in Seq(Nat) BY DEF WheelOK, Wheels
  <1>2. QED BY <1>1, EmptyFacts DEF WheelOK, At

\* add_entry adds the key to one slot (level.rs 176-181).
LEMMA AddEntryOK ==
    ASSUME NEW w, WheelOK(w), NEW l \in Levels, NEW when \in Nat, NEW k \in Nat,
           k \notin At(w, l, SlotFor(when, l))
    PROVE  LET v == AddEntry(w, l, when, k)
               s == SlotFor(when, l)
           IN /\ WheelOK(v)
              /\ v.elapsed = w.elapsed
              /\ At(v, l, s) = At(w, l, s) \cup {k}
              /\ OthersSame(w, v, l, s)
  <1> DEFINE s == SlotFor(when, l)
             list == Push(w.slot[l][s], k)
  <1>1. s \in Slots BY SlotForFacts
  <1> HIDE DEF s
  <1>2. list \in Seq(Nat) /\ list # <<>> /\ IsInjective(list) /\ ToSet(list) = At(w, l, s) \cup {k}
    BY <1>1, SlotOK, PushFacts DEF s, At
  <1> HIDE DEF list
  <1>3. AddEntry(w, l, when, k) = Replaced(w, l, s, list)
    <2>1. w = [elapsed |-> w.elapsed, slot |-> w.slot, occupied |-> w.occupied]
      BY DEF WheelOK, Wheels
    <2>2. w.slot \in [Levels -> [Slots -> Seq(Nat)]] /\ w.occupied \in [Levels -> SUBSET Slots]
      BY DEF WheelOK, Wheels
    <2>3. AddEntry(w, l, when, k) = [w EXCEPT !.slot[l][s] = list, !.occupied[l] = @ \cup {s}]
      BY <2>2 DEF AddEntry, s, list
    <2>4. QED BY <1>1, <1>2, <2>1, <2>2, <2>3 DEF Replaced
  <1>4. QED BY <1>1, <1>2, <1>3, ReplacedOK DEF s, At

\* remove_entry takes the key out of its slot, and clears the bit of an emptied
\* one (level.rs 183-195).
LEMMA RemoveEntryOK ==
    ASSUME NEW w, WheelOK(w), NEW l \in Levels, NEW when \in Nat,
           NEW k \in At(w, l, SlotFor(when, l))
    PROVE  LET v == RemoveEntry(w, l, when, k)
               s == SlotFor(when, l)
           IN /\ WheelOK(v)
              /\ v.elapsed = w.elapsed
              /\ At(v, l, s) = At(w, l, s) \ {k}
              /\ OthersSame(w, v, l, s)
  <1> DEFINE s == SlotFor(when, l)
             list == Unlink(w.slot[l][s], k)
  <1>1. s \in Slots BY SlotForFacts
  <1> HIDE DEF s
  <1>2. list \in Seq(Nat) /\ IsInjective(list) /\ ToSet(list) = At(w, l, s) \ {k}
    BY <1>1, SlotOK, UnlinkFacts DEF s, At
  <1>3. s \in w.occupied[l]
    <2>1. w.slot[l][s] # <<>> BY <1>1, SlotOK DEF s
    <2>2. QED BY <1>1, <2>1, SlotOK
  <1> HIDE DEF list
  <1>4. RemoveEntry(w, l, when, k) = Replaced(w, l, s, list)
    <2>1. w = [elapsed |-> w.elapsed, slot |-> w.slot, occupied |-> w.occupied]
      BY DEF WheelOK, Wheels
    <2>2. w.slot \in [Levels -> [Slots -> Seq(Nat)]] /\ w.occupied \in [Levels -> SUBSET Slots]
      BY DEF WheelOK, Wheels
    <2>3. RemoveEntry(w, l, when, k) =
          [w EXCEPT !.slot[l][s] = list, !.occupied[l] = IF list = <<>> THEN @ \ {s} ELSE @]
      BY DEF RemoveEntry, s, list
    <2>4. w.occupied[l] \cup {s} = w.occupied[l] BY <1>3
    <2>5. QED BY <1>1, <2>1, <2>2, <2>3, <2>4 DEF Replaced
  <1>5. QED BY <1>1, <1>2, <1>4, ReplacedOK DEF s, At

\* pop_entry_slot takes the head out of its slot, and clears the bit of an emptied
\* one (level.rs 197-208).
LEMMA PopEntryOK ==
    ASSUME NEW w, WheelOK(w), NEW e, e.level \in Levels, e.slot \in Slots,
           w.slot[e.level][e.slot] # <<>>
    PROVE  LET v == PopEntry(w, e)
               k == Head(w.slot[e.level][e.slot])
           IN /\ WheelOK(v)
              /\ v.elapsed = w.elapsed
              /\ k \in At(w, e.level, e.slot)
              /\ At(v, e.level, e.slot) = At(w, e.level, e.slot) \ {k}
              /\ OthersSame(w, v, e.level, e.slot)
  <1> DEFINE l == e.level
             s == e.slot
             list == Pop(w.slot[l][s])
             k == Head(w.slot[l][s])
  <1>1. l \in Levels /\ s \in Slots OBVIOUS
  <1>2. k \in At(w, l, s) /\ list \in Seq(Nat) /\ IsInjective(list) /\ ToSet(list) = At(w, l, s) \ {k}
    BY SlotOK, PopFacts DEF At
  <1>3. s \in w.occupied[l] BY <1>1, SlotOK
  <1>4. PopEntry(w, e) = [w EXCEPT !.slot[l][s] = list, !.occupied[l] = IF list = <<>> THEN @ \ {s} ELSE @]
    BY DEF PopEntry
  <1> HIDE DEF list, l, s, k
  <1>5. PopEntry(w, e) = Replaced(w, l, s, list)
    <2>1. w = [elapsed |-> w.elapsed, slot |-> w.slot, occupied |-> w.occupied]
      BY DEF WheelOK, Wheels
    <2>2. w.slot \in [Levels -> [Slots -> Seq(Nat)]] /\ w.occupied \in [Levels -> SUBSET Slots]
      BY DEF WheelOK, Wheels
    <2>3. w.occupied[l] \cup {s} = w.occupied[l] BY <1>3
    <2>4. QED BY <1>1, <2>1, <2>2, <1>4, <2>3 DEF Replaced
  <1>6. /\ WheelOK(PopEntry(w, e))
        /\ PopEntry(w, e).elapsed = w.elapsed
        /\ At(PopEntry(w, e), l, s) = At(w, l, s) \ {k}
        /\ OthersSame(w, PopEntry(w, e), l, s)
    BY <1>1, <1>2, <1>5, ReplacedOK DEF At
  <1>7. QED BY <1>2, <1>6 DEF l, s, k

\* set_elapsed changes the elapsed time alone (wheel/mod.rs 227-238).
LEMMA SetElapsedOK ==
    ASSUME NEW w, WheelOK(w), NEW t \in Nat, w.elapsed <= t
    PROVE  LET v == SetElapsed(w, t) IN
           /\ WheelOK(v)
           /\ v.elapsed = t
           /\ v.slot = w.slot
           /\ v.occupied = w.occupied
  <1>1. w \in Wheels BY DEF WheelOK
  <1>2. w.elapsed \in Nat BY <1>1 DEF Wheels
  <1>3. SetElapsed(w, t) = [w EXCEPT !.elapsed = t]
    BY <1>1, <1>2 DEF SetElapsed, Wheels
  <1>4. /\ SetElapsed(w, t) \in Wheels
        /\ SetElapsed(w, t).elapsed = t
        /\ SetElapsed(w, t).slot = w.slot
        /\ SetElapsed(w, t).occupied = w.occupied
    BY <1>1, <1>3 DEF Wheels
  <1>5. QED BY <1>4 DEF WheelOK

\* A new wheel is in order and empty.
LEMMA NewWheelOK ==
    /\ WheelOK(NewWheel)
    /\ NewWheel.elapsed = 0
    /\ \A l \in Levels, s \in Slots : At(NewWheel, l, s) = {}
  <1> DEFINE v == NewWheel
  <1>1. /\ v = [elapsed |-> v.elapsed, slot |-> v.slot, occupied |-> v.occupied]
        /\ v.elapsed = 0
        /\ v.slot = [l \in Levels |-> [s \in Slots |-> <<>>]]
        /\ v.occupied = [l \in Levels |-> {}]
    BY DEF NewWheel
  <1> HIDE DEF v
  <1>2. \A l \in Levels, s \in Slots : v.slot[l][s] = <<>> BY <1>1
  <1>3. \A l \in Levels : v.occupied[l] = {} BY <1>1
  <1>4. <<>> \in Seq(Nat) OBVIOUS
  <1>5. v.slot \in [Levels -> [Slots -> Seq(Nat)]] BY <1>1, <1>4
  <1>6. v.occupied \in [Levels -> SUBSET Slots] BY <1>1
  <1>7. v \in Wheels
    <2>1. v = [elapsed |-> v.elapsed, slot |-> v.slot, occupied |-> v.occupied] BY <1>1
    <2>2. v.elapsed \in Nat BY <1>1
    <2>3. QED BY <2>1, <2>2, <1>5, <1>6 DEF Wheels
  <1>8. \A l \in Levels : v.occupied[l] = {s \in Slots : v.slot[l][s] # <<>>} BY <1>2, <1>3
  <1>9. IsInjective(<<>>) /\ ToSet(<<>>) = {}
    <2>1. PICK t \in Seq(Nat) : t = <<>> BY <1>4
    <2>2. IsInjective(<<>>) BY <2>1, EmptyFacts
    <2>3. ToSet(t) = {} BY <2>1, EmptyFacts
    <2>4. QED BY <2>1, <2>2, <2>3
  <1>10. \A l \in Levels, s \in Slots : IsInjective(v.slot[l][s]) BY <1>2, <1>9
  <1>11. \A l \in Levels, s \in Slots : At(v, l, s) = {} BY <1>2, <1>9 DEF At
  <1>12. WheelOK(v) BY <1>7, <1>8, <1>10 DEF WheelOK
  <1>13. QED BY <1>1, <1>11, <1>12 DEF v

-----------------------------------------------------------------------------
(* What the wheel holds, and where it finds the next occupied slot.        *)

\* At time t an entry with deadline d may lie in slot s of level l.
Lies(t, d, l, s) == s = SlotFor(d, l) /\ Digits(d, l + 1) = Digits(t, l + 1) /\ t <= d

\* At time t the level of an entry with deadline d is l.
Home(t, d, l) == l = 0 \/ Digits(d, l) # Digits(t, l)

\* The wheel holds the keys K, each in one slot, which suits its deadline at
\* time t.
Holds(w, K, D, t) ==
    /\ \A k \in K : D[k] \in Nat
    /\ \A l \in Levels, s \in Slots : \A k \in At(w, l, s) : k \in K /\ Lies(t, D[k], l, s)
    /\ \A k \in K : \E l \in Levels, s \in Slots : k \in At(w, l, s)
    /\ \A l, m \in Levels, s, r \in Slots, k \in K : k \in At(w, l, s) /\ k \in At(w, m, r) => l = m

\* A time with nothing after the digit of level l.
Aligned(t, l) == t = SlotRange[l] * Digits(t, l)
\* No level below l holds anything.
EmptyBelow(w, l) == \A m \in Levels, s \in Slots : m < l => At(w, m, s) = {}

\* Between two polls: every entry is where its level says.
Exact(w, K, D) ==
    /\ WheelOK(w)
    /\ Holds(w, K, D, w.elapsed)
    /\ \A l \in Levels, s \in Slots : \A k \in At(w, l, s) : Home(w.elapsed, D[k], l)

\* In the loop of Wheel::poll: the entries just moved down may belong further
\* down, but then they are the first.
Settling(w, K, D) ==
    /\ WheelOK(w)
    /\ Holds(w, K, D, w.elapsed)
    /\ \A l \in Levels, s \in Slots : \A k \in At(w, l, s) :
          Home(w.elapsed, D[k], l) \/ (Aligned(w.elapsed, l) /\ EmptyBelow(w, l))

\* An entry of a slot: its deadline is not past, and the slot is not before that
\* of the elapsed time.
LEMMA HoldsFacts ==
    ASSUME NEW w, NEW K, NEW D, NEW t \in Nat, Holds(w, K, D, t),
           NEW l \in Levels, NEW s \in Slots, NEW k \in At(w, l, s)
    PROVE  /\ k \in K
           /\ D[k] \in Nat
           /\ t <= D[k]
           /\ s = SlotFor(D[k], l)
           /\ Digits(D[k], l + 1) = Digits(t, l + 1)
           /\ Digits(t, l) \in Nat /\ Digits(D[k], l) \in Nat
           /\ Digits(t, l) <= Digits(D[k], l)
           /\ Digits(D[k], l) = Radix * Digits(t, l + 1) + s
           /\ SlotFor(t, l) <= s
  <1>1. k \in K /\ D[k] \in Nat /\ Lies(t, D[k], l, s) BY DEF Holds
  <1>2. l \in 0..NumLevels /\ l + 1 \in 0..NumLevels BY WheelAssumption DEF Levels
  <1>3. PICK d \in Nat : d = D[k] BY <1>1
  <1>4. t <= d /\ s = SlotFor(d, l) /\ Digits(d, l + 1) = Digits(t, l + 1)
    BY <1>1, <1>3 DEF Lies
  <1>5. Digits(t, l) \in Nat /\ Digits(d, l) \in Nat /\ Digits(t, l + 1) \in Nat
    BY <1>2, DigitsType
  <1>6. Digits(t, l) <= Digits(d, l) BY <1>2, <1>4, DigitsMono
  <1>7. Digits(d, l) = Radix * Digits(t, l + 1) + s BY <1>4, SlotForFacts
  <1>8. Digits(t, l) = Radix * Digits(t, l + 1) + SlotFor(t, l) /\ SlotFor(t, l) \in Slots
    BY SlotForFacts
  <1> DEFINE b == Radix * Digits(t, l + 1)
  <1>9. b \in Nat BY <1>5, WheelAssumption
  <1>10. Digits(d, l) = b + s /\ Digits(t, l) = b + SlotFor(t, l) BY <1>7, <1>8
  <1> HIDE DEF b
  <1>11. SlotFor(t, l) <= s BY <1>6, <1>8, <1>9, <1>10 DEF Slots
  <1>12. QED BY <1>1, <1>3, <1>4, <1>5, <1>6, <1>7, <1>11

\* When no occupied slot lies before that of the elapsed time, the rotated bit
\* field of next_occupied_slot finds the lowest (level.rs 162-174).
LEMMA NextOccupied ==
    ASSUME NEW w, w.elapsed \in Nat, NEW l \in Levels, w.occupied[l] \subseteq Slots, w.occupied[l] # {},
           \A s \in w.occupied[l] : SlotFor(w.elapsed, l) <= s
    PROVE  /\ NextOccupiedSlot(w, l) \in w.occupied[l]
           /\ \A s \in w.occupied[l] : NextOccupiedSlot(w, l) <= s
  <1> DEFINE p == SlotFor(w.elapsed, l)
             q == Digits(w.elapsed, l + 1)
             n == Digits(w.elapsed, l)
             occ == w.occupied[l]
  <1>1. l + 1 \in 0..NumLevels /\ l \in 0..NumLevels BY WheelAssumption DEF Levels
  <1>2. p \in Slots /\ q \in Nat /\ n \in Nat /\ n = Radix * q + p
    BY <1>1, SlotForFacts, DigitsType
  <1>3. occ \subseteq Slots /\ occ \subseteq Nat BY DEF Slots
  <1>4. PICK f \in occ : \A s \in occ : f <= s BY <1>3, LeastNat
  <1>5. p <= f /\ f \in Slots /\ f \in Nat /\ p \in Nat BY <1>2, <1>3, <1>4 DEF Slots
  <1>6. NextOccupiedSlot(w, l) =
          (n + CHOOSE i \in Slots : /\ (n + i) % Radix \in occ
                                    /\ \A j \in 0..(i - 1) : (n + j) % Radix \notin occ) % Radix
    BY DEF NextOccupiedSlot, Digits
  <1>7. \A s \in occ : p <= s OBVIOUS
  <1> HIDE DEF p, q, n, occ
  <1>8. ASSUME NEW j \in Nat, p + j < Radix PROVE (n + j) % Radix = p + j
    <2> DEFINE a == n + j
               b == Radix * q
    <2>1. b \in Nat /\ n = b + p BY <1>2, WheelAssumption
    <2>2. a \in Nat /\ Radix \in Nat \ {0} BY <1>2, WheelAssumption
    <2>3. Radix \in Nat BY WheelAssumption
    <2>4. Radix * q <= a /\ a < Radix * q + Radix
      <3> HIDE DEF b
      <3>1. b <= a /\ a < b + Radix BY <2>1, <2>3, <1>5, <1>8
      <3>2. QED BY <3>1 DEF b
    <2>5. q \in Int BY <1>2
    <2> HIDE DEF a, b
    <2>6. a \div Radix = q BY <1>2, <2>2, <2>4, <2>5, DivUnique
    <2>7. a % Radix = a - Radix * q BY <2>2, <2>6, DivBounds
    <2>8. a % Radix = a - b /\ a = b + p + j BY <2>7, <2>1, <1>5, <1>2 DEF a, b
    <2>9. a % Radix = p + j BY <2>8, <2>1, <2>2, <1>5
    <2>10. QED BY <2>9 DEF a
  <1> DEFINE z == f - p
             P(i) == /\ (n + i) % Radix \in occ
                     /\ \A j \in 0..(i - 1) : (n + j) % Radix \notin occ
  <1>9. z \in Slots /\ p + z = f /\ f < Radix /\ z \in Nat
    BY <1>5, WheelAssumption DEF Slots
  <1>10. (n + z) % Radix = f BY <1>8, <1>9
  <1>11. P(z)
    <2>1. ASSUME NEW j \in 0..(z - 1) PROVE (n + j) % Radix \notin occ
      <3>1. j \in Nat /\ p + j < f /\ p + j < Radix /\ p + j \in Nat
        BY <1>5, <1>9, WheelAssumption
      <3>2. (n + j) % Radix = p + j BY <3>1, <1>8
      <3>3. SUFFICES ASSUME p + j \in occ PROVE FALSE BY <3>2
      <3>4. f <= p + j BY <3>3, <1>4
      <3>5. QED BY <3>1, <3>4, <1>5
    <2>2. QED BY <2>1, <1>10
  <1>12. ASSUME NEW i \in Slots, P(i) PROVE i = z
    <2>1. i \in Nat BY DEF Slots
    <2>2. CASE i < z
      <3>1. i \in 0..(z - 1) BY <2>1, <2>2, <1>9
      <3>2. QED BY <3>1, <1>11, <1>12
    <2>3. CASE z < i
      <3>1. z \in 0..(i - 1) BY <2>1, <2>3, <1>9
      <3>2. (n + z) % Radix \notin occ BY <3>1, <1>12
      <3>3. QED BY <3>2, <1>10, <1>4
    <2>4. QED BY <2>1, <2>2, <2>3, <1>9
  <1>13. (CHOOSE i \in Slots : P(i)) = z BY <1>9, <1>11, <1>12
  <1>14. NextOccupiedSlot(w, l) = f BY <1>6, <1>10, <1>13
  <1>15. QED BY <1>4, <1>14 DEF occ

-----------------------------------------------------------------------------
(* The next expiration (wheel/mod.rs 170-184, wheel/level.rs 125-174).     *)

\* The bits of a level tell whether it is empty, and which slots are not.
LEMMA EmptyBelowFacts ==
    ASSUME NEW w, WheelOK(w), NEW l \in Levels
    PROVE  /\ w.occupied[l] = {} <=> \A s \in Slots : At(w, l, s) = {}
           /\ \A s \in Slots : s \in w.occupied[l] <=> At(w, l, s) # {}
  <1>1. ASSUME NEW s \in Slots PROVE s \in w.occupied[l] <=> At(w, l, s) # {}
    <2>1. w.slot[l][s] = <<>> <=> At(w, l, s) = {} BY SlotOK
    <2>2. w.occupied[l] = {t \in Slots : w.slot[l][t] # <<>>} BY <1>1, SlotOK
    <2>3. QED BY <2>1, <2>2
  <1>2. w.occupied[l] \subseteq Slots BY DEF WheelOK, Wheels
  <1>3. QED BY <1>1, <1>2

\* Between two polls the loop of Wheel::poll could start.
LEMMA ExactSettling ==
    ASSUME NEW w, NEW K, NEW D, Exact(w, K, D)
    PROVE  Settling(w, K, D)
  BY DEF Exact, Settling

\* What next_expiration finds: the slot of the first entries; every other slot
\* that holds something lies after it.
First(w, D, e) ==
    /\ e.level \in Levels
    /\ e.slot \in Slots
    /\ e.deadline \in Nat
    /\ e = [level |-> e.level, slot |-> e.slot, deadline |-> e.deadline]
    /\ w.slot[e.level][e.slot] # <<>>
    /\ EmptyBelow(w, e.level)
    /\ w.elapsed <= e.deadline
    /\ Aligned(e.deadline, e.level)
    /\ e.slot = SlotFor(e.deadline, e.level)
    /\ Digits(e.deadline, e.level + 1) = Digits(w.elapsed, e.level + 1)
    /\ \A k \in At(w, e.level, e.slot) : Digits(D[k], e.level) = Digits(e.deadline, e.level)
    /\ \A l \in Levels, s \in Slots : \A k \in At(w, l, s) :
          /\ e.level <= l
          /\ l # e.level \/ s # e.slot => Digits(e.deadline, l) < Digits(D[k], l)

\* next_expiration takes the lowest level that holds something.
LEMMA LowestLevel ==
    ASSUME NEW w, WheelOK(w), Occupied(w) # {}
    PROVE  \E l \in Levels : /\ w.occupied[l] # {}
                             /\ NextExpiration(w) = LevelExpiration(w, l)
                             /\ EmptyBelow(w, l)
  <1>1. Occupied(w) \subseteq Levels /\ Occupied(w) \subseteq Nat BY DEF Occupied, Levels
  <1>2. PICK l \in Occupied(w) : \A m \in Occupied(w) : l <= m BY <1>1, LeastNat
  <1>3. ASSUME NEW n \in Occupied(w), \A m \in Occupied(w) : n <= m PROVE n = l
    <2>1. n <= l /\ l <= n /\ n \in Nat /\ l \in Nat BY <1>1, <1>2, <1>3
    <2>2. QED BY <2>1
  <1>4. (CHOOSE n \in Occupied(w) : \A m \in Occupied(w) : n <= m) = l BY <1>2, <1>3
  <1>5. NextExpiration(w) = LevelExpiration(w, l) BY <1>4 DEF NextExpiration
  <1>6. l \in Levels /\ w.occupied[l] # {} BY DEF Occupied
  <1>7. ASSUME NEW m \in Levels, NEW s \in Slots, m < l PROVE At(w, m, s) = {}
    <2>1. m \notin Occupied(w)
      <3>1. SUFFICES ASSUME m \in Occupied(w) PROVE FALSE OBVIOUS
      <3>2. l <= m BY <1>2, <3>1
      <3>3. m \in Nat /\ l \in Nat BY <1>6 DEF Levels
      <3>4. QED BY <3>2, <3>3, <1>7
    <2>2. w.occupied[m] = {} BY <2>1 DEF Occupied
    <2>3. QED BY <2>2, EmptyBelowFacts
  <1>8. EmptyBelow(w, l) BY <1>7 DEF EmptyBelow
  <1>9. QED BY <1>5, <1>6, <1>8

\* The deadline computed by next_expiration is the start of slot s of level l, in
\* the turn of the level that holds t (level.rs 125-160).
LEMMA DeadlineFacts ==
    ASSUME NEW t \in Nat, NEW l \in Levels, NEW s \in Slots
    PROVE  LET d == t - (t % LevelRange(l)) + s * SlotRange[l] IN
           /\ d \in Nat
           /\ Digits(d, l) = Radix * Digits(t, l + 1) + s
           /\ Digits(d, l + 1) = Digits(t, l + 1)
           /\ SlotFor(d, l) = s
           /\ Aligned(d, l)
  <1> DEFINE b == SlotRange[l]
             c == Digits(t, l + 1)
             q == Radix * c + s
  <1>1. l \in 0..NumLevels /\ l + 1 \in 1..NumLevels /\ l + 1 \in 0..NumLevels /\ (l + 1) - 1 = l
    BY WheelAssumption DEF Levels
  <1>2. b \in Nat \ {0} /\ c \in Nat /\ s \in Nat /\ Radix \in Nat \ {0} /\ SlotRange[l + 1] \in Nat \ {0} /\ s < Radix
    BY <1>1, SlotRangeType, DigitsType, WheelAssumption DEF Slots
  <1>3. LevelRange(l) = SlotRange[l + 1] /\ LevelRange(l) = Radix * b
    BY <1>1, SlotRangeDef DEF LevelRange
  <1>4. t % LevelRange(l) = t - SlotRange[l + 1] * c
    <2>1. t % SlotRange[l + 1] = t - SlotRange[l + 1] * (t \div SlotRange[l + 1])
      BY <1>2, DivBounds
    <2>2. QED BY <2>1, <1>3 DEF Digits
  <1>5. SlotRange[l + 1] * c = (Radix * b) * c BY <1>3
  <1> DEFINE d == t - (t % LevelRange(l)) + s * SlotRange[l]
  <1>6. d = b * q
    <2>1. d = t - (t - (Radix * b) * c) + s * b BY <1>4, <1>5
    <2>2. (Radix * b) * c \in Nat /\ s * b \in Nat BY <1>2
    <2>3. t - (t - (Radix * b) * c) = (Radix * b) * c
      <3> DEFINE x == (Radix * b) * c
      <3>1. x \in Nat BY <2>2
      <3> HIDE DEF x
      <3>2. t - (t - x) = x BY <3>1
      <3>3. QED BY <3>2 DEF x
    <2>4. d = (Radix * b) * c + s * b BY <2>1, <2>3
    <2>5. (Radix * b) * c + s * b = b * (Radix * c + s) BY <1>2
    <2>6. QED BY <2>4, <2>5
  <1>7. q \in Nat BY <1>2
  <1>8. d \in Nat /\ Digits(d, l) = q
    <2>1. SlotRange[l] * q \in Nat /\ Digits(SlotRange[l] * q, l) = q BY <1>1, <1>7, SlotStart
    <2>2. QED BY <2>1, <1>6
  <1> HIDE DEF d
  <1>9. Aligned(d, l) BY <1>6, <1>8 DEF Aligned
  <1>10. q \div Radix = c
    <2>1. Radix * c <= q /\ q < Radix * c + Radix
      <3> DEFINE x == Radix * c
      <3>1. x \in Nat BY <1>2
      <3>2. q = x + s OBVIOUS
      <3> HIDE DEF x
      <3>3. x <= x + s /\ x + s < x + Radix BY <3>1, <1>2
      <3>4. QED BY <3>2, <3>3 DEF x
    <2>2. c \in Int BY <1>2
    <2> HIDE DEF q
    <2>3. QED BY <2>1, <2>2, <1>2, <1>7, DivUnique
  <1>11. Digits(d, l + 1) = c BY <1>8, <1>10, DigitsStep
  <1>12. SlotFor(d, l) = s
    <2>1. Digits(d, l) = Radix * Digits(d, l + 1) + SlotFor(d, l) /\ SlotFor(d, l) \in Slots
      BY <1>8, SlotForFacts
    <2> DEFINE x == Radix * c
    <2>2. x \in Nat BY <1>2
    <2>3. x + s = x + SlotFor(d, l) BY <2>1, <1>8, <1>11
    <2>4. SlotFor(d, l) \in Nat BY <2>1 DEF Slots
    <2> HIDE DEF x
    <2>5. QED BY <2>2, <2>3, <2>4, <1>2
  <1>13. QED BY <1>8, <1>9, <1>11, <1>12 DEF d

\* next_expiration finds the slot before all others, although it looks at the
\* lowest occupied level only (wheel/mod.rs 170-184).
LEMMA FirstExpiration ==
    ASSUME NEW w, NEW K, NEW D, Settling(w, K, D), Occupied(w) # {}
    PROVE  First(w, D, NextExpiration(w))
  <1> DEFINE t == w.elapsed
             e == NextExpiration(w)
  <1>1. WheelOK(w) /\ Holds(w, K, D, t) BY DEF Settling
  <1>2. t \in Nat BY <1>1 DEF WheelOK, Wheels
  <1>3. PICK l \in Levels : /\ w.occupied[l] # {}
                            /\ e = LevelExpiration(w, l)
                            /\ EmptyBelow(w, l)
    BY <1>1, LowestLevel
  <1>4. w.occupied[l] \subseteq Slots BY <1>1 DEF WheelOK, Wheels
  <1>5. ASSUME NEW s \in w.occupied[l] PROVE SlotFor(t, l) <= s
    <2>1. s \in Slots BY <1>4
    <2>2. PICK k : k \in At(w, l, s) BY <1>1, <2>1, EmptyBelowFacts
    <2>3. QED BY <1>1, <1>2, <2>1, <2>2, HoldsFacts
  <1> DEFINE s == NextOccupiedSlot(w, l)
  <1>6. s \in w.occupied[l] /\ \A r \in w.occupied[l] : s <= r
    BY <1>2, <1>3, <1>4, <1>5, NextOccupied
  <1>7. s \in Slots BY <1>4, <1>6
  <1> DEFINE d == t - (t % LevelRange(l)) + s * SlotRange[l]
  <1>8. e = [level |-> l, slot |-> s, deadline |-> d] BY <1>3 DEF LevelExpiration
  <1>9. /\ d \in Nat
        /\ Digits(d, l) = Radix * Digits(t, l + 1) + s
        /\ Digits(d, l + 1) = Digits(t, l + 1)
        /\ SlotFor(d, l) = s
        /\ Aligned(d, l)
    BY <1>2, <1>7, DeadlineFacts
  <1> HIDE DEF d, s, e
  <1>10. At(w, l, s) # {} /\ w.slot[l][s] # <<>> BY <1>1, <1>6, <1>7, EmptyBelowFacts, SlotOK
  <1>11. ASSUME NEW k \in At(w, l, s) PROVE Digits(D[k], l) = Digits(d, l)
    BY <1>1, <1>2, <1>7, <1>9, <1>11, HoldsFacts
  <1>12. l \in 0..NumLevels /\ l + 1 \in 0..NumLevels /\ l \in Nat BY WheelAssumption DEF Levels
  <1>13. t <= d
    <2>1. PICK k : k \in At(w, l, s) BY <1>10
    <2>2. Digits(t, l) <= Digits(D[k], l) /\ Digits(t, l) \in Nat /\ Digits(D[k], l) \in Nat
      BY <1>1, <1>2, <1>7, <2>1, HoldsFacts
    <2>3. Digits(D[k], l) = Digits(d, l) BY <1>11, <2>1
    <2>4. CASE Digits(t, l) < Digits(d, l)
      <3>1. t < d BY <2>4, <1>2, <1>9, <1>12, DigitsLess
      <3>2. QED BY <3>1, <1>2, <1>9
    <2>5. CASE Digits(t, l) = Digits(d, l)
      <3>1. CASE l = 0 BY <3>1, <2>5, <1>2, <1>9, DigitsZero
      <3>2. CASE l # 0
        <4>1. ~Home(t, D[k], l) BY <3>2, <2>5, <2>3 DEF Home
        <4>2. Aligned(t, l) BY <4>1, <2>1, <1>7 DEF Settling
        <4>3. t = d BY <4>2, <1>9, <2>5 DEF Aligned
        <4>4. QED BY <4>3, <1>2
      <3>3. QED BY <3>1, <3>2
    <2>6. QED BY <2>2, <2>3, <2>4, <2>5
  <1>14. ASSUME NEW m \in Levels, NEW r \in Slots, NEW k \in At(w, m, r)
         PROVE  /\ l <= m
                /\ m # l \/ r # s => Digits(d, m) < Digits(D[k], m)
    <2>1. m \in Nat /\ m \in 0..NumLevels BY WheelAssumption DEF Levels
    <2>2. l <= m
      <3>1. ~(m < l) BY <1>3, <1>14 DEF EmptyBelow
      <3>2. QED BY <3>1, <2>1, <1>12
    <2>3. CASE m = l /\ r # s
      <3>1. r \in w.occupied[l] BY <2>3, <1>1, EmptyBelowFacts
      <3>2. s <= r /\ s \in Nat /\ r \in Nat BY <3>1, <1>6, <1>7 DEF Slots
      <3>3. Digits(D[k], l) = Radix * Digits(t, l + 1) + r BY <2>3, <1>1, <1>2, HoldsFacts
      <3> DEFINE b == Radix * Digits(t, l + 1)
      <3>4. b \in Nat BY <1>2, <1>12, DigitsType, WheelAssumption
      <3>5. Digits(D[k], l) = b + r /\ Digits(d, l) = b + s BY <3>3, <1>9
      <3> HIDE DEF b
      <3>6. b + s < b + r BY <3>2, <3>4, <2>3
      <3>7. QED BY <2>3, <3>5, <3>6, <2>2
    <2>4. CASE m # l
      <3>1. l < m /\ l + 1 <= m BY <2>1, <2>2, <2>4, <1>12
      <3>2. Digits(d, m) = Digits(t, m) BY <3>1, <2>1, <1>2, <1>9, <1>12, DigitsUp
      <3>3. ~EmptyBelow(w, m) BY <3>1, <1>7, <1>10 DEF EmptyBelow
      <3>4. Home(t, D[k], m) BY <3>3, <1>14 DEF Settling
      <3>5. Digits(D[k], m) # Digits(t, m)
        <4>1. m # 0 BY <3>1, <1>12, <2>1
        <4>2. QED BY <3>4, <4>1 DEF Home
      <3>6. Digits(t, m) <= Digits(D[k], m) /\ Digits(t, m) \in Nat /\ Digits(D[k], m) \in Nat
        BY <1>1, <1>2, <1>14, HoldsFacts
      <3>7. QED BY <3>2, <3>5, <3>6, <2>2
    <2>5. CASE m = l /\ r = s BY <2>2, <2>5
    <2>6. QED BY <2>3, <2>4, <2>5
  <1>15. e.level = l /\ e.slot = s /\ e.deadline = d /\ e = [level |-> e.level, slot |-> e.slot, deadline |-> e.deadline]
    BY <1>8
  <1>16. QED BY <1>3, <1>7, <1>9, <1>10, <1>11, <1>13, <1>14, <1>15 DEF First, e

-----------------------------------------------------------------------------
(* insert and remove (wheel/mod.rs 91-132).                                *)

\* No entry of the wheel is due before the next expiration.
LEMMA FirstIsLeast ==
    ASSUME NEW w, NEW K, NEW D, w.elapsed \in Nat, Holds(w, K, D, w.elapsed), NEW e, First(w, D, e), NEW k \in K
    PROVE  e.deadline <= D[k]
  <1>1. PICK l \in Levels, s \in Slots : k \in At(w, l, s) BY DEF Holds
  <1>2. D[k] \in Nat /\ e.deadline \in Nat /\ e.level \in Levels /\ l \in 0..NumLevels
    BY WheelAssumption DEF Holds, First, Levels
  <1>3. PICK d \in Nat : d = D[k] BY <1>2
  <1>4. CASE l # e.level \/ s # e.slot
    <2>1. Digits(e.deadline, l) < Digits(d, l) BY <1>1, <1>3, <1>4 DEF First
    <2>2. e.deadline < d BY <2>1, <1>2, DigitsLess
    <2>3. QED BY <2>2, <1>2, <1>3
  <1>5. CASE l = e.level /\ s = e.slot
    <2>1. Digits(d, l) = Digits(e.deadline, l) BY <1>1, <1>3, <1>5 DEF First
    <2>2. e.deadline = SlotRange[l] * Digits(d, l) BY <2>1, <1>5 DEF First, Aligned
    <2>3. QED BY <2>2, <1>2, <1>3, SlotStartBelow
  <1>6. QED BY <1>4, <1>5

\* No key is in two slots.
LEMMA HoldsElsewhere ==
    ASSUME NEW w, NEW K, NEW D, NEW t, Holds(w, K, D, t),
           NEW l \in Levels, NEW s \in Slots, NEW m \in Levels, NEW r \in Slots,
           NEW k, k \in At(w, l, s), k \in At(w, m, r)
    PROVE  l = m /\ s = r
  <1>1. k \in K BY DEF Holds
  <1>2. l = m BY <1>1 DEF Holds
  <1>3. s = SlotFor(D[k], l) /\ r = SlotFor(D[k], m) BY DEF Holds, Lies
  <1>4. QED BY <1>2, <1>3

\* v is w without key k, or with it in slot s of level l.
Dropped(w, v, k) == \A m \in Levels, r \in Slots : At(v, m, r) = At(w, m, r) \ {k}
Added(w, v, k, l, s) == \A m \in Levels, r \in Slots :
    At(v, m, r) \ {k} = At(w, m, r) /\ (k \in At(v, m, r) => m = l /\ r = s)

\* A key is taken out of its slot.
LEMMA HoldsDrop ==
    ASSUME NEW w, NEW v, NEW K, NEW D, NEW E, NEW t, Holds(w, K, D, t),
           NEW l \in Levels, NEW s \in Slots, NEW k \in At(w, l, s),
           OthersSame(w, v, l, s), At(v, l, s) = At(w, l, s) \ {k},
           \A j \in K \ {k} : E[j] = D[j]
    PROVE  /\ Holds(v, K \ {k}, E, t)
           /\ Dropped(w, v, k)
  <1>1. ASSUME NEW m \in Levels, NEW r \in Slots PROVE At(v, m, r) = At(w, m, r) \ {k}
    <2>1. CASE m = l /\ r = s BY <2>1
    <2>2. CASE m # l \/ r # s
      <3>1. At(v, m, r) = At(w, m, r) BY <2>2 DEF OthersSame, At
      <3>2. k \notin At(w, m, r) BY <2>2, HoldsElsewhere
      <3>3. QED BY <3>1, <3>2
    <2>3. QED BY <2>1, <2>2
  <1>2. \A j \in K \ {k} : E[j] \in Nat BY DEF Holds
  <1>3. ASSUME NEW m \in Levels, NEW r \in Slots, NEW j \in At(v, m, r)
        PROVE  j \in K \ {k} /\ Lies(t, E[j], m, r)
    BY <1>1 DEF Holds
  <1>4. ASSUME NEW j \in K \ {k} PROVE \E m \in Levels, r \in Slots : j \in At(v, m, r)
    <2>1. PICK m \in Levels, r \in Slots : j \in At(w, m, r) BY DEF Holds
    <2>2. QED BY <2>1, <1>1
  <1>5. ASSUME NEW m \in Levels, NEW n \in Levels, NEW r \in Slots, NEW q \in Slots, NEW j \in K \ {k},
               j \in At(v, m, r), j \in At(v, n, q)
        PROVE  m = n
    BY <1>1, <1>5, HoldsElsewhere
  <1>6. Holds(v, K \ {k}, E, t) BY <1>2, <1>3, <1>4, <1>5 DEF Holds
  <1>7. QED BY <1>1, <1>6 DEF Dropped

\* A key is put into a slot that suits its deadline.
LEMMA HoldsAdd ==
    ASSUME NEW w, NEW v, NEW K, NEW D, NEW E, NEW t, Holds(w, K, D, t),
           NEW l \in Levels, NEW s \in Slots, NEW k, k \notin K,
           OthersSame(w, v, l, s), At(v, l, s) = At(w, l, s) \cup {k},
           E[k] \in Nat, Lies(t, E[k], l, s),
           \A j \in K : E[j] = D[j]
    PROVE  /\ Holds(v, K \cup {k}, E, t)
           /\ Added(w, v, k, l, s)
  <1>1. ASSUME NEW m \in Levels, NEW r \in Slots
        PROVE  k \notin At(w, m, r) /\ At(v, m, r) \ {k} = At(w, m, r) /\ (k \in At(v, m, r) => m = l /\ r = s)
    <2>1. k \notin At(w, m, r) BY DEF Holds
    <2>2. CASE m = l /\ r = s BY <2>1, <2>2
    <2>3. CASE m # l \/ r # s
      <3>1. At(v, m, r) = At(w, m, r) BY <2>3 DEF OthersSame, At
      <3>2. QED BY <3>1, <2>1
    <2>4. QED BY <2>2, <2>3
  <1>2. \A j \in K \cup {k} : E[j] \in Nat BY DEF Holds
  <1>3. ASSUME NEW m \in Levels, NEW r \in Slots, NEW j \in At(v, m, r)
        PROVE  j \in K \cup {k} /\ Lies(t, E[j], m, r)
    <2>1. CASE j = k BY <2>1, <1>1
    <2>2. CASE j # k
      <3>1. j \in At(w, m, r) BY <2>2, <1>1
      <3>2. QED BY <3>1 DEF Holds
    <2>3. QED BY <2>1, <2>2
  <1>4. ASSUME NEW j \in K \cup {k} PROVE \E m \in Levels, r \in Slots : j \in At(v, m, r)
    <2>1. CASE j = k BY <2>1
    <2>2. CASE j # k
      <3>1. PICK m \in Levels, r \in Slots : j \in At(w, m, r) BY <2>2 DEF Holds
      <3>2. QED BY <3>1, <1>1
    <2>3. QED BY <2>1, <2>2
  <1>5. ASSUME NEW m \in Levels, NEW n \in Levels, NEW r \in Slots, NEW q \in Slots, NEW j \in K \cup {k},
               j \in At(v, m, r), j \in At(v, n, q)
        PROVE  m = n
    <2>1. CASE j = k BY <2>1, <1>1, <1>5
    <2>2. CASE j # k
      <3>1. j \in At(w, m, r) /\ j \in At(w, n, q) BY <2>2, <1>1, <1>5
      <3>2. QED BY <3>1, HoldsElsewhere
    <2>3. QED BY <2>1, <2>2
  <1>6. Holds(v, K \cup {k}, E, t) BY <1>2, <1>3, <1>4, <1>5 DEF Holds
  <1>7. QED BY <1>1, <1>6 DEF Added

\* insert leaves the new entry where remove will look for it, and the others
\* where they were (wheel/mod.rs 91-116).
LEMMA InsertExact ==
    ASSUME NEW w, NEW K, NEW D, NEW E, Exact(w, K, D), NEW k \in Nat, k \notin K,
           NEW when \in Nat, E[k] = when, \A j \in K : E[j] = D[j],
           ~Elapsed(w, when), Valid(w, when)
    PROVE  /\ Exact(WheelInsert(w, when, k), K \cup {k}, E)
           /\ WheelInsert(w, when, k).elapsed = w.elapsed
  <1> DEFINE t == w.elapsed
             l == LevelFor(t, when)
             s == SlotFor(when, l)
             v == WheelInsert(w, when, k)
  <1>1. WheelOK(w) /\ Holds(w, K, D, t) BY DEF Exact
  <1>2. t \in Nat BY <1>1 DEF WheelOK, Wheels
  <1>3. l \in Levels /\ t <= when BY <1>2 DEF Valid, Elapsed
  <1>4. s \in Slots BY <1>3, SlotForFacts
  <1>5. Digits(t, l + 1) = Digits(when, l + 1) /\ Home(t, when, l)
    <2>1. Digits(t, l + 1) = Digits(when, l + 1) BY <1>2, <1>3, LevelForFacts
    <2>2. l = 0 \/ Digits(t, l) # Digits(when, l) BY <1>2, <1>3, LevelForFacts
    <2>3. QED BY <2>1, <2>2 DEF Home
  <1>6. Lies(t, when, l, s) BY <1>3, <1>5 DEF Lies
  <1>7. k \notin At(w, l, s) BY <1>1, <1>3, <1>4 DEF Holds
  <1>8. v = AddEntry(w, l, when, k) BY DEF WheelInsert
  <1>9. WheelOK(v) /\ v.elapsed = t /\ At(v, l, s) = At(w, l, s) \cup {k} /\ OthersSame(w, v, l, s)
    BY <1>1, <1>3, <1>7, <1>8, AddEntryOK
  <1> HIDE DEF v, l, s, t
  <1>10. /\ Holds(v, K \cup {k}, E, t)
         /\ Added(w, v, k, l, s)
    BY <1>1, <1>3, <1>4, <1>6, <1>9, HoldsAdd
  <1>11. ASSUME NEW m \in Levels, NEW r \in Slots, NEW j \in At(v, m, r) PROVE Home(t, E[j], m)
    <2>1. CASE j = k BY <2>1, <1>5, <1>10, <1>11 DEF Added
    <2>2. CASE j # k
      <3>1. j \in At(w, m, r) BY <2>2, <1>10 DEF Added
      <3>2. j \in K BY <3>1, <1>1 DEF Holds
      <3>3. Home(t, D[j], m) BY <3>1 DEF Exact, t
      <3>4. QED BY <3>2, <3>3
    <2>3. QED BY <2>1, <2>2
  <1>12. Exact(v, K \cup {k}, E) BY <1>9, <1>10, <1>11 DEF Exact
  <1>13. QED BY <1>9, <1>12 DEF v, t

\* Between two polls an entry is where its deadline and the elapsed time say, and
\* nowhere else.
LEMMA ExactHome ==
    ASSUME NEW w, NEW K, NEW D, Exact(w, K, D), NEW k \in K
    PROVE  /\ D[k] \in Nat
           /\ w.elapsed \in Nat
           /\ w.elapsed <= D[k]
           /\ LevelFor(w.elapsed, D[k]) \in Levels
           /\ \A l \in Levels, s \in Slots :
                 k \in At(w, l, s) <=> l = LevelFor(w.elapsed, D[k]) /\ s = SlotFor(D[k], l)
  <1> DEFINE t == w.elapsed
             d == D[k]
  <1>1. WheelOK(w) /\ Holds(w, K, D, t) BY DEF Exact
  <1>2. t \in Nat /\ d \in Nat BY <1>1 DEF WheelOK, Wheels, Holds
  <1>3. ASSUME NEW l \in Levels, NEW s \in Slots, k \in At(w, l, s)
        PROVE  l = LevelFor(t, d) /\ s = SlotFor(d, l) /\ t <= d
    <2>1. Lies(t, d, l, s) BY <1>1, <1>3 DEF Holds
    <2>2. Home(t, d, l) BY <1>3 DEF Exact
    <2>3. Digits(t, l + 1) = Digits(d, l + 1) /\ (l = 0 \/ Digits(t, l) # Digits(d, l))
      BY <2>1, <2>2 DEF Lies, Home
    <2>4. l = LevelFor(t, d) BY <2>3, <1>2, LevelForIs
    <2>5. QED BY <2>1, <2>4 DEF Lies
  <1>4. PICK l \in Levels, s \in Slots : k \in At(w, l, s) BY <1>1 DEF Holds
  <1>5. l = LevelFor(t, d) /\ s = SlotFor(d, l) /\ t <= d BY <1>3, <1>4
  <1>6. QED BY <1>2, <1>3, <1>4, <1>5

\* remove finds the entry, although the elapsed time is not that of its insertion
\* (wheel/mod.rs 119-132).
LEMMA RemoveExact ==
    ASSUME NEW w, NEW K, NEW D, NEW E, Exact(w, K, D), NEW k \in K,
           \A j \in K \ {k} : E[j] = D[j]
    PROVE  /\ Removable(w, D[k], k)
           /\ Exact(WheelRemove(w, D[k], k), K \ {k}, E)
           /\ WheelRemove(w, D[k], k).elapsed = w.elapsed
  <1> DEFINE t == w.elapsed
             d == D[k]
             l == LevelFor(t, d)
             s == SlotFor(d, l)
             v == WheelRemove(w, d, k)
  <1>1. WheelOK(w) /\ Holds(w, K, D, t) BY DEF Exact
  <1>2. d \in Nat /\ t \in Nat /\ t <= d /\ l \in Levels BY ExactHome
  <1>3. s \in Slots BY <1>2, SlotForFacts
  <1>4. k \in At(w, l, s) BY <1>2, <1>3, ExactHome
  <1>5. Removable(w, d, k)
    <2>1. w.slot[l][s] \in Seq(Nat) BY <1>1, <1>2, <1>3, SlotOK
    <2>2. Contains(w.slot[l][s], k) BY <2>1, <1>4, EmptyFacts DEF At
    <2>3. QED BY <2>2, <1>2 DEF Removable
  <1>6. v = RemoveEntry(w, l, d, k) BY DEF WheelRemove
  <1>7. WheelOK(v) /\ v.elapsed = t /\ At(v, l, s) = At(w, l, s) \ {k} /\ OthersSame(w, v, l, s)
    BY <1>1, <1>2, <1>4, <1>6, RemoveEntryOK
  <1> HIDE DEF v, l, s, t
  <1>8. /\ Holds(v, K \ {k}, E, t)
        /\ Dropped(w, v, k)
    BY <1>1, <1>2, <1>3, <1>4, <1>7, HoldsDrop
  <1>9. ASSUME NEW m \in Levels, NEW r \in Slots, NEW j \in At(v, m, r) PROVE Home(t, E[j], m)
    <2>1. j \in At(w, m, r) /\ j # k BY <1>8 DEF Dropped
    <2>2. j \in K BY <2>1, <1>1 DEF Holds
    <2>3. Home(t, D[j], m) BY <2>1 DEF Exact, t
    <2>4. QED BY <2>1, <2>2, <2>3
  <1>10. Exact(v, K \ {k}, E) BY <1>7, <1>8, <1>9 DEF Exact
  <1>11. QED BY <1>5, <1>7, <1>10 DEF v, t, l

-----------------------------------------------------------------------------
(* poll (wheel/mod.rs 134-238).                                            *)

\* The bit fields are all empty when the wheel holds no key, and only then.
LEMMA EmptyWheel ==
    ASSUME NEW w, NEW K, NEW D, NEW t, WheelOK(w), Holds(w, K, D, t)
    PROVE  Occupied(w) = {} <=> K = {}
  <1>1. ASSUME Occupied(w) = {}, NEW k \in K PROVE FALSE
    <2>1. PICK l \in Levels, s \in Slots : k \in At(w, l, s) BY DEF Holds
    <2>2. w.occupied[l] # {} BY <2>1, EmptyBelowFacts
    <2>3. QED BY <2>2, <1>1 DEF Occupied
  <1>2. ASSUME K = {}, NEW l \in Occupied(w) PROVE FALSE
    <2>1. l \in Levels /\ w.occupied[l] # {} BY DEF Occupied
    <2>2. PICK s \in Slots : At(w, l, s) # {} BY <2>1, EmptyBelowFacts
    <2>3. QED BY <2>1, <2>2, <1>2 DEF Holds
  <1>3. QED BY <1>1, <1>2

\* poll_at is no later than any deadline (wheel/mod.rs 134-137).
LEMMA PollAtFacts ==
    ASSUME NEW w, NEW K, NEW D, Settling(w, K, D)
    PROVE  IF K = {} THEN PollAt(w) = None
           ELSE /\ PollAt(w) \in Nat
                /\ w.elapsed <= PollAt(w)
                /\ \A k \in K : PollAt(w) <= D[k]
  <1>1. WheelOK(w) /\ Holds(w, K, D, w.elapsed) BY DEF Settling
  <1>2. w.elapsed \in Nat BY <1>1 DEF WheelOK, Wheels
  <1>3. Occupied(w) = {} <=> K = {} BY <1>1, EmptyWheel
  <1>4. CASE Occupied(w) = {} BY <1>3, <1>4 DEF PollAt
  <1>5. CASE Occupied(w) # {}
    <2>1. PICK e : e = NextExpiration(w) /\ First(w, D, e) BY <1>5, FirstExpiration
    <2>2. PollAt(w) = e.deadline BY <2>1, <1>5 DEF PollAt
    <2>3. \A k \in K : e.deadline <= D[k] BY <1>1, <1>2, <2>1, FirstIsLeast
    <2>4. e.deadline \in Nat /\ w.elapsed <= e.deadline BY <2>1 DEF First
    <2>5. QED BY <1>3, <1>5, <2>2, <2>3, <2>4
  <1>6. QED BY <1>4, <1>5

\* Time goes on, to before all deadlines: every slot still suits its entries.
LEMMA HoldsMove ==
    ASSUME NEW w, NEW v, NEW K, NEW D, NEW t \in Nat, NEW u \in Nat, Holds(w, K, D, t), t <= u,
           \A k \in K : u <= D[k], v.slot = w.slot
    PROVE  Holds(v, K, D, u)
  <1>1. \A l \in Levels, s \in Slots : At(v, l, s) = At(w, l, s) BY DEF At
  <1>2. ASSUME NEW l \in Levels, NEW s \in Slots, NEW k \in At(v, l, s)
        PROVE  k \in K /\ Lies(u, D[k], l, s)
    <2>1. k \in K /\ D[k] \in Nat /\ Lies(t, D[k], l, s) BY <1>1 DEF Holds
    <2>2. PICK d \in Nat : d = D[k] BY <2>1
    <2>3. u <= d /\ s = SlotFor(d, l) /\ Digits(d, l + 1) = Digits(t, l + 1)
      BY <2>1, <2>2 DEF Lies
    <2>4. l + 1 \in 0..NumLevels BY WheelAssumption DEF Levels
    <2>5. Digits(t, l + 1) <= Digits(u, l + 1) /\ Digits(u, l + 1) <= Digits(d, l + 1)
      BY <2>3, <2>4, DigitsMono
    <2>6. Digits(t, l + 1) \in Nat /\ Digits(u, l + 1) \in Nat BY <2>4, DigitsType
    <2>7. Digits(d, l + 1) = Digits(u, l + 1) BY <2>3, <2>5, <2>6
    <2>8. QED BY <2>1, <2>2, <2>3, <2>7 DEF Lies
  <1>3. QED BY <1>1, <1>2 DEF Holds

\* The wheel would give out key k, which is the first of the keys K.
Soonest(w, K, D, k) ==
    /\ k \in K
    /\ D[k] = NextExpiration(w).deadline
    /\ \A j \in K : D[k] <= D[j]

\* An expiration on level 0 gives out an entry that is first, and leaves the
\* others where they belong (wheel/mod.rs 205-225).
LEMMA PopExact ==
    ASSUME NEW w, NEW K, NEW D, NEW E, Settling(w, K, D), Occupied(w) # {},
           NextExpiration(w).level = 0, NEW k, k = Head(w.slot[0][NextExpiration(w).slot]),
           \A j \in K \ {k} : E[j] = D[j]
    PROVE  /\ Soonest(w, K, D, k)
           /\ Exact(PopEntry(w, NextExpiration(w)), K \ {k}, E)
           /\ PopEntry(w, NextExpiration(w)).elapsed = w.elapsed
  <1>1. PICK e : e = NextExpiration(w) /\ First(w, D, e) BY FirstExpiration
  <1> DEFINE t == w.elapsed
             s == e.slot
             v == PopEntry(w, e)
  <1>2. WheelOK(w) /\ Holds(w, K, D, t) BY DEF Settling
  <1>3. t \in Nat BY <1>2 DEF WheelOK, Wheels
  <1>4. e.level = 0 /\ 0 \in Levels /\ s \in Slots /\ w.slot[0][s] # <<>> /\ k = Head(w.slot[0][s])
    BY <1>1 DEF First
  <1>5. /\ WheelOK(v)
        /\ v.elapsed = t
        /\ k \in At(w, 0, s)
        /\ At(v, 0, s) = At(w, 0, s) \ {k}
        /\ OthersSame(w, v, 0, s)
    <2>1. /\ WheelOK(v)
          /\ v.elapsed = t
          /\ Head(w.slot[e.level][e.slot]) \in At(w, e.level, e.slot)
          /\ At(v, e.level, e.slot) = At(w, e.level, e.slot) \ {Head(w.slot[e.level][e.slot])}
          /\ OthersSame(w, v, e.level, e.slot)
      BY <1>1, <1>2, PopEntryOK DEF First
    <2>2. QED BY <1>4, <2>1
  <1>6. D[k] = e.deadline
    <2>1. D[k] \in Nat /\ e.deadline \in Nat BY <1>1, <1>2, <1>4, <1>5 DEF Holds, First
    <2>2. Digits(D[k], 0) = Digits(e.deadline, 0) BY <1>1, <1>4, <1>5 DEF First
    <2>3. PICK d \in Nat : d = D[k] BY <2>1
    <2>4. QED BY <2>1, <2>2, <2>3, DigitsZero
  <1>7. \A j \in K : D[k] <= D[j] BY <1>1, <1>2, <1>3, <1>6, FirstIsLeast
  <1> HIDE DEF t, s, v
  <1>8. /\ Holds(v, K \ {k}, E, t)
        /\ Dropped(w, v, k)
    BY <1>2, <1>4, <1>5, HoldsDrop
  <1>9. ASSUME NEW m \in Levels, NEW r \in Slots, NEW j \in At(v, m, r) PROVE Home(t, E[j], m)
    <2>1. j \in At(w, m, r) /\ j # k BY <1>8 DEF Dropped
    <2>2. j \in K BY <2>1, <1>2 DEF Holds
    <2>3. Home(t, D[j], m)
      <3>1. CASE m = 0 BY <3>1 DEF Home
      <3>2. CASE m # 0
        <4>1. 0 < m BY <3>2 DEF Levels
        <4>2. ~EmptyBelow(w, m) BY <4>1, <1>4, <1>5 DEF EmptyBelow
        <4>3. QED BY <4>2, <2>1 DEF Settling, t
      <3>3. QED BY <3>1, <3>2
    <2>4. QED BY <2>1, <2>2, <2>3
  <1>10. Exact(v, K \ {k}, E) BY <1>5, <1>8, <1>9 DEF Exact
  <1>11. k \in K BY <1>2, <1>4, <1>5 DEF Holds
  <1>12. QED BY <1>1, <1>5, <1>6, <1>7, <1>10, <1>11 DEF v, t, Soonest

\* In poll_expiration: e is being emptied, onto the level below.
Cascading(w, K, D, e) ==
    /\ WheelOK(w)
    /\ e.level \in Levels /\ e.level > 0
    /\ e.slot \in Slots
    /\ e.deadline \in Nat
    /\ w.elapsed <= e.deadline
    /\ Aligned(e.deadline, e.level)
    /\ Holds(w, K, D, e.deadline)
    /\ \A m \in Levels, s \in Slots : m + 1 < e.level => At(w, m, s) = {}
    /\ \A k \in At(w, e.level, e.slot) : Digits(D[k], e.level) = Digits(e.deadline, e.level)
    /\ \A l \in Levels, s \in Slots : \A k \in At(w, l, s) :
          l + 1 = e.level \/ (l = e.level /\ s = e.slot) \/ Home(e.deadline, D[k], l)

\* The expiration of a slot above level 0 can be cascaded.
LEMMA StartCascade ==
    ASSUME NEW w, NEW K, NEW D, Settling(w, K, D), Occupied(w) # {}, NextExpiration(w).level > 0
    PROVE  Cascading(w, K, D, NextExpiration(w))
  <1>1. PICK e : e = NextExpiration(w) /\ First(w, D, e) BY FirstExpiration
  <1>2. WheelOK(w) /\ Holds(w, K, D, w.elapsed) BY DEF Settling
  <1>3. w.elapsed \in Nat BY <1>2 DEF WheelOK, Wheels
  <1>4. e.level \in Levels /\ e.level > 0 /\ e.slot \in Slots /\ e.deadline \in Nat /\ w.elapsed <= e.deadline
        /\ Aligned(e.deadline, e.level)
    BY <1>1 DEF First
  <1>5. \A k \in K : e.deadline <= D[k] BY <1>1, <1>2, <1>3, FirstIsLeast
  <1>6. Holds(w, K, D, e.deadline) BY <1>2, <1>3, <1>4, <1>5, HoldsMove
  <1>7. \A k \in At(w, e.level, e.slot) : Digits(D[k], e.level) = Digits(e.deadline, e.level)
    BY <1>1 DEF First
  <1>8. \A m \in Levels, s \in Slots : m + 1 < e.level => At(w, m, s) = {}
    <2>1. \A m \in Levels : m + 1 < e.level => m < e.level BY <1>4 DEF Levels
    <2>2. QED BY <2>1, <1>1 DEF First, EmptyBelow
  <1>9. ASSUME NEW l \in Levels, NEW s \in Slots, NEW k \in At(w, l, s), ~(l = e.level /\ s = e.slot)
        PROVE  Home(e.deadline, D[k], l)
    <2>1. Digits(e.deadline, l) < Digits(D[k], l) BY <1>1, <1>9 DEF First
    <2>2. l \in 0..NumLevels BY WheelAssumption DEF Levels
    <2>3. D[k] \in Nat BY <1>2, <1>9 DEF Holds
    <2>4. Digits(e.deadline, l) \in Nat /\ Digits(D[k], l) \in Nat
      BY <2>2, <2>3, <1>4, DigitsType
    <2>5. QED BY <2>1, <2>4 DEF Home
  <1>10. QED BY <1>1, <1>2, <1>4, <1>6, <1>7, <1>8, <1>9 DEF Cascading

\* Wheel v is w after one more entry was moved down.
Cascaded(w, K, D, e, v) == Cascading(v, K, D, e) /\ v.elapsed = w.elapsed

\* One entry is moved down a level; the time of the wheel still is the old one
\* (wheel/mod.rs 205-225).
LEMMA CascadeStep ==
    ASSUME NEW w, NEW K, NEW D, NEW e, Cascading(w, K, D, e), K \subseteq Nat, w.slot[e.level][e.slot] # <<>>
    PROVE  Cascaded(w, K, D, e, Cascade(w, e, D[Head(w.slot[e.level][e.slot])]))
  <1> DEFINE k == Head(w.slot[e.level][e.slot])
             L == e.level
             u == e.deadline
             p == PopEntry(w, e)
             s == SlotFor(D[k], L - 1)
             v == Cascade(w, e, D[k])
  <1>1. WheelOK(w) /\ L \in Levels /\ L > 0 /\ e.slot \in Slots /\ u \in Nat /\ Holds(w, K, D, u)
    BY DEF Cascading
  <1>2. /\ WheelOK(p)
        /\ p.elapsed = w.elapsed
        /\ k \in At(w, L, e.slot)
        /\ At(p, L, e.slot) = At(w, L, e.slot) \ {k}
        /\ OthersSame(w, p, L, e.slot)
    BY <1>1, PopEntryOK
  <1>3. L - 1 \in Levels /\ (L - 1) + 1 = L /\ L - 1 # L /\ L - 1 \in Nat
    <2>1. PICK n \in Levels : n = L /\ n > 0 BY <1>1
    <2> HIDE DEF L
    <2>2. n - 1 \in Levels /\ (n - 1) + 1 = n /\ n - 1 # n /\ n - 1 \in Nat
      BY <2>1, WheelAssumption DEF Levels
    <2>3. QED BY <2>1, <2>2
  <1>4. k \in K /\ D[k] \in Nat /\ u <= D[k] /\ Digits(D[k], L) = Digits(u, L)
    <2>1. k \in K /\ D[k] \in Nat /\ Lies(u, D[k], L, e.slot) BY <1>1, <1>2 DEF Holds
    <2>2. QED BY <2>1, <1>2 DEF Lies, Cascading
  <1>5. s \in Slots BY <1>3, <1>4, SlotForFacts
  <1>6. v = AddEntry(p, L - 1, D[k], k) BY DEF Cascade, NextLevel
  <1> HIDE DEF p, v, k, L, u, s
  <1>7. /\ Holds(p, K \ {k}, D, u)
        /\ Dropped(w, p, k)
    BY <1>1, <1>2, HoldsDrop
  <1>8. k \in Nat /\ k \notin At(p, L - 1, s) BY <1>3, <1>4, <1>5, <1>7 DEF Dropped
  <1>9. /\ WheelOK(v)
        /\ v.elapsed = p.elapsed
        /\ At(v, L - 1, s) = At(p, L - 1, s) \cup {k}
        /\ OthersSame(p, v, L - 1, s)
    BY <1>2, <1>3, <1>4, <1>6, <1>8, AddEntryOK DEF s
  <1>10. Lies(u, D[k], L - 1, s) BY <1>3, <1>4 DEF Lies, s
  <1>11. /\ Holds(v, (K \ {k}) \cup {k}, D, u)
         /\ Added(p, v, k, L - 1, s)
    <2>1. k \notin K \ {k} /\ \A j \in K \ {k} : D[j] = D[j] OBVIOUS
    <2>2. L - 1 \in Levels /\ s \in Slots BY <1>3, <1>5
    <2>3. Holds(p, K \ {k}, D, u) BY <1>7
    <2>4. OthersSame(p, v, L - 1, s) /\ At(v, L - 1, s) = At(p, L - 1, s) \cup {k} BY <1>9
    <2>5. D[k] \in Nat BY <1>4
    <2>6. QED BY <2>1, <2>2, <2>3, <2>4, <2>5, <1>10, HoldsAdd
  <1>12. Holds(v, K, D, u)
    <2>1. (K \ {k}) \cup {k} = K BY <1>4
    <2>2. QED BY <2>1, <1>11
  <1>13. ASSUME NEW m \in Levels, NEW r \in Slots, NEW j \in At(v, m, r), ~(m = L - 1 /\ r = s /\ j = k)
         PROVE  j \in At(w, m, r)
    <2>1. j # k BY <1>11, <1>13 DEF Added
    <2>2. QED BY <2>1, <1>7, <1>11, <1>13 DEF Added, Dropped
  <1>14. \A m \in Levels, r \in Slots : m + 1 < L => At(v, m, r) = {}
    <2>1. SUFFICES ASSUME NEW m \in Levels, NEW r \in Slots, m + 1 < L, NEW j \in At(v, m, r) PROVE FALSE
      OBVIOUS
    <2>2. m # L - 1 BY <2>1, <1>3
    <2>3. j \in At(w, m, r) BY <2>2, <1>13
    <2>4. QED BY <2>1, <2>3 DEF Cascading, L
  <1>15. \A j \in At(v, L, e.slot) : Digits(D[j], L) = Digits(u, L)
    <2>1. ASSUME NEW j \in At(v, L, e.slot) PROVE j \in At(w, L, e.slot) BY <1>1, <1>3, <1>13
    <2>2. QED BY <2>1 DEF Cascading, L, u
  <1>16. ASSUME NEW m \in Levels, NEW r \in Slots, NEW j \in At(v, m, r)
         PROVE  m + 1 = L \/ (m = L /\ r = e.slot) \/ Home(u, D[j], m)
    <2>1. CASE m = L - 1 BY <2>1, <1>3
    <2>2. CASE m # L - 1
      <3>1. j \in At(w, m, r) BY <2>2, <1>13
      <3>2. QED BY <3>1 DEF Cascading, L, u
    <2>3. QED BY <2>1, <2>2
  <1>17. w.elapsed <= u /\ Aligned(u, L) BY DEF Cascading, u, L
  <1>18. Cascading(v, K, D, e)
    BY <1>1, <1>2, <1>9, <1>12, <1>14, <1>15, <1>16, <1>17 DEF Cascading, L, u
  <1>19. QED BY <1>2, <1>9, <1>18 DEF Cascaded, v, k

\* A time that starts a slot of a level starts one of each level below.
LEMMA AlignedDown ==
    ASSUME NEW t \in Nat, NEW l \in Levels, Aligned(t, l + 1)
    PROVE  Aligned(t, l)
  <1> DEFINE q == Digits(t, l + 1)
             b == SlotRange[l]
  <1>1. l \in 0..NumLevels /\ l + 1 \in 1..NumLevels /\ l + 1 \in 0..NumLevels /\ (l + 1) - 1 = l
    BY WheelAssumption DEF Levels
  <1>2. q \in Nat /\ b \in Nat /\ Radix \in Nat
    BY <1>1, DigitsType, SlotRangeType, WheelAssumption
  <1>3. SlotRange[l + 1] = Radix * b BY <1>1, SlotRangeDef
  <1>4. t = (Radix * b) * q BY <1>3 DEF Aligned
  <1> HIDE DEF q
  <1>5. t = b * (Radix * q) BY <1>2, <1>4
  <1>6. Radix * q \in Nat BY <1>2
  <1>7. Digits(t, l) = Radix * q BY <1>1, <1>5, <1>6, SlotStart
  <1>8. QED BY <1>5, <1>7 DEF Aligned

\* The slot is empty: the elapsed time is set to its start, and the loop of
\* Wheel::poll goes on (wheel/mod.rs 150-157).
LEMMA EndCascade ==
    ASSUME NEW w, NEW K, NEW D, NEW e, Cascading(w, K, D, e), w.slot[e.level][e.slot] = <<>>
    PROVE  /\ Settling(SetElapsed(w, e.deadline), K, D)
           /\ SetElapsed(w, e.deadline).elapsed = e.deadline
  <1> DEFINE u == e.deadline
             L == e.level
             v == SetElapsed(w, u)
  <1>1. WheelOK(w) /\ w.elapsed <= u /\ u \in Nat /\ L \in Levels /\ e.slot \in Slots /\ Holds(w, K, D, u)
    BY DEF Cascading
  <1>2. WheelOK(v) /\ v.elapsed = u /\ v.slot = w.slot BY <1>1, SetElapsedOK
  <1> HIDE DEF v
  <1>3. \A l \in Levels, s \in Slots : At(v, l, s) = At(w, l, s) BY <1>2 DEF At
  <1>4. Holds(v, K, D, u) BY <1>1, <1>3 DEF Holds
  <1>5. ASSUME NEW l \in Levels, NEW s \in Slots, NEW k \in At(v, l, s)
        PROVE  Home(u, D[k], l) \/ (Aligned(u, l) /\ EmptyBelow(v, l))
    <2>1. k \in At(w, l, s) BY <1>3
    <2>2. ~(l = L /\ s = e.slot)
      <3>1. At(w, L, e.slot) = {} BY <1>1, SlotOK
      <3>2. QED BY <2>1, <3>1
    <2>3. CASE Home(u, D[k], l) BY <2>3
    <2>4. CASE l + 1 = L
      <3>1. Aligned(u, L) BY DEF Cascading
      <3>2. Aligned(u, l) BY <3>1, <2>4, <1>1, AlignedDown
      <3>3. ASSUME NEW m \in Levels, NEW r \in Slots, m < l PROVE At(v, m, r) = {}
        <4>1. m + 1 < L BY <3>3, <2>4 DEF Levels
        <4>2. At(w, m, r) = {} BY <4>1 DEF Cascading
        <4>3. QED BY <4>2, <1>3
      <3>4. QED BY <3>2, <3>3 DEF EmptyBelow
    <2>5. QED BY <2>1, <2>2, <2>3, <2>4 DEF Cascading
  <1>6. Settling(v, K, D) BY <1>2, <1>4, <1>5 DEF Settling
  <1>7. QED BY <1>2, <1>6 DEF v

\* The first deadline has not come: the time of the wheel goes on and nothing has
\* to move (wheel/mod.rs 142-148).
LEMMA Advance ==
    ASSUME NEW w, NEW K, NEW D, Settling(w, K, D), NEW u \in Nat, w.elapsed <= u, ~Expires(w, u)
    PROVE  /\ Exact(SetElapsed(w, u), K, D)
           /\ SetElapsed(w, u).elapsed = u
  <1> DEFINE v == SetElapsed(w, u)
             t == w.elapsed
  <1>1. WheelOK(w) /\ Holds(w, K, D, t) BY DEF Settling
  <1>2. t \in Nat BY <1>1 DEF WheelOK, Wheels
  <1>3. WheelOK(v) /\ v.elapsed = u /\ v.slot = w.slot BY <1>1, SetElapsedOK
  <1> HIDE DEF v
  <1>4. \A l \in Levels, s \in Slots : At(v, l, s) = At(w, l, s) BY <1>3 DEF At
  <1>5. ASSUME Occupied(w) # {} PROVE Exact(v, K, D)
    <2>1. PICK e : e = NextExpiration(w) /\ First(w, D, e) BY <1>5, FirstExpiration
    <2>2. e.deadline \in Nat /\ u < e.deadline /\ e.level \in Levels /\ e.slot \in Slots /\ Aligned(e.deadline, e.level)
      <3>1. e.deadline \in Nat /\ ~(e.deadline <= u) BY <2>1, <1>5 DEF First, Expires
      <3>2. QED BY <3>1, <2>1 DEF First
    <2>3. ASSUME NEW k \in K PROVE u <= D[k]
      <3>1. e.deadline <= D[k] BY <1>1, <1>2, <2>1, FirstIsLeast
      <3>2. D[k] \in Nat BY <1>1 DEF Holds
      <3>3. QED BY <3>1, <3>2, <2>2
    <2>4. Holds(v, K, D, u) BY <1>1, <1>2, <1>3, <2>3, HoldsMove
    <2>5. ASSUME NEW l \in Levels, NEW s \in Slots, NEW k \in At(v, l, s) PROVE Home(u, D[k], l)
      <3>1. k \in At(w, l, s) /\ D[k] \in Nat BY <1>4, <2>4 DEF Holds
      <3>2. l \in 0..NumLevels /\ e.level \in 0..NumLevels BY <2>2, WheelAssumption DEF Levels
      <3>3. /\ Digits(u, l) \in Nat /\ Digits(e.deadline, l) \in Nat /\ Digits(D[k], l) \in Nat
            /\ Digits(u, l) <= Digits(e.deadline, l)
        BY <3>1, <3>2, <2>2, DigitsType, DigitsMono
      <3>4. CASE ~(l = e.level /\ s = e.slot)
        <4>1. Digits(e.deadline, l) < Digits(D[k], l) BY <3>1, <3>4, <2>1 DEF First
        <4>2. QED BY <4>1, <3>3 DEF Home
      <3>5. CASE l = e.level /\ s = e.slot
        <4>1. Digits(D[k], l) = Digits(e.deadline, l) BY <3>1, <3>5, <2>1 DEF First
        <4>2. ~(Digits(u, l) = Digits(e.deadline, l))
          <5>1. SUFFICES ASSUME Digits(u, l) = Digits(e.deadline, l) PROVE FALSE OBVIOUS
          <5>2. e.deadline = SlotRange[l] * Digits(u, l) BY <5>1, <3>5, <2>2 DEF Aligned
          <5>3. e.deadline <= u BY <5>2, <3>2, SlotStartBelow
          <5>4. QED BY <5>3, <2>2
        <4>3. QED BY <4>1, <4>2 DEF Home
      <3>6. QED BY <3>4, <3>5
    <2>6. QED BY <1>3, <2>4, <2>5 DEF Exact
  <1>6. ASSUME Occupied(w) = {} PROVE Exact(v, K, D)
    <2>1. K = {} BY <1>1, <1>6, EmptyWheel
    <2>2. Holds(v, K, D, u) BY <1>1, <1>2, <1>3, <2>1, HoldsMove
    <2>3. \A l \in Levels, s \in Slots : At(v, l, s) = {} BY <2>1, <2>2 DEF Holds
    <2>4. QED BY <1>3, <2>2, <2>3 DEF Exact
  <1>7. QED BY <1>3, <1>5, <1>6 DEF v

\* A new wheel holds nothing.
LEMMA NewExact ==
    ASSUME NEW D
    PROVE  Exact(NewWheel, {}, D)
  <1>1. PICK v : v = NewWheel OBVIOUS
  <1>2. WheelOK(v) /\ \A l \in Levels, s \in Slots : At(v, l, s) = {} BY <1>1, NewWheelOK
  <1>3. QED BY <1>1, <1>2 DEF Exact, Holds
=============================================================================
