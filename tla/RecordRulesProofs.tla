-------------------------- MODULE RecordRulesProofs --------------------------
(***************************************************************************)
(* What validation and rounding leave of a record, for every radix, every  *)
(* width of the columns and every request.                                 *)
(***************************************************************************)
EXTENDS RecordRules, FiniteSetTheorems, TLAPS

-----------------------------------------------------------------------------
(***************************************************************************)
(* Arithmetic.                                                             *)
(***************************************************************************)

\* Multiplication is monotone.
LEMMA TimesMonotone ==
    ASSUME NEW a \in Int, NEW b \in Int, NEW n \in Nat, a <= b
    PROVE  n * a <= n * b
  OBVIOUS

\* Quotient and remainder.
LEMMA QuotientBounds ==
    ASSUME NEW a \in Int, NEW n \in Nat \ {0}
    PROVE  /\ a \div n \in Int
           /\ n * (a \div n) \in Int
           /\ n * (a \div n) <= a
           /\ a < n * (a \div n) + n
  OBVIOUS

\* A quotient is what its bounds say.
LEMMA QuotientIs ==
    ASSUME NEW a \in Int, NEW n \in Nat \ {0}, NEW k \in Int,
           n * k <= a, a < n * k + n
    PROVE  a \div n = k
<1> DEFINE j == a \div n
<1>1. j \in Int /\ n * j \in Int /\ n * k \in Int
      /\ n * j <= a /\ a < n * j + n
  BY QuotientBounds
<1> HIDE DEF j
<1>2. ~(j + 1 <= k)
  <2> SUFFICES ASSUME j + 1 <= k PROVE FALSE
    OBVIOUS
  <2>1. n * (j + 1) <= n * k
    BY <1>1, TimesMonotone
  <2>2. n * (j + 1) = n * j + n
    BY <1>1
  <2>. QED  BY <1>1, <2>1, <2>2
<1>3. ~(k + 1 <= j)
  <2> SUFFICES ASSUME k + 1 <= j PROVE FALSE
    OBVIOUS
  <2>1. n * (k + 1) <= n * j
    BY <1>1, TimesMonotone
  <2>2. n * (k + 1) = n * k + n
    BY <1>1
  <2>. QED  BY <1>1, <2>1, <2>2
<1>4. j = k
  BY <1>1, <1>2, <1>3
<1>. QED  BY <1>4 DEF j

\* Division is monotone.
LEMMA QuotientMonotone ==
    ASSUME NEW a \in Int, NEW b \in Int, NEW n \in Nat \ {0}, a <= b
    PROVE  a \div n <= b \div n
<1> DEFINE j == a \div n
           k == b \div n
<1>1. /\ j \in Int /\ n * j \in Int /\ n * j <= a
      /\ k \in Int /\ n * k \in Int /\ b < n * k + n
  BY QuotientBounds
<1> HIDE DEF j, k
<1>2. ~(k + 1 <= j)
  <2> SUFFICES ASSUME k + 1 <= j PROVE FALSE
    OBVIOUS
  <2>1. n * (k + 1) <= n * j
    BY <1>1, TimesMonotone
  <2>2. n * (k + 1) = n * k + n
    BY <1>1
  <2>. QED  BY <1>1, <2>1, <2>2
<1>3. j <= k
  BY <1>1, <1>2
<1>. QED  BY <1>3 DEF j, k

\* A multiple has no remainder.
LEMMA MultipleIsExact ==
    ASSUME NEW k \in Int, NEW n \in Nat \ {0}
    PROVE  /\ (n * k) \div n = k
           /\ (n * k) % n = 0
<1>1. n * k \in Int
  OBVIOUS
<1>2. (n * k) \div n = k
  BY <1>1, QuotientIs
<1>3. (n * k) % n = 0
  BY Z3T(30)
<1>. QED  BY <1>1, <1>2, <1>3

-----------------------------------------------------------------------------
(***************************************************************************)
(* Instants.                                                               *)
(***************************************************************************)

\* The radices are positive.
LEMMA Radices ==
    /\ NanosPerMicro \in Nat \ {0}
    /\ MicrosPerSecond \in Nat \ {0}
    /\ UnitsPerStep \in Nat \ {0}
    /\ MaxSteps \in Nat \ {0}
    /\ NanosPerSecond \in Nat \ {0}
    /\ NanosPerSecond = NanosPerMicro * MicrosPerSecond
<1>1. /\ NanosPerMicro \in Nat \ {0}
      /\ MicrosPerSecond \in Nat \ {0}
      /\ UnitsPerStep \in Nat \ {0}
      /\ MaxSteps \in Nat \ {0}
  BY RecordAssumption
<1>2. ASSUME NEW a \in Nat \ {0}, NEW b \in Nat \ {0} PROVE a * b \in Nat \ {0}
  OBVIOUS
<1>. QED  BY <1>1, <1>2 DEF NanosPerSecond

\* Half of a radix, rounded down.
LEMMA HalfBounds ==
    ASSUME NEW n \in Nat \ {0}
    PROVE  /\ n \div 2 \in Nat
           /\ 2 * (n \div 2) <= n
           /\ n <= 2 * (n \div 2) + 1
           /\ n \div 2 < n
  OBVIOUS

\* The column keeps an instant to the nearest microsecond, and the reply its
\* second.
LEMMA InstantKept ==
    ASSUME NEW x \in Int
    PROVE  /\ Timestamptz(x) \in Int
           /\ SameSecond(x, ParseTimestamp(Timestamptz(x)))
<1> DEFINE n == NanosPerMicro
           m == MicrosPerSecond
           h == NanosPerMicro \div 2
           u == Timestamptz(x)
           s == u \div m
<1>1. n \in Nat \ {0} /\ m \in Nat \ {0} /\ NanosPerSecond = n * m
      /\ NanosPerSecond \in Nat \ {0}
  BY Radices
<1>2. h \in Nat /\ 2 * h <= n /\ x + h \in Int
  BY <1>1, HalfBounds
<1>3. /\ u \in Int /\ n * u \in Int
      /\ n * u <= x + h /\ x + h < n * u + n
  BY <1>1, <1>2, QuotientBounds DEF Timestamptz
<1> HIDE DEF u
<1>4. /\ s \in Int /\ m * s \in Int
      /\ m * s <= u /\ u + 1 <= m * s + m
  BY <1>1, <1>3, QuotientBounds
<1>5. ParseTimestamp(u) = s * NanosPerSecond
  BY DEF ParseTimestamp
<1> HIDE DEF s, n, m, h
<1>6. n * (m * s) <= n * u /\ n * (u + 1) <= n * (m * s + m)
  BY <1>1, <1>3, <1>4, TimesMonotone
<1> DEFINE y == n * (m * s)
<1>7. /\ n * (u + 1) = n * u + n
      /\ n * (m * s + m) = y + n * m
      /\ s * NanosPerSecond = y
      /\ y = NanosPerSecond * s
      /\ y \in Int
  BY <1>1, <1>3, <1>4
<1> HIDE DEF y
<1>8. y % NanosPerSecond = 0
  BY <1>1, <1>4, <1>7, MultipleIsExact
<1>9. x - y < NanosPerSecond /\ 2 * (y - x) <= n
  BY <1>1, <1>2, <1>3, <1>6, <1>7 DEF y
<1>. QED  BY <1>3, <1>5, <1>7, <1>8, <1>9 DEF SameSecond, u, n

\* Instants in order by the second are in order in the column.
LEMMA InstantOrdered ==
    ASSUME NEW x \in Int, NEW y \in Int, Seconds(y) > Seconds(x)
    PROVE  Timestamptz(y) >= Timestamptz(x)
<1>1. Seconds(x) \in Int /\ Seconds(y) \in Int
  BY Radices, QuotientBounds DEF Seconds
<1>2. ~(y <= x)
  BY <1>1, Radices, QuotientMonotone DEF Seconds
<1>3. /\ x + NanosPerMicro \div 2 \in Int /\ y + NanosPerMicro \div 2 \in Int
      /\ x + NanosPerMicro \div 2 <= y + NanosPerMicro \div 2
  BY <1>2, Radices, HalfBounds
<1>4. Timestamptz(x) <= Timestamptz(y)
  BY <1>3, Radices, QuotientMonotone DEF Timestamptz
<1>5. Timestamptz(x) \in Int /\ Timestamptz(y) \in Int
  BY InstantKept
<1>. QED  BY <1>4, <1>5

\* A time that was read comes back as it is when it is written and read
\* again.
LEMMA InstantStable ==
    ASSUME NEW us \in Int
    PROVE  LET t == ParseTimestamp(us)
           IN  /\ t \in Int
               /\ ParseTimestamp(Timestamptz(t)) = t
               /\ Seconds(t) = us \div MicrosPerSecond
<1> DEFINE n == NanosPerMicro
           m == MicrosPerSecond
           h == NanosPerMicro \div 2
           s == us \div m
           t == ParseTimestamp(us)
<1>1. n \in Nat \ {0} /\ m \in Nat \ {0} /\ NanosPerSecond = n * m
      /\ NanosPerSecond \in Nat \ {0}
  BY Radices
<1>2. h \in Nat /\ h < n
  BY <1>1, HalfBounds
<1>3. s \in Int
  BY <1>1, QuotientBounds
<1>4. t = s * NanosPerSecond
  BY DEF ParseTimestamp
<1> HIDE DEF s, n, m, h, t
<1>5. t \in Int /\ t = NanosPerSecond * s /\ t = n * (m * s) /\ m * s \in Int
  BY <1>1, <1>3, <1>4
<1>6. Seconds(t) = s
  BY <1>1, <1>3, <1>5, MultipleIsExact DEF Seconds
<1>7. Timestamptz(t) = m * s
  <2>1. t + h \in Int /\ n * (m * s) <= t + h /\ t + h < n * (m * s) + n
    BY <1>1, <1>2, <1>5
  <2>2. (t + h) \div n = m * s
    BY <1>1, <1>5, <2>1, QuotientIs
  <2>. QED  BY <2>2 DEF Timestamptz, n, h
<1>8. (m * s) \div m = s
  BY <1>1, <1>3, MultipleIsExact
<1>9. ParseTimestamp(Timestamptz(t)) = t
  BY <1>4, <1>7, <1>8 DEF ParseTimestamp, m
<1>. QED  BY <1>5, <1>6, <1>9 DEF s, t, m

\* Times in order are in order when they are read, and by the second unless
\* they are read as the same time.
LEMMA ReadOrdered ==
    ASSUME NEW a \in Int, NEW b \in Int, a <= b,
           ParseTimestamp(a) # ParseTimestamp(b)
    PROVE  Seconds(ParseTimestamp(b)) > Seconds(ParseTimestamp(a))
<1>1. a \div MicrosPerSecond \in Int /\ b \div MicrosPerSecond \in Int
  BY Radices, QuotientBounds
<1>2. a \div MicrosPerSecond <= b \div MicrosPerSecond
  BY Radices, QuotientMonotone
<1>3. a \div MicrosPerSecond # b \div MicrosPerSecond
  BY DEF ParseTimestamp
<1>. QED  BY <1>1, <1>2, <1>3, InstantStable

-----------------------------------------------------------------------------
(***************************************************************************)
(* Decimal numbers and dates.                                              *)
(***************************************************************************)

\* What a DECIMAL column holds.
Steps == (-MaxSteps .. MaxSteps) \cup {NaN}

\* Rounding is to the nearest step and makes no NaN of a number.
LEMMA DecimalNear ==
    ASSUME NEW x \in Doubles
    PROVE  /\ Decimal(x) \in Int
           /\ Decimal(x) = NaN <=> x = NaN
           /\ InRange(Decimal(x)) =>
                Decimal(x) \in Steps /\ Near(x, Double(Decimal(x)))
           /\ x # NaN /\ x >= 0 => Decimal(x) >= 0
           /\ x < 0 => Decimal(x) <= 0
<1> DEFINE n == UnitsPerStep
           h == UnitsPerStep \div 2
<1>0. InRange(Decimal(x)) => Decimal(x) \in Steps
  BY DEF InRange, Steps
<1>1. n \in Nat \ {0} /\ NaN \in Int /\ x \in Int /\ x <= NaN
  BY Radices, RecordAssumption DEF Doubles
<1>2. NaN > n
  <2>1. n * 1 <= n * (MaxSteps + 2)
    BY <1>1, Radices, TimesMonotone
  <2>. QED  BY <1>1, <2>1, Radices, RecordAssumption
<1>3. h \in Nat /\ 2 * h <= n /\ n <= 2 * h + 1 /\ h < n
  BY <1>1, HalfBounds
<1>4. ASSUME NEW a \in Nat
      PROVE  LET d == (a + h) \div n
             IN  /\ d \in Nat
                 /\ n * d \in Int
                 /\ 2 * (a - n * d) \in -n .. n
                 /\ a < NaN => d < NaN
  <2> DEFINE d == (a + h) \div n
  <2>1. /\ d \in Int /\ n * d \in Int
        /\ n * d <= a + h /\ a + h < n * d + n
    BY <1>1, <1>3, QuotientBounds
  <2> HIDE DEF d
  <2>2. ~(d + 1 <= 0)
    <3> SUFFICES ASSUME d + 1 <= 0 PROVE FALSE
      OBVIOUS
    <3>1. n * (d + 1) <= n * 0 /\ n * (d + 1) = n * d + n /\ n * 0 = 0
      BY <1>1, <2>1, TimesMonotone
    <3>. QED  BY <1>1, <1>3, <2>1, <3>1
  <2>3. 2 * (a - n * d) \in -n .. n
    BY <1>1, <1>3, <2>1
  <2>4. ASSUME a < NaN, NaN <= d PROVE FALSE
    <3>1. n * NaN <= n * d /\ n * NaN \in Int
      BY <1>1, <2>1, <2>4, TimesMonotone
    <3>2. n * NaN <= NaN - 1 + h
      BY <1>1, <1>3, <2>1, <2>4, <3>1
    <3>3. CASE n = 1
      <4>1. n * NaN = NaN /\ h = 0
        BY <1>1, <1>3, <3>3
      <4>. QED  BY <1>1, <3>2, <4>1
    <3>4. CASE 2 <= n
      <4>1. NaN * 2 <= NaN * n /\ NaN * n = n * NaN
        BY <1>1, <1>2, <3>4, TimesMonotone
      <4>. QED  BY <1>1, <1>2, <1>3, <3>1, <3>2, <4>1
    <3>. QED  BY <1>1, <3>3, <3>4
  <2>5. a < NaN => d < NaN
    BY <1>1, <2>1, <2>4
  <2>6. d \in Nat
    BY <2>1, <2>2
  <2>. QED  BY <2>1, <2>3, <2>5, <2>6 DEF d
<1>5. CASE x = NaN
  BY <1>0, <1>1, <1>2, <1>5 DEF Decimal, Double, Near
<1>6. CASE x # NaN /\ x >= 0
  <2> DEFINE d == (x + h) \div n
  <2>1. Decimal(x) = d
    BY <1>6 DEF Decimal
  <2>2. d \in Nat /\ d < NaN /\ n * d \in Int /\ 2 * (x - n * d) \in -n .. n
    BY <1>1, <1>4, <1>6
  <2> HIDE DEF d
  <2>3. d # NaN
    BY <1>1, <2>2
  <2>4. Double(d) = n * d
    BY <1>1, <2>2, <2>3 DEF Double
  <2>5. d <= MaxSteps => Near(x, n * d)
    <3> SUFFICES ASSUME d <= MaxSteps PROVE Near(x, n * d)
      OBVIOUS
    <3>1. n * d <= n * (MaxSteps + 2)
      BY <1>1, <2>2, Radices, TimesMonotone
    <3>2. n * d # NaN
      BY <1>1, <2>2, <3>1, Radices, RecordAssumption
    <3>. QED  BY <1>6, <2>2, <3>2 DEF Near
  <2>6. InRange(d) => d <= MaxSteps
    BY <2>2, <2>3, Radices DEF InRange
  <2>. QED  BY <1>0, <1>1, <1>6, <2>1, <2>2, <2>3, <2>4, <2>5, <2>6
<1>7. CASE x < 0
  <2> DEFINE d == (-x + h) \div n
  <2>1. x # NaN
    BY <1>1, <1>2, <1>7
  <2>2. Decimal(x) = -d
    BY <1>1, <1>7, <2>1 DEF Decimal
  <2>3. -x \in Nat
    BY <1>1, <1>7
  <2>4. d \in Nat /\ n * d \in Int /\ 2 * (-x - n * d) \in -n .. n
    BY <1>4, <2>3
  <2> HIDE DEF d
  <2>5. -d # NaN /\ -d \in Int /\ -d <= 0
    BY <1>1, <1>2, <2>4
  <2>6. Double(-d) = (-d) * n
    BY <2>5 DEF Double
  <2>7. (-d) * n = -(n * d)
    BY <1>1, <2>4
  <2>8. n * d >= 0
    BY <1>1, <2>4
  <2>9. Near(x, -(n * d))
    <3>1. -(n * d) # NaN
      BY <1>1, <1>2, <2>4, <2>8
    <3>2. 2 * (x - -(n * d)) \in -n .. n
      BY <1>1, <2>4
    <3>. QED  BY <2>1, <3>1, <3>2 DEF Near
  <2>. QED  BY <1>0, <1>1, <1>7, <2>1, <2>2, <2>5, <2>6, <2>7, <2>9
<1>. QED  BY <1>1, <1>5, <1>6, <1>7

\* Rounding keeps the sign a validated quantity has, but may leave zero.
LEMMA DecimalSign ==
    ASSUME NEW x \in Doubles, ~AtMost(x, 0)
    PROVE  ~Below(Decimal(x), 0)
<1>1. x \in Int /\ NaN \in Int /\ 0 # NaN
  <2>1. UnitsPerStep * (MaxSteps + 2) >= 0
    BY Radices
  <2>. QED  BY <2>1, Radices, RecordAssumption DEF Doubles
<1>2. Decimal(x) \in Int /\ (Decimal(x) = NaN <=> x = NaN)
      /\ (x # NaN /\ x >= 0 => Decimal(x) >= 0)
  BY DecimalNear
<1>3. x = NaN \/ x > 0
  BY <1>1 DEF AtMost
<1>. QED  BY <1>1, <1>2, <1>3 DEF Below

\* Rounding keeps the order.
LEMMA DecimalOrdered ==
    ASSUME NEW x \in Doubles, NEW y \in Doubles, ~Below(x, y)
    PROVE  ~Below(Decimal(x), Decimal(y))
<1> DEFINE n == UnitsPerStep
           h == UnitsPerStep \div 2
<1>1. x \in Int /\ y \in Int /\ n \in Nat \ {0} /\ h \in Nat
  BY Radices, HalfBounds DEF Doubles
<1>2. /\ Decimal(x) \in Int /\ (Decimal(x) = NaN <=> x = NaN)
      /\ Decimal(y) \in Int /\ (Decimal(y) = NaN <=> y = NaN)
      /\ x # NaN /\ x >= 0 => Decimal(x) >= 0
      /\ y < 0 => Decimal(y) <= 0
  BY DecimalNear
<1> SUFFICES ASSUME x # NaN, y # NaN PROVE Decimal(x) >= Decimal(y)
  BY <1>2 DEF Below
<1>3. y <= x
  BY <1>1 DEF Below
<1>4. CASE y >= 0
  <2>1. Decimal(x) = (x + h) \div n /\ Decimal(y) = (y + h) \div n
    BY <1>1, <1>3, <1>4 DEF Decimal
  <2>2. (y + h) \div n <= (x + h) \div n
    BY <1>1, <1>3, QuotientMonotone
  <2>. QED  BY <1>2, <2>1, <2>2
<1>5. CASE y < 0 /\ x >= 0
  BY <1>2, <1>5
<1>6. CASE x < 0
  <2> DEFINE c == (-x + h) \div n
             d == (-y + h) \div n
  <2>1. Decimal(x) = -c /\ Decimal(y) = -d
    BY <1>1, <1>3, <1>6 DEF Decimal
  <2>2. c <= d
    BY <1>1, <1>3, QuotientMonotone
  <2>3. c \in Int /\ d \in Int
    BY <1>1, QuotientBounds
  <2> HIDE DEF c, d
  <2>. QED  BY <2>1, <2>2, <2>3
<1>. QED  BY <1>1, <1>4, <1>5, <1>6

\* A number of a column comes back as it is when it is read and written
\* again; reading keeps sign and order.
LEMMA DoubleStable ==
    ASSUME NEW k \in Steps
    PROVE  /\ Double(k) \in Doubles
           /\ Decimal(Double(k)) = k
           /\ Double(k) = NaN <=> k = NaN
           /\ k # NaN => Double(k) = UnitsPerStep * k
           /\ InRange(k)
<1> DEFINE n == UnitsPerStep
           h == UnitsPerStep \div 2
<1>1. n \in Nat \ {0} /\ NaN \in Int /\ h \in Nat /\ h < n
      /\ MaxSteps \in Nat \ {0} /\ NaN > n * (MaxSteps + 2)
  BY Radices, RecordAssumption, HalfBounds
<1>2. InRange(k)
  BY DEF Steps, InRange
<1>3. CASE k = NaN
  BY <1>1, <1>2, <1>3 DEF Double, Decimal, Doubles
<1>4. CASE k # NaN
  <2>1. k \in Int /\ -MaxSteps <= k /\ k <= MaxSteps
    BY <1>1, <1>4 DEF Steps
  <2>2. Double(k) = n * k /\ n * k \in Int
    BY <1>1, <1>4, <2>1 DEF Double
  <2>3. n * k <= n * (MaxSteps + 2)
    BY <1>1, <2>1, TimesMonotone
  <2>4. n * k < NaN
    BY <1>1, <2>2, <2>3
  <2>5. CASE k >= 0
    <3>1. n * 0 <= n * k
      BY <1>1, <2>1, <2>5, TimesMonotone
    <3>2. (n * k + h) \div n = k
      BY <1>1, <2>1, <2>2, QuotientIs
    <3>3. Decimal(n * k) = k
      BY <1>1, <2>2, <2>4, <3>1, <3>2 DEF Decimal
    <3>. QED  BY <1>1, <1>2, <1>4, <2>2, <2>4, <3>3 DEF Doubles
  <2>6. CASE k < 0
    <3>1. n * k <= n * (-1)
      BY <1>1, <2>1, <2>6, TimesMonotone
    <3>2. n * (-k) = -(n * k) /\ -k \in Int
      BY <1>1, <2>1
    <3>3. (-(n * k) + h) \div n = -k
      BY <1>1, <2>1, <2>2, <3>2, QuotientIs
    <3>4. Decimal(n * k) = k
      BY <1>1, <2>1, <2>2, <2>4, <3>1, <3>3 DEF Decimal
    <3>. QED  BY <1>1, <1>2, <1>4, <2>2, <2>4, <3>4 DEF Doubles
  <2>. QED  BY <2>1, <2>5, <2>6
<1>. QED  BY <1>3, <1>4

\* What is positive or NaN in the column is so in the reply.
LEMMA DoublePositive ==
    ASSUME NEW k \in Steps, ~Below(k, 0), k # 0
    PROVE  ~AtMost(Double(k), 0)
<1>1. k \in Int /\ NaN \in Int /\ 0 # NaN /\ UnitsPerStep \in Nat \ {0}
  <2>1. UnitsPerStep * (MaxSteps + 2) >= 0
    BY Radices
  <2>. QED  BY <2>1, Radices, RecordAssumption DEF Steps
<1>2. CASE k = NaN
  BY <1>2, DoubleStable DEF AtMost
<1>3. CASE k # NaN
  <2>1. 1 <= k
    BY <1>1, <1>3 DEF Below
  <2>2. UnitsPerStep * 1 <= UnitsPerStep * k /\ UnitsPerStep * k \in Int
    BY <1>1, <2>1, TimesMonotone
  <2>. QED  BY <1>1, <1>3, <2>2, DoubleStable DEF AtMost
<1>. QED  BY <1>2, <1>3

\* What is in order in the columns is so in the reply.
LEMMA DoubleOrdered ==
    ASSUME NEW k \in Steps, NEW l \in Steps, ~Below(k, l)
    PROVE  ~Below(Double(k), Double(l))
<1>1. k \in Int /\ l \in Int /\ UnitsPerStep \in Nat \ {0}
  BY Radices, RecordAssumption DEF Steps
<1>2. CASE k = NaN \/ l = NaN
  BY <1>2, DoubleStable DEF Below
<1>3. CASE k # NaN /\ l # NaN
  <2>1. l <= k
    BY <1>1, <1>3 DEF Below
  <2>2. /\ UnitsPerStep * l <= UnitsPerStep * k
        /\ UnitsPerStep * k \in Int /\ UnitsPerStep * l \in Int
    BY <1>1, <2>1, TimesMonotone
  <2>. QED  BY <1>3, <2>2, DoubleStable DEF Below
<1>. QED  BY <1>2, <1>3

\* What a text of ten characters says of a date.
Dates == [year : Int, month : Int, day : Int]

\* The powers of ten.
LEMMA PowersTyped ==
    ASSUME NEW k \in 1 .. 9
    PROVE  PowersOfTen[k] \in Nat \ {0} /\ PowersOfTen[k] >= 10
<1>1. \/ k = 1 \/ k = 2 \/ k = 3 \/ k = 4 \/ k = 5
      \/ k = 6 \/ k = 7 \/ k = 8 \/ k = 9
  OBVIOUS
<1>. QED  BY <1>1 DEF PowersOfTen

\* Whoever reaches none of the powers from the m-th on has at most m digits.
LEMMA FewDigits ==
    ASSUME NEW n \in Int, NEW m \in 1 .. 10,
           \A k \in m .. 9 : ~(n >= PowersOfTen[k])
    PROVE  Digits(n) \in 1 .. m
<1> DEFINE reached == { k \in 1 .. 9 : n >= PowersOfTen[k] }
<1>1. reached \subseteq 1 .. (m - 1)
  OBVIOUS
<1>2. /\ IsFiniteSet(1 .. (m - 1)) /\ Cardinality(1 .. (m - 1)) = m - 1
  <2>1. 1 \in Int /\ m - 1 \in Int
    OBVIOUS
  <2>2. /\ IsFiniteSet(1 .. (m - 1))
        /\ Cardinality(1 .. (m - 1)) = IF 1 > m - 1 THEN 0 ELSE (m - 1) - 1 + 1
    BY <2>1, FS_Interval, Zenon
  <2>. QED  BY <2>2
<1> DEFINE bound == 1 .. (m - 1)
<1> HIDE DEF reached, bound
<1>3. /\ IsFiniteSet(reached) /\ Cardinality(reached) <= Cardinality(bound)
  BY <1>1, <1>2, FS_Subset DEF bound
<1>4. Cardinality(reached) \in Nat
  BY <1>3, FS_CardinalityType
<1>5. Cardinality(reached) <= m - 1
  BY <1>2, <1>3 DEF bound
<1>6. Digits(n) = 1 + Cardinality(reached)
  BY DEF Digits, reached
<1>. QED  BY <1>4, <1>5, <1>6

\* What is printed takes some characters, and ten at most if it has no sign.
LEMMA WidthTyped ==
    ASSUME NEW n \in Int, NEW w \in {2, 4}
    PROVE  Width(w, n) \in w .. 11 /\ (n >= 0 => Width(w, n) <= 10)
<1>1. -n \in Int
  OBVIOUS
<1>2. Digits(n) \in 1 .. 10 /\ Digits(-n) \in 1 .. 10
  BY <1>1, FewDigits
<1>. QED  BY <1>2 DEF Width

\* Whatever is written into the ten characters has the fields of a date.
LEMMA DateTyped ==
    ASSUME NEW d \in Dates
    PROVE  DateToString(d) \in Dates
<1> DEFINE room == 10 - (Width(4, d.year) + 1 + Width(2, d.month) + 1)
           over == Width(2, d.day) - room
<1>1. d.year \in Int /\ d.month \in Int /\ d.day \in Int
  BY DEF Dates
<1>2. /\ Width(4, d.year) \in 4 .. 11 /\ Width(2, d.month) \in 2 .. 11
      /\ Width(2, d.day) \in 2 .. 11 /\ (d.day >= 0 => Width(2, d.day) <= 10)
  BY <1>1, WidthTyped
<1>3. room \in Int /\ over \in Int
  BY <1>2
<1>4. DateToString(d) =
        IF room <= 0 THEN NoDate
        ELSE IF over <= 0 \/ d.day < 0 THEN d
        ELSE [d EXCEPT !.day = @ \div PowersOfTen[over]]
  BY DEF DateToString
<1>5. room > 0 /\ over > 0 /\ d.day >= 0 => over \in 1 .. 9
  BY <1>1, <1>2
<1> HIDE DEF room, over
<1>6. ASSUME room > 0, over > 0, d.day >= 0
      PROVE  d.day \div PowersOfTen[over] \in Int
  BY <1>1, <1>5, <1>6, PowersTyped, QuotientBounds
<1>7. NoDate \in Dates
  BY DEF NoDate, Dates
<1>. QED  BY <1>1, <1>3, <1>4, <1>6, <1>7 DEF Dates

\* A day of a year with at most four digits is written and read exactly, and
\* an unset date is written as no day.
LEMMA DateKept ==
    ASSUME NEW d \in Dates, (IsDay(d) /\ d.year <= 9999) \/ d = NoDate
    PROVE  DateToString(d) = d
<1>1. /\ d.year \in Int /\ d.month \in Int /\ d.day \in Int
      /\ d.year >= 0 /\ d.year <= 9999 /\ d.month >= 0 /\ d.month <= 12
      /\ d.day >= 0
  BY DEF Dates, IsDay, NoDate
<1>2. d.day <= 31
  BY <1>1 DEF IsDay, NoDate
<1>3. \A k \in 4 .. 9 : PowersOfTen[k] >= 10000 /\ PowersOfTen[k] \in Int
  <2> TAKE k \in 4 .. 9
  <2>1. k = 4 \/ k = 5 \/ k = 6 \/ k = 7 \/ k = 8 \/ k = 9
    OBVIOUS
  <2>. QED  BY <2>1 DEF PowersOfTen
<1>4. \A k \in 2 .. 9 : PowersOfTen[k] >= 100 /\ PowersOfTen[k] \in Int
  <2> TAKE k \in 2 .. 9
  <2>1. k = 2 \/ k = 3 \/ k \in 4 .. 9
    OBVIOUS
  <2>2. PowersOfTen[2] = 100 /\ PowersOfTen[3] = 1000
    BY DEF PowersOfTen
  <2>. QED  BY <1>3, <2>1, <2>2
<1>5. Digits(d.year) \in 1 .. 4
  BY <1>1, <1>3, FewDigits
<1>6. Digits(d.month) \in 1 .. 2 /\ Digits(d.day) \in 1 .. 2
  BY <1>1, <1>2, <1>4, FewDigits
<1>7. Width(4, d.year) = 4 /\ Width(2, d.month) = 2 /\ Width(2, d.day) = 2
  BY <1>1, <1>5, <1>6 DEF Width
<1>. QED  BY <1>7 DEF DateToString

\* An unset date is no day.
LEMMA NoDateNoDay == ~IsDay(NoDate)
  BY DEF IsDay, NoDate

-----------------------------------------------------------------------------
(***************************************************************************)
(* Records, table by table.                                                *)
(***************************************************************************)

\* The rows that validation, rounding and the columns let through.
VehicleRows == [BatteryCapacity : Steps, PurchaseDate : Dates]

ChargingRows ==
    [StartTime : Int, EndTime : Int, StartPercent : Int, EndPercent : Int,
     KwhCharged : Steps, Cost : Steps, ElectricityUnitPrice : Steps,
     ServiceFee : SUBSET Steps,
     ChargerType : {"fast", "slow"},
     Location : ({Null} \cup STRING) \ {"", TooLong}]

ConsumptionRows ==
    [Start : Int, EndTime : Int, BeginPercent : Int, EndPercent : Int,
     HighestTemperature : Steps, LowestTemperature : Steps,
     WeatherId : STRING \ {""}]

ChargingRules(r) ==
    /\ r.EndTime >= r.StartTime
    /\ r.EndPercent > r.StartPercent
    /\ ~Below(r.KwhCharged, 0)
    /\ ~Below(r.Cost, 0)
    /\ \A x, y \in r.ServiceFee : x = y

ConsumptionRules(r) ==
    /\ r.EndTime >= r.Start
    /\ r.EndPercent < r.BeginPercent
    /\ ~Below(r.HighestTemperature, r.LowestTemperature)

\* A vehicle that is accepted.
LEMMA VehicleStored ==
    ASSUME NEW q \in VehicleRequests,
           InRange(VehicleParams(q).BatteryCapacity)
    PROVE  LET r == VehicleParams(q)
               p == RowToVehicle(r)
           IN  /\ r \in VehicleRows
               /\ Near(q.battery_capacity_kwh, p.battery_capacity_kwh)
               /\ IsDay(q.purchase_date) /\ q.purchase_date.year <= 9999
                    => p.purchase_date = q.purchase_date
<1> DEFINE r == VehicleParams(q)
           p == RowToVehicle(r)
<1>1. q.battery_capacity_kwh \in Doubles /\ q.purchase_date \in Dates
  BY DEF VehicleRequests, PurchaseDates, Int32, Dates
<1>2. /\ r.BatteryCapacity = Decimal(q.battery_capacity_kwh)
      /\ r.PurchaseDate = DateToString(q.purchase_date)
      /\ r = [BatteryCapacity |-> r.BatteryCapacity,
              PurchaseDate |-> r.PurchaseDate]
      /\ p.battery_capacity_kwh = Double(r.BatteryCapacity)
      /\ p.purchase_date = ReadDate(r.PurchaseDate)
  BY DEF VehicleParams, RowToVehicle
<1> HIDE DEF r, p
<1>3. /\ r.BatteryCapacity \in Steps
      /\ Near(q.battery_capacity_kwh, p.battery_capacity_kwh)
  BY <1>1, <1>2, DecimalNear DEF r
<1>4. r \in VehicleRows
  BY <1>1, <1>2, <1>3, DateTyped DEF VehicleRows
<1>5. IsDay(q.purchase_date) /\ q.purchase_date.year <= 9999
        => p.purchase_date = q.purchase_date
  BY <1>1, <1>2, DateKept DEF ReadDate
<1>. QED  BY <1>3, <1>4, <1>5 DEF r, p

\* A charging that is accepted.
LEMMA ChargingStored ==
    ASSUME NEW q \in ChargingRequests, \A x, y \in q.service_fee : x = y,
           ValidateCharging(q),
           InRange(ChargeParams(q).KwhCharged), InRange(ChargeParams(q).Cost),
           InRange(ChargeParams(q).ElectricityUnitPrice),
           \A x \in ChargeParams(q).ServiceFee : InRange(x),
           ChargeParams(q).ChargerType # Null,
           ChargeParams(q).Location # TooLong
    PROVE  LET r == ChargeParams(q)
               p == RowToCharging(r)
           IN  /\ r \in ChargingRows
               /\ ChargingRules(r)
               /\ SameSecond(q.start_time, p.start_time)
               /\ SameSecond(q.end_time, p.end_time)
               /\ Near(q.kwh_charged, p.kwh_charged)
               /\ Near(q.cost, p.cost)
               /\ Near(q.electricity_unit_price, p.electricity_unit_price)
               /\ q.service_fee = {} <=> p.service_fee = {}
               /\ \A x \in q.service_fee, y \in p.service_fee : Near(x, y)
               /\ p.start_percent = q.start_percent
               /\ p.end_percent = q.end_percent
               /\ p.charger_type = q.charger_type
               /\ p.location = q.location
<1> DEFINE r == ChargeParams(q)
           p == RowToCharging(r)
<1>1. /\ q.start_time \in Int /\ q.end_time \in Int
      /\ q.start_percent \in Int /\ q.end_percent \in Int
      /\ q.kwh_charged \in Doubles /\ q.cost \in Doubles
      /\ q.electricity_unit_price \in Doubles
      /\ q.service_fee \subseteq Doubles
      /\ q.location \in {""} \cup (STRING \ {Null})
  BY DEF ChargingRequests
<1>2. /\ r.StartTime = Timestamptz(q.start_time)
      /\ r.EndTime = Timestamptz(q.end_time)
      /\ r.StartPercent = q.start_percent /\ r.EndPercent = q.end_percent
      /\ r.KwhCharged = Decimal(q.kwh_charged) /\ r.Cost = Decimal(q.cost)
      /\ r.ElectricityUnitPrice = Decimal(q.electricity_unit_price)
      /\ r.ServiceFee = { Decimal(x) : x \in q.service_fee }
      /\ r.ChargerType = ChargerTypeLabel(q.charger_type)
      /\ r.Location = IF q.location = "" THEN Null ELSE q.location
      /\ r = [StartTime |-> r.StartTime, EndTime |-> r.EndTime,
              StartPercent |-> r.StartPercent, EndPercent |-> r.EndPercent,
              KwhCharged |-> r.KwhCharged, Cost |-> r.Cost,
              ElectricityUnitPrice |-> r.ElectricityUnitPrice,
              ServiceFee |-> r.ServiceFee, ChargerType |-> r.ChargerType,
              Location |-> r.Location]
  BY DEF ChargeParams
<1>3. /\ p.start_time = ParseTimestamp(r.StartTime)
      /\ p.end_time = ParseTimestamp(r.EndTime)
      /\ p.start_percent = r.StartPercent /\ p.end_percent = r.EndPercent
      /\ p.kwh_charged = Double(r.KwhCharged) /\ p.cost = Double(r.Cost)
      /\ p.electricity_unit_price = Double(r.ElectricityUnitPrice)
      /\ p.service_fee = { Double(x) : x \in r.ServiceFee }
      /\ p.charger_type = ChargerTypeFromLabel(r.ChargerType)
      /\ p.location = IF r.Location = Null THEN "" ELSE r.Location
  BY DEF RowToCharging
<1>4. /\ InRange(r.KwhCharged) /\ InRange(r.Cost)
      /\ InRange(r.ElectricityUnitPrice)
      /\ \A x \in r.ServiceFee : InRange(x)
      /\ r.ChargerType # Null /\ r.Location # TooLong
  OBVIOUS
<1> HIDE DEF r, p
<1>5. /\ r.StartTime \in Int /\ r.EndTime \in Int
      /\ SameSecond(q.start_time, p.start_time)
      /\ SameSecond(q.end_time, p.end_time)
  BY <1>1, <1>2, <1>3, InstantKept
<1>6. /\ r.KwhCharged \in Steps /\ r.Cost \in Steps
      /\ r.ElectricityUnitPrice \in Steps
      /\ Near(q.kwh_charged, p.kwh_charged)
      /\ Near(q.cost, p.cost)
      /\ Near(q.electricity_unit_price, p.electricity_unit_price)
  BY <1>1, <1>2, <1>3, <1>4, DecimalNear
<1>7. /\ r.ServiceFee \subseteq Steps
      /\ \A x, y \in r.ServiceFee : x = y
      /\ q.service_fee = {} <=> p.service_fee = {}
      /\ \A x \in q.service_fee, y \in p.service_fee : Near(x, y)
  <2>1. \A x \in q.service_fee :
           Decimal(x) \in Steps /\ Near(x, Double(Decimal(x)))
    BY <1>1, <1>2, <1>4, DecimalNear
  <2>2. CASE q.service_fee = {}
    BY <1>2, <1>3, <2>2
  <2>3. ASSUME NEW x \in q.service_fee
        PROVE  /\ r.ServiceFee = {Decimal(x)}
               /\ p.service_fee = {Double(Decimal(x))}
               /\ q.service_fee = {x}
    <3>1. q.service_fee = {x}
      OBVIOUS
    <3>2. r.ServiceFee = {Decimal(x)}
      BY <1>2, <3>1
    <3>3. p.service_fee = {Double(Decimal(x))}
      BY <1>3, <3>2
    <3>. QED  BY <3>1, <3>2, <3>3
  <2>. QED  BY <2>1, <2>2, <2>3
<1>8. r.ChargerType \in {"fast", "slow"} /\ p.charger_type = q.charger_type
  BY <1>2, <1>3, <1>4 DEF ChargerTypeLabel, ChargerTypeFromLabel
<1>9. /\ r.Location \in ({Null} \cup STRING) \ {"", TooLong}
      /\ p.location = q.location
  <2>1. Null # ""
    BY DEF Null
  <2>2. CASE q.location = ""
    BY <1>2, <1>3, <1>4, <2>1, <2>2
  <2>3. CASE q.location # ""
    BY <1>1, <1>2, <1>3, <1>4, <2>3
  <2>. QED  BY <2>2, <2>3
<1>10. r \in ChargingRows
  BY <1>1, <1>2, <1>5, <1>6, <1>7, <1>8, <1>9 DEF ChargingRows
<1>11. ChargingRules(r)
  <2>1. r.EndTime >= r.StartTime
    BY <1>1, <1>2, InstantOrdered DEF ValidateCharging
  <2>2. ~Below(r.KwhCharged, 0) /\ ~Below(r.Cost, 0)
    BY <1>1, <1>2, DecimalSign DEF ValidateCharging
  <2>. QED
    BY <1>2, <1>7, <2>1, <2>2 DEF ChargingRules, ValidateCharging
<1>. QED
  BY <1>2, <1>3, <1>5, <1>6, <1>7, <1>8, <1>9, <1>10, <1>11 DEF r, p

\* A consumption that is accepted.
LEMMA ConsumptionStored ==
    ASSUME NEW q \in ConsumptionRequests, ValidateConsumption(q),
           InRange(ConsumptionParams(q).HighestTemperature),
           InRange(ConsumptionParams(q).LowestTemperature)
    PROVE  LET r == ConsumptionParams(q)
               p == RowToConsumption(r)
           IN  /\ r \in ConsumptionRows
               /\ ConsumptionRules(r)
               /\ SameSecond(q.start, p.start)
               /\ SameSecond(q.end, p.end)
               /\ Near(q.highest_temperature_c, p.highest_temperature_c)
               /\ Near(q.lowest_temperature_c, p.lowest_temperature_c)
               /\ p.begin_percent = q.begin_percent
               /\ p.end_percent = q.end_percent
               /\ p.weather_id = q.weather_id
<1> DEFINE r == ConsumptionParams(q)
           p == RowToConsumption(r)
<1>1. /\ q.start \in Int /\ q.end \in Int
      /\ q.begin_percent \in Int /\ q.end_percent \in Int
      /\ q.highest_temperature_c \in Doubles
      /\ q.lowest_temperature_c \in Doubles
      /\ q.weather_id \in STRING
  BY DEF ConsumptionRequests
<1>2. /\ r.Start = Timestamptz(q.start) /\ r.EndTime = Timestamptz(q.end)
      /\ r.BeginPercent = q.begin_percent /\ r.EndPercent = q.end_percent
      /\ r.HighestTemperature = Decimal(q.highest_temperature_c)
      /\ r.LowestTemperature = Decimal(q.lowest_temperature_c)
      /\ r.WeatherId = q.weather_id
      /\ r = [Start |-> r.Start, EndTime |-> r.EndTime,
              BeginPercent |-> r.BeginPercent, EndPercent |-> r.EndPercent,
              HighestTemperature |-> r.HighestTemperature,
              LowestTemperature |-> r.LowestTemperature,
              WeatherId |-> r.WeatherId]
  BY DEF ConsumptionParams
<1>3. /\ p.start = ParseTimestamp(r.Start) /\ p.end = ParseTimestamp(r.EndTime)
      /\ p.begin_percent = r.BeginPercent /\ p.end_percent = r.EndPercent
      /\ p.highest_temperature_c = Double(r.HighestTemperature)
      /\ p.lowest_temperature_c = Double(r.LowestTemperature)
      /\ p.weather_id = r.WeatherId
  BY DEF RowToConsumption
<1>4. InRange(r.HighestTemperature) /\ InRange(r.LowestTemperature)
  OBVIOUS
<1> HIDE DEF r, p
<1>5. /\ r.Start \in Int /\ r.EndTime \in Int
      /\ SameSecond(q.start, p.start)
      /\ SameSecond(q.end, p.end)
  BY <1>1, <1>2, <1>3, InstantKept
<1>6. /\ r.HighestTemperature \in Steps /\ r.LowestTemperature \in Steps
      /\ Near(q.highest_temperature_c, p.highest_temperature_c)
      /\ Near(q.lowest_temperature_c, p.lowest_temperature_c)
  BY <1>1, <1>2, <1>3, <1>4, DecimalNear
<1>7. r \in ConsumptionRows
  BY <1>1, <1>2, <1>5, <1>6 DEF ConsumptionRows, ValidateConsumption
<1>8. ConsumptionRules(r)
  <2>1. r.EndTime >= r.Start
    BY <1>1, <1>2, InstantOrdered DEF ValidateConsumption
  <2>2. ~Below(r.HighestTemperature, r.LowestTemperature)
    BY <1>1, <1>2, DecimalOrdered DEF ValidateConsumption
  <2>. QED  BY <1>2, <2>1, <2>2 DEF ConsumptionRules, ValidateConsumption
<1>. QED  BY <1>2, <1>3, <1>5, <1>6, <1>7, <1>8 DEF r, p

\* A vehicle that is read and sent back.
LEMMA VehicleWrittenBack ==
    ASSUME NEW r \in VehicleRows, IsDay(r.PurchaseDate)
    PROVE  LET q == RowToVehicle(r)
               p == VehicleParams(q)
           IN  /\ q \in VehicleRequests
               /\ InRange(p.BatteryCapacity)
               /\ IF r.PurchaseDate.year > 9999 THEN ~IsDay(p.PurchaseDate)
                  ELSE IsDay(p.PurchaseDate) /\ RowToVehicle(p) = q
<1> DEFINE q == RowToVehicle(r)
           p == VehicleParams(q)
<1>1. r.BatteryCapacity \in Steps /\ r.PurchaseDate \in Dates
  BY DEF VehicleRows
<1>2. /\ q.battery_capacity_kwh = Double(r.BatteryCapacity)
      /\ q.purchase_date = ReadDate(r.PurchaseDate)
      /\ q = [battery_capacity_kwh |-> q.battery_capacity_kwh,
              purchase_date |-> q.purchase_date]
      /\ p.BatteryCapacity = Decimal(q.battery_capacity_kwh)
      /\ p.PurchaseDate = DateToString(q.purchase_date)
      /\ RowToVehicle(p) = [battery_capacity_kwh |-> Double(p.BatteryCapacity),
                            purchase_date |-> ReadDate(p.PurchaseDate)]
  BY DEF VehicleParams, RowToVehicle
<1> HIDE DEF q, p
<1>3. /\ q.battery_capacity_kwh \in Doubles
      /\ p.BatteryCapacity = r.BatteryCapacity
      /\ InRange(p.BatteryCapacity)
  BY <1>1, <1>2, DoubleStable
<1>4. NoDate \in Dates
  BY DEF NoDate, Dates
<1>5. q.purchase_date \in PurchaseDates
  <2>1. NoDate \in PurchaseDates
    BY DEF NoDate, PurchaseDates, Int32
  <2>2. ASSUME r.PurchaseDate.year <= 9999 PROVE r.PurchaseDate \in PurchaseDates
    <3> DEFINE d == r.PurchaseDate
    <3>1. d.year \in Int /\ d.month \in Int /\ d.day \in Int
      BY <1>1 DEF Dates
    <3>2. /\ d.year >= 1 /\ d.year <= 9999 /\ d.month \in 1 .. 12
          /\ d.day >= 1 /\ d.day <= 31
      BY <2>2, <3>1 DEF IsDay
    <3>. QED  BY <1>1, <3>2 DEF Dates, PurchaseDates, Int32
  <2>. QED  BY <1>2, <2>1, <2>2 DEF ReadDate
<1>6. q \in VehicleRequests
  BY <1>2, <1>3, <1>5 DEF VehicleRequests
<1>7. CASE r.PurchaseDate.year > 9999
  <2>1. q.purchase_date = NoDate
    <3>1. ~(r.PurchaseDate.year <= 9999)
      BY <1>1, <1>7 DEF Dates
    <3>. QED  BY <1>2, <3>1 DEF ReadDate
  <2>2. p.PurchaseDate = NoDate
    BY <1>2, <1>4, <2>1, DateKept
  <2>. QED  BY <1>3, <1>6, <1>7, <2>2, NoDateNoDay DEF q, p
<1>8. CASE ~(r.PurchaseDate.year > 9999)
  <2>1. r.PurchaseDate.year <= 9999
    BY <1>1, <1>8 DEF Dates
  <2>2. q.purchase_date = r.PurchaseDate
    BY <1>2, <2>1 DEF ReadDate
  <2>3. p.PurchaseDate = r.PurchaseDate
    BY <1>1, <1>2, <2>1, <2>2, DateKept
  <2>4. RowToVehicle(p) = q
    BY <1>2, <1>3, <2>1, <2>2, <2>3 DEF ReadDate
  <2>. QED  BY <1>3, <1>6, <1>8, <2>3, <2>4 DEF q, p
<1>. QED  BY <1>7, <1>8

\* A charging that is read and sent back.
LEMMA ChargingWrittenBack ==
    ASSUME NEW r \in ChargingRows, ChargingRules(r)
    PROVE  LET q == RowToCharging(r)
               p == ChargeParams(q)
           IN  /\ q \in ChargingRequests
               /\ \A x, y \in q.service_fee : x = y
               /\ InRange(p.KwhCharged) /\ InRange(p.Cost)
               /\ InRange(p.ElectricityUnitPrice)
               /\ \A x \in p.ServiceFee : InRange(x)
               /\ p.ChargerType # Null
               /\ p.Location # TooLong
               /\ RowToCharging(p) = q
               /\ \/ ValidateCharging(q)
                  \/ r.KwhCharged = 0 \/ r.Cost = 0
                  \/ ParseTimestamp(r.StartTime) = ParseTimestamp(r.EndTime)
<1> DEFINE q == RowToCharging(r)
           p == ChargeParams(q)
<1>1. /\ r.StartTime \in Int /\ r.EndTime \in Int
      /\ r.StartPercent \in Int /\ r.EndPercent \in Int
      /\ r.KwhCharged \in Steps /\ r.Cost \in Steps
      /\ r.ElectricityUnitPrice \in Steps
      /\ r.ServiceFee \subseteq Steps
      /\ r.ChargerType \in {"fast", "slow"}
      /\ r.Location \in ({Null} \cup STRING) \ {"", TooLong}
  BY DEF ChargingRows
<1>2. /\ q.start_time = ParseTimestamp(r.StartTime)
      /\ q.end_time = ParseTimestamp(r.EndTime)
      /\ q.start_percent = r.StartPercent /\ q.end_percent = r.EndPercent
      /\ q.kwh_charged = Double(r.KwhCharged) /\ q.cost = Double(r.Cost)
      /\ q.electricity_unit_price = Double(r.ElectricityUnitPrice)
      /\ q.service_fee = { Double(x) : x \in r.ServiceFee }
      /\ q.charger_type = ChargerTypeFromLabel(r.ChargerType)
      /\ q.location = IF r.Location = Null THEN "" ELSE r.Location
      /\ q = [start_time |-> q.start_time, end_time |-> q.end_time,
              start_percent |-> q.start_percent, end_percent |-> q.end_percent,
              kwh_charged |-> q.kwh_charged, cost |-> q.cost,
              electricity_unit_price |-> q.electricity_unit_price,
              service_fee |-> q.service_fee, charger_type |-> q.charger_type,
              location |-> q.location]
  BY DEF RowToCharging
<1>3. /\ p.StartTime = Timestamptz(q.start_time)
      /\ p.EndTime = Timestamptz(q.end_time)
      /\ p.StartPercent = q.start_percent /\ p.EndPercent = q.end_percent
      /\ p.KwhCharged = Decimal(q.kwh_charged) /\ p.Cost = Decimal(q.cost)
      /\ p.ElectricityUnitPrice = Decimal(q.electricity_unit_price)
      /\ p.ServiceFee = { Decimal(x) : x \in q.service_fee }
      /\ p.ChargerType = ChargerTypeLabel(q.charger_type)
      /\ p.Location = IF q.location = "" THEN Null ELSE q.location
  BY DEF ChargeParams
<1>4. RowToCharging(p) =
        [start_time |-> ParseTimestamp(p.StartTime),
         end_time |-> ParseTimestamp(p.EndTime),
         start_percent |-> p.StartPercent, end_percent |-> p.EndPercent,
         kwh_charged |-> Double(p.KwhCharged), cost |-> Double(p.Cost),
         electricity_unit_price |-> Double(p.ElectricityUnitPrice),
         service_fee |-> { Double(x) : x \in p.ServiceFee },
         charger_type |-> ChargerTypeFromLabel(p.ChargerType),
         location |-> IF p.Location = Null THEN "" ELSE p.Location]
  BY DEF RowToCharging
<1> HIDE DEF q, p
<1>5. /\ q.start_time \in Int /\ q.end_time \in Int
      /\ ParseTimestamp(p.StartTime) = q.start_time
      /\ ParseTimestamp(p.EndTime) = q.end_time
  <2>1. \A us \in Int :
           /\ ParseTimestamp(us) \in Int
           /\ ParseTimestamp(Timestamptz(ParseTimestamp(us))) = ParseTimestamp(us)
    BY InstantStable
  <2>2. q.start_time \in Int /\ q.end_time \in Int
    BY <1>1, <1>2, <2>1
  <2>3. /\ p.StartTime = Timestamptz(ParseTimestamp(r.StartTime))
        /\ p.EndTime = Timestamptz(ParseTimestamp(r.EndTime))
    BY <1>2, <1>3
  <2>. QED  BY <1>1, <1>2, <2>1, <2>2, <2>3
<1>6. /\ q.kwh_charged \in Doubles /\ q.cost \in Doubles
      /\ q.electricity_unit_price \in Doubles
      /\ p.KwhCharged = r.KwhCharged /\ p.Cost = r.Cost
      /\ p.ElectricityUnitPrice = r.ElectricityUnitPrice
      /\ InRange(p.KwhCharged) /\ InRange(p.Cost)
      /\ InRange(p.ElectricityUnitPrice)
  <2>1. \A k \in Steps :
           Double(k) \in Doubles /\ Decimal(Double(k)) = k /\ InRange(k)
    BY DoubleStable
  <2>. QED  BY <1>1, <1>2, <1>3, <2>1
<1>7. /\ q.service_fee \subseteq Doubles
      /\ \A x, y \in q.service_fee : x = y
      /\ p.ServiceFee = r.ServiceFee
      /\ \A x \in p.ServiceFee : InRange(x)
  <2>1. \A x \in r.ServiceFee :
           Double(x) \in Doubles /\ Decimal(Double(x)) = x /\ InRange(x)
    BY <1>1, DoubleStable
  <2>2. q.service_fee \subseteq Doubles
    BY <1>2, <2>1
  <2>3. \A x, y \in q.service_fee : x = y
    BY <1>2 DEF ChargingRules
  <2>4. p.ServiceFee = { Decimal(Double(x)) : x \in r.ServiceFee }
    BY <1>2, <1>3
  <2>5. p.ServiceFee = r.ServiceFee
    BY <2>1, <2>4
  <2>. QED  BY <2>1, <2>2, <2>3, <2>5
<1>8. /\ q.charger_type \in {"FAST", "SLOW"}
      /\ p.ChargerType = r.ChargerType /\ p.ChargerType # Null
  BY <1>1, <1>2, <1>3 DEF ChargerTypeLabel, ChargerTypeFromLabel, Null
<1>9. /\ q.location \in {""} \cup (STRING \ {Null})
      /\ p.Location = r.Location /\ p.Location # TooLong
  <2>1. CASE r.Location = Null
    BY <1>1, <1>2, <1>3, <2>1
  <2>2. CASE r.Location # Null
    BY <1>1, <1>2, <1>3, <2>2
  <2>. QED  BY <2>1, <2>2
<1>10. q \in ChargingRequests
  BY <1>1, <1>2, <1>5, <1>6, <1>7, <1>8, <1>9 DEF ChargingRequests
<1>11. RowToCharging(p) = q
  BY <1>2, <1>3, <1>4, <1>5, <1>6, <1>7, <1>8, <1>9
<1>12. \/ ValidateCharging(q)
       \/ r.KwhCharged = 0 \/ r.Cost = 0
       \/ ParseTimestamp(r.StartTime) = ParseTimestamp(r.EndTime)
  <2> SUFFICES ASSUME r.KwhCharged # 0, r.Cost # 0,
                      ParseTimestamp(r.StartTime) # ParseTimestamp(r.EndTime)
               PROVE  ValidateCharging(q)
    OBVIOUS
  <2>1. Seconds(q.end_time) > Seconds(q.start_time)
    <3>1. r.StartTime <= r.EndTime
      BY <1>1 DEF ChargingRules
    <3>. QED  BY <1>1, <1>2, <3>1, ReadOrdered
  <2>2. ~AtMost(q.kwh_charged, 0) /\ ~AtMost(q.cost, 0)
    BY <1>1, <1>2, DoublePositive DEF ChargingRules
  <2>. QED  BY <1>2, <1>8, <2>1, <2>2 DEF ValidateCharging, ChargingRules
<1>. QED
  BY <1>6, <1>7, <1>8, <1>9, <1>10, <1>11, <1>12 DEF q, p

\* A consumption that is read and sent back.
LEMMA ConsumptionWrittenBack ==
    ASSUME NEW r \in ConsumptionRows, ConsumptionRules(r)
    PROVE  LET q == RowToConsumption(r)
               p == ConsumptionParams(q)
           IN  /\ q \in ConsumptionRequests
               /\ InRange(p.HighestTemperature) /\ InRange(p.LowestTemperature)
               /\ RowToConsumption(p) = q
               /\ \/ ValidateConsumption(q)
                  \/ ParseTimestamp(r.Start) = ParseTimestamp(r.EndTime)
<1> DEFINE q == RowToConsumption(r)
           p == ConsumptionParams(q)
<1>1. /\ r.Start \in Int /\ r.EndTime \in Int
      /\ r.BeginPercent \in Int /\ r.EndPercent \in Int
      /\ r.HighestTemperature \in Steps /\ r.LowestTemperature \in Steps
      /\ r.WeatherId \in STRING \ {""}
  BY DEF ConsumptionRows
<1>2. /\ q.start = ParseTimestamp(r.Start) /\ q.end = ParseTimestamp(r.EndTime)
      /\ q.begin_percent = r.BeginPercent /\ q.end_percent = r.EndPercent
      /\ q.highest_temperature_c = Double(r.HighestTemperature)
      /\ q.lowest_temperature_c = Double(r.LowestTemperature)
      /\ q.weather_id = r.WeatherId
      /\ q = [start |-> q.start, end |-> q.end,
              begin_percent |-> q.begin_percent, end_percent |-> q.end_percent,
              highest_temperature_c |-> q.highest_temperature_c,
              lowest_temperature_c |-> q.lowest_temperature_c,
              weather_id |-> q.weather_id]
  BY DEF RowToConsumption
<1>3. /\ p.Start = Timestamptz(q.start) /\ p.EndTime = Timestamptz(q.end)
      /\ p.BeginPercent = q.begin_percent /\ p.EndPercent = q.end_percent
      /\ p.HighestTemperature = Decimal(q.highest_temperature_c)
      /\ p.LowestTemperature = Decimal(q.lowest_temperature_c)
      /\ p.WeatherId = q.weather_id
  BY DEF ConsumptionParams
<1>4. RowToConsumption(p) =
        [start |-> ParseTimestamp(p.Start), end |-> ParseTimestamp(p.EndTime),
         begin_percent |-> p.BeginPercent, end_percent |-> p.EndPercent,
         highest_temperature_c |-> Double(p.HighestTemperature),
         lowest_temperature_c |-> Double(p.LowestTemperature),
         weather_id |-> p.WeatherId]
  BY DEF RowToConsumption
<1> HIDE DEF q, p
<1>5. /\ q.start \in Int /\ q.end \in Int
      /\ ParseTimestamp(p.Start) = q.start
      /\ ParseTimestamp(p.EndTime) = q.end
  <2>1. \A us \in Int :
           /\ ParseTimestamp(us) \in Int
           /\ ParseTimestamp(Timestamptz(ParseTimestamp(us))) = ParseTimestamp(us)
    BY InstantStable
  <2>2. q.start \in Int /\ q.end \in Int
    BY <1>1, <1>2, <2>1
  <2>3. /\ p.Start = Timestamptz(ParseTimestamp(r.Start))
        /\ p.EndTime = Timestamptz(ParseTimestamp(r.EndTime))
    BY <1>2, <1>3
  <2>. QED  BY <1>1, <1>2, <2>1, <2>2, <2>3
<1>6. /\ q.highest_temperature_c \in Doubles
      /\ q.lowest_temperature_c \in Doubles
      /\ p.HighestTemperature = r.HighestTemperature
      /\ p.LowestTemperature = r.LowestTemperature
      /\ InRange(p.HighestTemperature) /\ InRange(p.LowestTemperature)
  BY <1>1, <1>2, <1>3, DoubleStable
<1>7. q \in ConsumptionRequests
  BY <1>1, <1>2, <1>5, <1>6 DEF ConsumptionRequests
<1>8. RowToConsumption(p) = q
  BY <1>2, <1>3, <1>4, <1>5, <1>6
<1>9. \/ ValidateConsumption(q)
      \/ ParseTimestamp(r.Start) = ParseTimestamp(r.EndTime)
  <2> SUFFICES ASSUME ParseTimestamp(r.Start) # ParseTimestamp(r.EndTime)
               PROVE  ValidateConsumption(q)
    OBVIOUS
  <2>1. Seconds(q.end) > Seconds(q.start)
    <3>1. r.Start <= r.EndTime
      BY <1>1 DEF ConsumptionRules
    <3>. QED  BY <1>1, <1>2, <3>1, ReadOrdered
  <2>2. ~Below(q.highest_temperature_c, q.lowest_temperature_c)
    BY <1>1, <1>2, DoubleOrdered DEF ConsumptionRules
  <2>. QED
    BY <1>1, <1>2, <2>1, <2>2 DEF ValidateConsumption, ConsumptionRules
<1>. QED  BY <1>6, <1>7, <1>8, <1>9 DEF q, p

-----------------------------------------------------------------------------
(***************************************************************************)
(* The state machine.                                                      *)
(***************************************************************************)

\* A request for the table, from a client or read before.
IsRequest(q) ==
    /\ table = "vehicle" => q \in VehicleRequests
    /\ table = "charging" =>
         q \in ChargingRequests /\ \A x, y \in q.service_fee : x = y
    /\ table = "consumption" => q \in ConsumptionRequests

IsRow(r) ==
    /\ table = "vehicle" => r \in VehicleRows
    /\ table = "charging" => r \in ChargingRows /\ ChargingRules(r)
    /\ table = "consumption" => r \in ConsumptionRows /\ ConsumptionRules(r)

\* StoredRowRules is not inductive: the request may be one that was read from
\* the row, so the row must have the types of a request, and a reply must be
\* what the row says.
RecordInv ==
    /\ TypeOK
    /\ \A r \in rows : IsRow(r)
    /\ op = "get" => status = "OK"
    /\ AcceptedIsStored

\* The two lists of a table, one in its create and one in its update, bind
\* the same values to the same columns.
LEMMA SameBindings ==
    ASSUME NEW o, NEW q
    PROVE  /\ table = "vehicle" => Params(o, q) = VehicleParams(q)
           /\ table = "charging" => Params(o, q) = ChargeParams(q)
           /\ table = "consumption" => Params(o, q) = ConsumptionParams(q)
<1>1. UpdateVehicleParams(q) = VehicleParams(q)
  BY DEF UpdateVehicleParams, VehicleParams
<1>2. UpdateChargeParams(q) = ChargeParams(q)
  BY DEF UpdateChargeParams, ChargeParams
<1>3. UpdateConsumptionParams(q) = ConsumptionParams(q)
  BY DEF UpdateConsumptionParams, ConsumptionParams
<1>. QED  BY <1>1, <1>2, <1>3 DEF Params, InsertParams, UpdateParams

\* What is accepted becomes a row that follows the rules and reads as the
\* request up to the rounding.
LEMMA AcceptedRow ==
    ASSUME table \in Tables, NEW o, NEW q, IsRequest(q), Accepted(o, q)
    PROVE  /\ IsRow(Params(o, q))
           /\ ColumnsTake(Params(o, q))
           /\ Kept(q, Read(Params(o, q)))
<1>1. Validate(q) /\ ColumnsTake(Params(o, q))
  BY DEF Accepted
<1>2. CASE table = "vehicle"
  <2>1. Params(o, q) = VehicleParams(q)
    BY <1>2, SameBindings
  <2>2. \A r : Read(r) = RowToVehicle(r)
    BY <1>2 DEF Read
  <2>3. q \in VehicleRequests /\ InRange(VehicleParams(q).BatteryCapacity)
    BY <1>1, <1>2, <2>1 DEF IsRequest, ColumnsTake
  <2>. QED  BY <1>1, <1>2, <2>1, <2>2, <2>3, VehicleStored DEF IsRow, Kept
<1>3. CASE table = "charging"
  <2>1. Params(o, q) = ChargeParams(q)
    BY <1>3, SameBindings
  <2>2. \A r : Read(r) = RowToCharging(r)
    BY <1>3 DEF Read
  <2>3. /\ q \in ChargingRequests /\ \A x, y \in q.service_fee : x = y
        /\ ValidateCharging(q)
    BY <1>1, <1>3 DEF IsRequest, Validate
  <2>4. /\ InRange(ChargeParams(q).KwhCharged) /\ InRange(ChargeParams(q).Cost)
        /\ InRange(ChargeParams(q).ElectricityUnitPrice)
        /\ \A x \in ChargeParams(q).ServiceFee : InRange(x)
        /\ ChargeParams(q).ChargerType # Null
        /\ ChargeParams(q).Location # TooLong
    BY <1>1, <1>3, <2>1 DEF ColumnsTake
  <2>. QED
    BY <1>1, <1>3, <2>1, <2>2, <2>3, <2>4, ChargingStored DEF IsRow, Kept
<1>4. CASE table = "consumption"
  <2>1. Params(o, q) = ConsumptionParams(q)
    BY <1>4, SameBindings
  <2>2. \A r : Read(r) = RowToConsumption(r)
    BY <1>4 DEF Read
  <2>3. /\ q \in ConsumptionRequests
        /\ ValidateConsumption(q)
    BY <1>1, <1>4 DEF IsRequest, Validate
  <2>4. /\ InRange(ConsumptionParams(q).HighestTemperature)
        /\ InRange(ConsumptionParams(q).LowestTemperature)
    BY <1>1, <1>4, <2>1 DEF ColumnsTake
  <2>. QED
    BY <1>1, <1>4, <2>1, <2>2, <2>3, <2>4, ConsumptionStored DEF IsRow, Kept
<1>. QED  BY <1>2, <1>3, <1>4 DEF Tables

\* What a row reads as is a request, and one that is refused only where the
\* rounding left a zero and changes nothing otherwise.
LEMMA RowWrittenBack ==
    ASSUME table \in Tables, NEW r, IsRow(r), ColumnsTake(r)
    PROVE  /\ IsRequest(Read(r))
           /\ IF Accepted("update", Read(r))
              THEN Read(Params("update", Read(r))) = Read(r)
              ELSE RoundedAway(r)
<1>1. CASE table = "vehicle"
  <2>1. \A x : /\ Read(x) = RowToVehicle(x)
               /\ Params("update", x) = VehicleParams(x)
    BY <1>1, SameBindings DEF Read
  <2>2. r \in VehicleRows /\ IsDay(r.PurchaseDate)
    BY <1>1 DEF IsRow, ColumnsTake
  <2>3. \A q : Accepted("update", q) <=>
           /\ InRange(VehicleParams(q).BatteryCapacity)
           /\ IsDay(VehicleParams(q).PurchaseDate)
    BY <1>1, <2>1 DEF Accepted, Validate, ColumnsTake
  <2>4. RoundedAway(r) <=> r.PurchaseDate.year > 9999
    BY <1>1 DEF RoundedAway
  <2>. QED
    BY <1>1, <2>1, <2>2, <2>3, <2>4, VehicleWrittenBack DEF IsRequest
<1>2. CASE table = "charging"
  <2>1. \A x : /\ Read(x) = RowToCharging(x)
               /\ Params("update", x) = ChargeParams(x)
    BY <1>2, SameBindings DEF Read
  <2>2. r \in ChargingRows /\ ChargingRules(r)
    BY <1>2 DEF IsRow
  <2>3. \A q : Accepted("update", q) <=>
           /\ ValidateCharging(q)
           /\ InRange(ChargeParams(q).KwhCharged)
           /\ InRange(ChargeParams(q).Cost)
           /\ InRange(ChargeParams(q).ElectricityUnitPrice)
           /\ \A x \in ChargeParams(q).ServiceFee : InRange(x)
           /\ ChargeParams(q).ChargerType # Null
           /\ ChargeParams(q).Location # TooLong
    BY <1>2, <2>1 DEF Accepted, Validate, ColumnsTake
  <2>4. RoundedAway(r) <=>
           \/ r.KwhCharged = 0 \/ r.Cost = 0
           \/ ParseTimestamp(r.StartTime) = ParseTimestamp(r.EndTime)
    BY <1>2 DEF RoundedAway
  <2>. QED
    BY <1>2, <2>1, <2>2, <2>3, <2>4, ChargingWrittenBack DEF IsRequest
<1>3. CASE table = "consumption"
  <2>1. \A x : /\ Read(x) = RowToConsumption(x)
               /\ Params("update", x) = ConsumptionParams(x)
    BY <1>3, SameBindings DEF Read
  <2>2. r \in ConsumptionRows /\ ConsumptionRules(r)
    BY <1>3 DEF IsRow
  <2>3. \A q : Accepted("update", q) <=>
           /\ ValidateConsumption(q)
           /\ InRange(ConsumptionParams(q).HighestTemperature)
           /\ InRange(ConsumptionParams(q).LowestTemperature)
    BY <1>3, <2>1 DEF Accepted, Validate, ColumnsTake
  <2>4. RoundedAway(r) <=>
           ParseTimestamp(r.Start) = ParseTimestamp(r.EndTime)
    BY <1>3 DEF RoundedAway
  <2>. QED
    BY <1>3, <2>1, <2>2, <2>3, <2>4, ConsumptionWrittenBack DEF IsRequest
<1>. QED  BY <1>1, <1>2, <1>3 DEF Tables

\* Whatever depends on the table only is the same after a step that leaves
\* the table alone.
LEMMA SameTable ==
    ASSUME UNCHANGED table
    PROVE  /\ \A r : ColumnsTake(r)' <=> ColumnsTake(r)
           /\ \A r : IsRow(r)' <=> IsRow(r)
           /\ \A r : Read(r)' = Read(r)
           /\ \A q, p : Kept(q, p)' <=> Kept(q, p)
<1>1. \A r : ColumnsTake(r)' <=> ColumnsTake(r)
  BY DEF ColumnsTake
<1>2. \A r : IsRow(r)' <=> IsRow(r)
  BY DEF IsRow
<1>3. \A r : Read(r)' = Read(r)
  BY DEF Read
<1>4. \A q, p : Kept(q, p)' <=> Kept(q, p)
  BY DEF Kept
<1>. QED  BY <1>1, <1>2, <1>3, <1>4

\* CreateX and UpdateX, accepted or refused.
LEMMA PutInv ==
    ASSUME RecordInv, NEW o \in {"create", "update"}, NEW q, IsRequest(q),
           Put(o, q)
    PROVE  RecordInv'
<1>1. table \in Tables /\ UNCHANGED table /\ op' = o
  BY DEF RecordInv, TypeOK, Put
<1>2. CASE Accepted(o, q)
  <2>1. /\ rows' = {Params(o, q)} /\ req' = {q} /\ reply' = {Read(Params(o, q))}
        /\ status' = "OK"
    BY <1>2 DEF Put
  <2>2. /\ IsRow(Params(o, q)) /\ ColumnsTake(Params(o, q))
        /\ Kept(q, Read(Params(o, q)))
    BY <1>1, <1>2, AcceptedRow
  <2>3. TypeOK'
    BY <1>1, <2>1, <2>2, SameTable DEF TypeOK
  <2>4. (\A r \in rows : IsRow(r))'
    BY <1>1, <2>1, <2>2, SameTable
  <2>5. AcceptedIsStored'
    BY <1>1, <2>1, <2>2, SameTable DEF AcceptedIsStored
  <2>. QED  BY <1>1, <2>1, <2>3, <2>4, <2>5 DEF RecordInv
<1>3. CASE ~Accepted(o, q)
  <2>1. rows' = rows /\ req' = {} /\ status' = "INVALID_ARGUMENT"
    BY <1>3 DEF Put
  <2>2. TypeOK'
    BY <1>1, <2>1, SameTable DEF RecordInv, TypeOK
  <2>3. (\A r \in rows : IsRow(r))'
    BY <1>1, <2>1, SameTable DEF RecordInv
  <2>4. AcceptedIsStored'
    BY <2>1 DEF AcceptedIsStored
  <2>. QED  BY <1>1, <2>1, <2>2, <2>3, <2>4 DEF RecordInv
<1>. QED  BY <1>2, <1>3

\* No row yet.
LEMMA InitRecordInv == Init => RecordInv
  BY DEF Init, RecordInv, TypeOK, AcceptedIsStored

\* Every RPC.
LEMMA NextRecordInv == RecordInv /\ [Next]_vars => RecordInv'
<1> SUFFICES ASSUME RecordInv, [Next]_vars PROVE RecordInv'
  OBVIOUS
<1>1. table \in Tables
  BY DEF RecordInv, TypeOK
<1>2. \A q \in Requests[table] : IsRequest(q)
  BY <1>1, RequestsAssumption DEF Tables, IsRequest
<1>3. CASE Create \/ Update
  BY <1>2, <1>3, PutInv DEF Create, Update
<1>4. CASE Get
  <2>1. /\ UNCHANGED <<table, rows>> /\ op' = "get" /\ req' = {}
        /\ status' = "OK" /\ reply' = { Read(r) : r \in rows }
    BY <1>4 DEF Get
  <2>2. reply' = { Read(r)' : r \in rows' }
    BY <2>1, SameTable
  <2>3. TypeOK'
    BY <1>1, <2>1, <2>2, SameTable DEF RecordInv, TypeOK
  <2>4. (\A r \in rows : IsRow(r))'
    BY <2>1, SameTable DEF RecordInv
  <2>5. AcceptedIsStored'
    BY <2>1 DEF AcceptedIsStored
  <2>. QED  BY <2>1, <2>3, <2>4, <2>5 DEF RecordInv
<1>5. CASE WriteBack
  <2>1. PICK q \in reply : Put("update", q)
    BY <1>5 DEF WriteBack
  <2>2. status = "OK" /\ op = "get"
    BY <1>5 DEF WriteBack, RecordInv
  <2>3. PICK r \in rows : q = Read(r)
    BY <2>1, <2>2 DEF RecordInv, TypeOK
  <2>4. IsRequest(q)
    BY <1>1, <2>3, RowWrittenBack DEF RecordInv, TypeOK
  <2>. QED  BY <2>1, <2>4, PutInv
<1>6. CASE UNCHANGED vars
  <2>1. UNCHANGED <<table, rows, op, req, status, reply>>
    BY <1>6 DEF vars
  <2>2. { Read(r) : r \in rows }' = { Read(r) : r \in rows }
    BY <2>1, SameTable
  <2>3. TypeOK'
    BY <2>1, <2>2, SameTable DEF RecordInv, TypeOK
  <2>4. (\A r \in rows : IsRow(r))'
    BY <2>1, SameTable DEF RecordInv
  <2>5. AcceptedIsStored'
    BY <2>1, SameTable DEF RecordInv, AcceptedIsStored
  <2>. QED  BY <2>1, <2>3, <2>4, <2>5 DEF RecordInv
<1>. QED  BY <1>3, <1>4, <1>5, <1>6 DEF Next

\* The inductive invariant of the records.
THEOREM RecordInvariant == Spec => []RecordInv
  BY InitRecordInv, NextRecordInv, PTL DEF Spec

\* Types, and that the columns take every row.
THEOREM RecordTypeCorrect == Spec => []TypeOK
<1>1. RecordInv => TypeOK
  BY DEF RecordInv
<1>. QED  BY <1>1, RecordInvariant, PTL

\* What the reports may rely on in every row, for every radix and request.
THEOREM StoredRowRulesHold == Spec => []StoredRowRules
<1>1. RecordInv => StoredRowRules
  <2> SUFFICES ASSUME RecordInv, NEW r \in rows
               PROVE  /\ table = "charging" =>
                           ChargingRules(r) /\ r.ChargerType \in {"fast", "slow"}
                      /\ table = "consumption" => ConsumptionRules(r)
    BY DEF StoredRowRules, ChargingRules, ConsumptionRules
  <2>. QED  BY DEF RecordInv, IsRow, ChargingRows
<1>. QED  BY <1>1, RecordInvariant, PTL

\* What is accepted is stored and read as it was sent, up to the rounding.
THEOREM AcceptedIsStoredHolds == Spec => []AcceptedIsStored
<1>1. RecordInv => AcceptedIsStored
  BY DEF RecordInv
<1>. QED  BY <1>1, RecordInvariant, PTL

\* A client that sends back what it read changes nothing, or is refused where
\* the rounding left a zero.
THEOREM WriteBackIsHarmlessHolds == Spec => []WriteBackIsHarmless
<1>1. RecordInv => WriteBackIsHarmless
  BY RowWrittenBack DEF RecordInv, TypeOK, WriteBackIsHarmless
<1>. QED  BY <1>1, RecordInvariant, PTL

=============================================================================
