------------------------- MODULE TimerManagerProofs -------------------------
(***************************************************************************)
(* Theorems about TimerManager, for every number and size of wheels, every *)
(* granularity and every set of delays that fit.                           *)
(***************************************************************************)
EXTENDS TimerManager, WellFoundedInduction, TLAPS

-----------------------------------------------------------------------------
(* Numbers. *)

\* A nonempty set of numbers has a least one: what induction needs here.
LEMMA Least ==
  ASSUME NEW T, T \subseteq Nat, T # {}
  PROVE  \E n \in T : \A m \in T : n <= m
<1>1. PICK n \in T : \A m \in T : ~(<<m, n>> \in OpToRel(<, Nat))
  BY NatLessThanWellFounded, WFMin
<1>2. ASSUME NEW m \in T PROVE n <= m
  <2>1. ASSUME m < n PROVE <<m, n>> \in OpToRel(<, Nat)
    <3>1. <<m, n>> \in Nat \X Nat /\ <<m, n>>[1] = m /\ <<m, n>>[2] = n
      OBVIOUS
    <3>2. <<m, n>>[1] < <<m, n>>[2]
      BY <2>1, <3>1
    <3>3. QED
      BY <3>1, <3>2 DEF OpToRel
  <2>2. m \in Nat /\ n \in Nat
    OBVIOUS
  <2>3. ~(m < n)
    BY <1>1, <2>1, Zenon
  <2>4. QED
    BY <2>2, <2>3
<1>3. QED
  BY <1>2

LEMMA Division ==
  ASSUME NEW a \in Nat, NEW b \in Nat \ {0}
  PROVE  /\ a \div b \in Nat
         /\ b * (a \div b) <= a /\ a < b * (a \div b) + b
         /\ a = b * (a \div b) + (a % b) /\ a % b \in 0 .. b - 1
OBVIOUS

LEMMA Quotient ==
  ASSUME NEW a \in Nat, NEW b \in Nat \ {0}, NEW q \in Nat,
         b * q <= a, a < b * q + b
  PROVE  a \div b = q
<1> DEFINE p == a \div b
<1>1. p \in Nat /\ b * p <= a /\ a < b * p + b
  BY Division
<1> HIDE DEF p
<1>2. CASE p < q
  <2>1. b * q >= b * (p + 1)
    BY <1>1, <1>2
  <2>2. b * (p + 1) = b * p + b
    BY <1>1
  <2>3. QED
    BY <1>1, <2>1, <2>2
<1>3. CASE p > q
  <2>1. b * p >= b * (q + 1)
    BY <1>1, <1>3
  <2>2. b * (q + 1) = b * q + b
    OBVIOUS
  <2>3. QED
    BY <1>1, <2>1, <2>2
<1>4. QED
  BY <1>1, <1>2, <1>3 DEF p

LEMMA StillBefore ==
  ASSUME NEW a \in Nat, NEW b \in Nat, NEW m \in Nat, NEW x \in Nat, x <= a + m, a <= b
  PROVE  x <= b + m
OBVIOUS

\* An index that has passed the end of the wheel once.
LEMMA Wrapped ==
  ASSUME NEW a \in Nat, NEW b \in Nat \ {0}, a < 2 * b
  PROVE  a % b = IF a < b THEN a ELSE a - b
<1> DEFINE q == a \div b
           r == a % b
<1>1. a = b * q + r /\ r \in 0 .. b - 1 /\ q \in Nat
  BY Division
<1> HIDE DEF q, r
<1>2. CASE q = 0
  BY <1>1, <1>2 DEF r
<1>3. CASE q = 1
  BY <1>1, <1>3 DEF r
<1>4. CASE q >= 2
  <2>1. b * q >= b * 2
    BY <1>1, <1>4
  <2>2. QED
    BY <1>1, <2>1
<1>5. QED
  BY <1>1, <1>2, <1>3, <1>4

-----------------------------------------------------------------------------
(***************************************************************************)
(* The wheels: what the recursive table of thresholds contains, and which  *)
(* wheel and spoke addTimerNode() chooses.                                 *)
(***************************************************************************)
LEMMA Sizes ==
  /\ WHEEL_NUM \in Nat /\ WHEEL_NUM >= 2 /\ Wheels = 0 .. WHEEL_NUM - 1
  /\ \A k \in Wheels : Size(k) \in Nat \ {0}
  /\ Size(0) = WHEEL_SIZE1 /\ WHEEL_SIZE1 \in Nat \ {0}
  /\ \A k \in Wheels : k # 0 => Size(k) = WHEEL_SIZE2
  /\ GRANULARITY \in Nat \ {0} /\ MaxLag \in Nat /\ None \notin Timers
  /\ Delays \subseteq Nat /\ Steps \subseteq Nat
BY SizesArePositive DEF Wheels, Size

\* A table of the first thresholds.
Table(n, g) ==
  /\ g \in [0 .. n -> Nat \ {0}]
  /\ g[0] = 1
  /\ \A k \in 0 .. n - 1 : g[k + 1] = Size(k) * g[k]

LEMMA TablesExist == \E g : Table(WHEEL_NUM, g)
<1> DEFINE Missing == {n \in 0 .. WHEEL_NUM : ~(\E g : Table(n, g))}
<1>1. WHEEL_NUM \in 0 .. WHEEL_NUM
  BY Sizes
<1>2. ASSUME Missing # {}
      PROVE  FALSE
  <2>1. Missing \subseteq Nat
    OBVIOUS
  <2>2. PICK n \in Missing : \A m \in Missing : n <= m
    BY <1>2, <2>1, Least, Zenon
  <2>3. n # 0
    <3>1. Table(0, [k \in 0 .. 0 |-> 1])
      BY DEF Table
    <3>2. QED
      BY <3>1
  <2>4. n \in Nat /\ n - 1 \in 0 .. WHEEL_NUM /\ n - 1 \in Wheels
    BY <2>3, Sizes
  <2>5. n - 1 \notin Missing
    BY <2>2, <2>4
  <2>6. PICK g : Table(n - 1, g)
    BY <2>4, <2>5
  <2> DEFINE h == [k \in 0 .. n |-> IF k = n THEN Size(n - 1) * g[n - 1] ELSE g[k]]
  <2>7. Table(n, h)
    <3>1. Size(n - 1) \in Nat \ {0} /\ g[n - 1] \in Nat \ {0}
      BY <2>4, <2>6, Sizes DEF Table
    <3>2. Size(n - 1) * g[n - 1] \in Nat \ {0}
      BY <3>1
    <3>3. h \in [0 .. n -> Nat \ {0}]
      BY <2>4, <2>6, <3>2 DEF Table
    <3>4. h[0] = 1
      BY <2>3, <2>4, <2>6 DEF Table
    <3>5. ASSUME NEW k \in 0 .. n - 1
          PROVE  h[k + 1] = Size(k) * h[k]
      <4>1. CASE k = n - 1
        BY <2>4, <4>1
      <4>2. CASE k # n - 1
        <5>1. k \in 0 .. (n - 1) - 1 /\ k + 1 # n /\ k # n /\ k + 1 \in 0 .. n /\ k \in 0 .. n
          BY <2>4, <4>2
        <5>2. g[k + 1] = Size(k) * g[k]
          BY <2>6, <5>1 DEF Table
        <5>3. QED
          BY <5>1, <5>2
      <4>3. QED
        BY <4>1, <4>2
    <3>6. QED
      BY <3>3, <3>4, <3>5 DEF Table
  <2>8. QED
    BY <2>2, <2>7
<1>3. QED
  BY <1>1, <1>2

LEMMA ThresholdsMultiply ==
  /\ \A k \in 0 .. WHEEL_NUM : Threshold[k] \in Nat \ {0}
  /\ Threshold[0] = 1
  /\ \A k \in Wheels : Threshold[k + 1] = Size(k) * Threshold[k]
<1> DEFINE Step(f) == [k \in 0 .. WHEEL_NUM |-> IF k = 0 THEN 1 ELSE Size(k - 1) * f[k - 1]]
<1>1. PICK g : Table(WHEEL_NUM, g)
  BY TablesExist
<1>2. g = Step(g)
  <2>1. ASSUME NEW k \in 0 .. WHEEL_NUM
        PROVE  g[k] = Step(g)[k]
    <3>1. CASE k = 0
      BY <1>1, <3>1 DEF Table
    <3>2. CASE k # 0
      <4>1. k - 1 \in 0 .. WHEEL_NUM - 1 /\ (k - 1) + 1 = k
        BY <3>2, Sizes
      <4>2. g[(k - 1) + 1] = Size(k - 1) * g[k - 1]
        BY <1>1, <4>1 DEF Table
      <4>3. QED
        BY <3>2, <4>1, <4>2
    <3>3. QED
      BY <3>1, <3>2
  <2>2. QED
    BY <1>1, <2>1 DEF Table
<1>3. Threshold = Step(Threshold)
  <2>1. Threshold = CHOOSE f : f = Step(f)
    BY DEF Threshold
  <2> HIDE DEF Step
  <2>2. QED
    BY <1>2, <2>1
<1>4. Threshold[0] = 1
  BY <1>3, Sizes
<1>5. ASSUME NEW k \in Wheels
      PROVE  Threshold[k + 1] = Size(k) * Threshold[k]
  <2>1. k + 1 \in 0 .. WHEEL_NUM /\ k + 1 # 0 /\ (k + 1) - 1 = k
    BY Sizes
  <2>2. Step(Threshold)[k + 1] = Size((k + 1) - 1) * Threshold[(k + 1) - 1]
    BY <2>1
  <2>3. QED
    BY <1>3, <2>1, <2>2
<1> HIDE DEF Step
<1> DEFINE Bad == {k \in 0 .. WHEEL_NUM : Threshold[k] \notin Nat \ {0}}
<1>6. ASSUME Bad # {}
      PROVE  FALSE
  <2>1. PICK k \in Bad : \A j \in Bad : k <= j
    <3>1. Bad \subseteq Nat
      OBVIOUS
    <3>2. QED
      BY <1>6, <3>1, Least, Zenon
  <2>2. k # 0
    BY <1>4
  <2>3. k - 1 \in Wheels /\ k - 1 \in 0 .. WHEEL_NUM /\ (k - 1) + 1 = k /\ ~(k <= k - 1)
    BY <2>2, Sizes
  <2>4. Threshold[k - 1] \in Nat \ {0}
    BY <2>1, <2>3
  <2>5. Threshold[k] = Size(k - 1) * Threshold[k - 1]
    BY <1>5, <2>3
  <2>6. Size(k - 1) \in Nat \ {0}
    BY <2>3, Sizes
  <2>7. Threshold[k] \in Nat \ {0}
    BY <2>4, <2>5, <2>6
  <2>8. QED
    BY <2>7
<1>7. QED
  BY <1>4, <1>5, <1>6

LEMMA ThresholdsPositive == \A k \in Wheels : Threshold[k] \in Nat \ {0}
<1>1. \A k \in Wheels : k \in 0 .. WHEEL_NUM
  BY Sizes
<1>2. QED
  BY <1>1, ThresholdsMultiply

LEMMA WheelChosen ==
  ASSUME NEW ticks \in Nat, NEW k, k = WheelOf(ticks)
  PROVE  /\ k \in Wheels
         /\ k > 0 => ticks >= Threshold[k]
         /\ k < WHEEL_NUM - 1 => ticks < Threshold[k + 1]
<1> DEFINE Covers == {w \in Wheels : w < WHEEL_NUM - 1 => ticks < Threshold[w + 1]}
<1>1. WHEEL_NUM - 1 \in Covers /\ Covers \subseteq Nat
  BY Sizes
<1>2. PICK w \in Covers : \A v \in Covers : w <= v
  BY <1>1, Least, Zenon
<1>3. ASSUME w > 0
      PROVE  ticks >= Threshold[w]
  <2>1. w - 1 \in Wheels /\ w - 1 < WHEEL_NUM - 1 /\ (w - 1) + 1 = w /\ ~(w <= w - 1)
    BY <1>3, Sizes
  <2>2. ~(ticks < Threshold[w])
    BY <1>2, <2>1
  <2>3. Threshold[w] \in Nat
    BY ThresholdsMultiply, Sizes
  <2>4. QED
    BY <2>2, <2>3
<1>4. QED
  BY <1>2, <1>3 DEF WheelOf

LEMMA SlotsArePairs ==
  /\ \A s \in Slots : /\ s[1] \in Wheels /\ s[2] \in 0 .. Size(s[1]) - 1
                      /\ s = <<s[1], s[2]>>
  /\ \A k \in Wheels : \A i \in 0 .. Size(k) - 1 : <<k, i>> \in Slots
BY DEF Slots

\* How many spokes the wheel of a slot has to turn until it comes to it.
Gap(s, from) == IF s[2] >= from THEN s[2] - from ELSE s[2] - from + Size(s[1])

\* cascade() comes to a spoke at the end of it.
Whole(k) == IF k = 0 THEN 0 ELSE 1

\* addTimerNode(): the spoke is in the wheel, less than a turn ahead, not after the
\* delay has passed, and in wheel 0 not before.
LEMMA SlotFits ==
  ASSUME NEW d \in Nat, d < GRANULARITY * Threshold[WHEEL_NUM],
         NEW index \in [Wheels -> Nat], \A w \in Wheels : index[w] <= Size(w),
         NEW s, s = SlotOf(d, index),
         NEW k, k = s[1],
         NEW gap, gap = Gap(s, IF index[k] = Size(k) THEN 0 ELSE index[k])
  PROVE  /\ s \in Slots /\ k \in Wheels
         /\ gap \in Nat /\ gap < Size(k) /\ (k # 0 => gap < Size(k) - 1)
         /\ k = 0 => d < GRANULARITY * (gap + 1)
         /\ GRANULARITY * (Threshold[k] * (gap + Whole(k))) <= d
<1> DEFINE ticks == Ticks(d)
           w == WheelOf(ticks)
<1>1. /\ ticks \in Nat
      /\ GRANULARITY * ticks <= d /\ d < GRANULARITY * ticks + GRANULARITY
  BY Division, Sizes DEF Ticks
<1>2. /\ w \in Wheels
      /\ w > 0 => ticks >= Threshold[w]
      /\ w < WHEEL_NUM - 1 => ticks < Threshold[w + 1]
  BY <1>1, WheelChosen
<1>3. s = IF w = 0 THEN <<0, (ticks + index[0]) % WHEEL_SIZE1>>
          ELSE <<w, ((Ahead(ticks, w) + index[w] * Threshold[w])
                       \div Threshold[w]) % WHEEL_SIZE2>>
  BY DEF SlotOf
<1>4. k = w
  BY <1>3
<1> HIDE DEF ticks, w
<1>5. /\ Threshold[k] \in Nat \ {0} /\ Threshold[k + 1] = Size(k) * Threshold[k]
      /\ Size(k) \in Nat \ {0} /\ index[k] \in Nat /\ index[k] <= Size(k)
      /\ GRANULARITY \in Nat \ {0} /\ k \in Nat
  BY <1>2, <1>4, ThresholdsMultiply, Sizes
<1>6. ticks < Size(k) * Threshold[k]
  <2>1. CASE k < WHEEL_NUM - 1
    BY <1>2, <1>4, <1>5, <2>1
  <2>2. CASE ~(k < WHEEL_NUM - 1)
    <3>1. k + 1 = WHEEL_NUM
      BY <1>2, <1>4, <2>2, Sizes
    <3>2. Threshold[WHEEL_NUM] \in Nat
      BY ThresholdsMultiply, Sizes
    <3>3. GRANULARITY * ticks < GRANULARITY * Threshold[WHEEL_NUM]
      BY <1>1, <1>5, <3>2
    <3>4. ticks < Threshold[WHEEL_NUM]
      BY <1>1, <1>5, <3>2, <3>3
    <3>5. QED
      BY <1>5, <3>1, <3>4
  <2>3. QED
    BY <2>1, <2>2
\* where the spoke is, once it is known how far ahead
<1>7. ASSUME NEW ahead \in Nat, ahead < Size(k), s = <<k, (ahead + index[k]) % Size(k)>>
      PROVE  s \in Slots /\ gap = ahead
  <2> DEFINE at == ahead + index[k]
  <2>1. at \in Nat /\ at < 2 * Size(k)
    BY <1>5, <1>7
  <2>2. at % Size(k) = IF at < Size(k) THEN at ELSE at - Size(k)
    BY <1>5, <2>1, Wrapped
  <2>3. s[2] = IF at < Size(k) THEN at ELSE at - Size(k)
    BY <1>7, <2>2
  <2>4. s \in Slots
    <3>1. s[2] \in 0 .. Size(k) - 1
      BY <1>5, <2>1, <2>3
    <3>2. QED
      BY <1>2, <1>4, <1>7, <3>1, SlotsArePairs
  <2>5. gap = ahead
    BY <1>5, <1>7, <2>3 DEF Gap
  <2>6. QED
    BY <2>4, <2>5
<1>8. CASE k = 0
  <2>1. Threshold[k] = 1 /\ Size(k) = WHEEL_SIZE1
    BY <1>8, ThresholdsMultiply, Sizes
  <2>2. ticks < Size(k)
    BY <1>1, <1>5, <1>6, <2>1
  <2>3. s \in Slots /\ gap = ticks
    BY <1>1, <1>3, <1>4, <1>7, <1>8, <2>1, <2>2
  <2>4. GRANULARITY * (ticks + 1) = GRANULARITY * ticks + GRANULARITY
    BY <1>1, <1>5
  <2>5. Threshold[k] * (gap + Whole(k)) = ticks
    BY <1>1, <1>8, <2>1, <2>3 DEF Whole
  <2>6. QED
    BY <1>1, <1>2, <1>4, <1>8, <2>2, <2>3, <2>4, <2>5
<1>9. CASE k # 0
  <2> DEFINE q == ticks \div Threshold[k]
  <2>1. q \in Nat /\ Threshold[k] * q <= ticks /\ ticks < Threshold[k] * q + Threshold[k]
    BY <1>1, <1>5, Division
  <2> HIDE DEF q
  <2>2. q >= 1
    <3>1. ticks >= Threshold[k]
      BY <1>2, <1>4, <1>5, <1>9
    <3>2. QED
      BY <1>1, <1>5, <2>1, <3>1
  <2>3. q < Size(k)
    <3>1. ASSUME q >= Size(k)
          PROVE  FALSE
      <4>1. Threshold[k] * q >= Threshold[k] * Size(k)
        BY <1>5, <2>1, <3>1
      <4>2. QED
        BY <1>1, <1>5, <1>6, <2>1, <4>1
    <3>2. QED
      BY <1>5, <2>1, <3>1
  <2>4. (Ahead(ticks, k) + index[k] * Threshold[k]) \div Threshold[k] = (q - 1) + index[k]
    <3> DEFINE a == Ahead(ticks, k) + index[k] * Threshold[k]
    <3>1. /\ Threshold[k] * ((q - 1) + index[k])
               = Threshold[k] * q - Threshold[k] + index[k] * Threshold[k]
          /\ index[k] * Threshold[k] \in Nat
          /\ (q - 1) + index[k] \in Nat
      BY <1>5, <2>1, <2>2
    <3>2. a = ticks - Threshold[k] + index[k] * Threshold[k]
      BY DEF Ahead
    <3>3. /\ a \in Nat
          /\ Threshold[k] * ((q - 1) + index[k]) <= a
          /\ a < Threshold[k] * ((q - 1) + index[k]) + Threshold[k]
      <4>1. ticks >= Threshold[k]
        BY <1>2, <1>4, <1>5, <1>9
      <4>2. QED
        BY <1>1, <1>5, <2>1, <3>1, <3>2, <4>1
    <3> HIDE DEF a
    <3>4. a \div Threshold[k] = (q - 1) + index[k]
      BY <1>5, <3>1, <3>3, Quotient
    <3>5. QED
      BY <3>4 DEF a
  <2>5. Size(k) = WHEEL_SIZE2
    BY <1>2, <1>4, <1>9, Sizes
  <2>6. q - 1 \in Nat /\ q - 1 < Size(k) - 1 /\ q - 1 < Size(k)
    BY <1>5, <2>1, <2>2, <2>3
  <2>7. s = <<k, ((q - 1) + index[k]) % Size(k)>>
    BY <1>3, <1>4, <1>9, <2>4, <2>5
  <2>8. s \in Slots /\ gap = q - 1
    BY <1>7, <2>6, <2>7
  <2>9. GRANULARITY * (Threshold[k] * (gap + Whole(k))) <= d
    <3>1. gap + Whole(k) = q
      BY <1>9, <2>1, <2>8 DEF Whole
    <3>2. Threshold[k] * q \in Nat
      BY <1>5, <2>1
    <3>3. GRANULARITY * (Threshold[k] * q) <= GRANULARITY * ticks
      BY <1>1, <1>5, <2>1, <3>2
    <3>4. GRANULARITY * (Threshold[k] * q) \in Nat /\ GRANULARITY * ticks \in Nat
      BY <1>1, <1>5, <3>2
    <3>5. QED
      BY <1>1, <3>1, <3>3, <3>4
  <2>10. QED
    BY <1>2, <1>4, <1>9, <2>6, <2>8, <2>9
<1>10. QED
  BY <1>8, <1>9

\* ... so that, counted from a position of the wheels that is not after base, the
\* wheels come to it before the delay has passed since base.
LEMMA PlacedInTime ==
  ASSUME NEW d \in Nat, d < GRANULARITY * Threshold[WHEEL_NUM],
         NEW index \in [Wheels -> Nat], \A w \in Wheels : index[w] <= Size(w),
         NEW s, s = SlotOf(d, index),
         NEW k, k = s[1],
         NEW gap, gap = Gap(s, IF index[k] = Size(k) THEN 0 ELSE index[k]),
         NEW x \in Nat, NEW base \in Int, GRANULARITY * (Threshold[k] * x) <= base
  PROVE  GRANULARITY * (Threshold[k] * (x + gap + Whole(k))) <= base + d
<1>1. /\ k \in Wheels /\ gap \in Nat
      /\ GRANULARITY * (Threshold[k] * (gap + Whole(k))) <= d
  BY SlotFits
<1>2. Threshold[k] \in Nat /\ GRANULARITY \in Nat /\ Whole(k) \in Nat
  <2>1. Threshold[k] \in Nat \ {0}
    BY <1>1, ThresholdsPositive
  <2>2. GRANULARITY \in Nat \ {0}
    BY Sizes
  <2>3. Whole(k) \in Nat
    BY DEF Whole
  <2>4. QED
    BY <2>1, <2>2, <2>3
<1> DEFINE y == gap + Whole(k)
<1>3. y \in Nat /\ x + gap + Whole(k) = x + y
  BY <1>1, <1>2
<1>4. GRANULARITY * (Threshold[k] * y) <= d
  BY <1>1
<1> HIDE DEF y
<1>5. /\ Threshold[k] * (x + y) = Threshold[k] * x + Threshold[k] * y
      /\ Threshold[k] * x \in Nat /\ Threshold[k] * y \in Nat
  BY <1>2, <1>3
<1>6. GRANULARITY * (Threshold[k] * x + Threshold[k] * y)
        = GRANULARITY * (Threshold[k] * x) + GRANULARITY * (Threshold[k] * y)
  BY <1>2, <1>5
<1>7. /\ GRANULARITY * (Threshold[k] * x) \in Nat
      /\ GRANULARITY * (Threshold[k] * y) \in Nat
  BY <1>2, <1>5
<1>8. QED
  BY <1>3, <1>4, <1>5, <1>6, <1>7

-----------------------------------------------------------------------------
(***************************************************************************)
(* The inductive invariant.                                                *)
(***************************************************************************)

\* Every timer is in one of the lists, and the lists have no others.
Filed ==
  /\ \A s \in Slots : spokes_[s] \subseteq Live
  /\ readyTimers_ \subseteq Live
  /\ current # None => current \in Live
  /\ \A t \in Live : t = current \/ t \in readyTimers_ \/ \E s \in Slots : t \in spokes_[s]
  /\ NeverInTwoPlaces

\* The wheels turn when detectTimer() turns them, up to the time it was given.
StagesFit ==
  /\ pc \in {"ticks", "cascade"} =>
        /\ nowTime_ < checkTime_ + GRANULARITY * (ticksLeft + 1)
        /\ ticksLeft > 0 => nowTime_ >= checkTime_ + GRANULARITY * ticksLeft
  /\ pc = "cascade" => ticksLeft > 0 /\ cascading >= 1
  /\ pc \in {"ready", "outside"} => nowTime_ < checkTime_ + GRANULARITY
  /\ current # None => pc = "ready"
  /\ readyTimers_ # {} => pc \in {"ticks", "cascade", "ready"}

\* How far ahead of the wheels the clock and the deadlines can be.
ClocksFit ==
  /\ clock <= checkTime_ + MaxLag
  /\ pollReturn <= checkTime_ + MaxLag
  /\ nowTime_ <= checkTime_ + MaxLag
  /\ \A t \in Live : /\ timerMap_[t].interval \in Delays
                     /\ timerMap_[t].deadTime
                          <= checkTime_ + MaxLag + timerMap_[t].interval

\* The time wheel 0 has been turned to.
Base == IF pc = "cascade" THEN checkTime_ + GRANULARITY ELSE checkTime_

\* Is wheel k to be turned in the tick under way?
Owed(k) == IF pc = "cascade" /\ k = cascading THEN 1 ELSE 0

Before(t) == IF lag[t] > 0 THEN lag[t] ELSE 0
After(t)  == IF lag[t] < 0 THEN -lag[t] ELSE 0

Distance(s) == Gap(s, spokeIndex_[s[1]])

\* A timer does not leave wheel 0, nor wait to be called, before its deadline,
\* unless the wheels were behind when it was placed.
EarlySpokes ==
  \A s \in Slots : \A t \in spokes_[s] :
    s[1] = 0 => timerMap_[t].deadTime - Before(t) <= Base + GRANULARITY * (Distance(s) + 1)
EarlyReady ==
  \A t \in readyTimers_ \cup ({current} \ {None}) :
    timerMap_[t].deadTime - Before(t) <= nowTime_

\* How often each wheel has been turned since the start, and up to when.
TurnsFit(turn) ==
  /\ Base = GRANULARITY * turn[0]
  /\ \A k \in Wheels : k < WHEEL_NUM - 1 =>
       turn[k] = Size(k) * (turn[k + 1] + Owed(k + 1)) + spokeIndex_[k]
  /\ \A k \in Wheels : GRANULARITY * (Threshold[k] * turn[k]) <= Base

\* The number of the tick in which the wheels come to a spoke.
TickOf(turn, s) == Threshold[s[1]] * (turn[s[1]] + Distance(s) + Whole(s[1]))

\* The wheels come to a timer before its deadline, unless they were ahead when it
\* was placed.
LateSpokes(turn) ==
  \A s \in Slots : \A t \in spokes_[s] :
    GRANULARITY * TickOf(turn, s) <= timerMap_[t].deadTime + After(t)

TurnsAgree == \E turn \in [Wheels -> Nat] : TurnsFit(turn) /\ LateSpokes(turn)

Inv ==
  /\ TypeOK /\ Filed
  /\ StagesFit /\ ClocksFit
  /\ EarlySpokes /\ EarlyReady
  /\ TurnsAgree

-----------------------------------------------------------------------------
(* What the types say, where a part of them is enough. *)

LEMMA Places ==
  ASSUME TypeOK
  PROVE  /\ spokeIndex_ \in [Wheels -> Nat]
         /\ \A k \in Wheels : spokeIndex_[k] \in Nat /\ spokeIndex_[k] < Size(k)
         /\ \A s \in Slots : /\ s[1] \in Wheels
                             /\ Distance(s) \in Nat /\ Distance(s) < Size(s[1])
                             /\ Distance(s) = 0 <=> s = <<s[1], spokeIndex_[s[1]]>>
<1>1. /\ spokeIndex_ \in [Wheels -> Nat]
      /\ \A k \in Wheels : spokeIndex_[k] \in Nat /\ spokeIndex_[k] < Size(k)
  BY DEF TypeOK
<1>2. ASSUME NEW s \in Slots
      PROVE  /\ s[1] \in Wheels
             /\ Distance(s) \in Nat /\ Distance(s) < Size(s[1])
             /\ Distance(s) = 0 <=> s = <<s[1], spokeIndex_[s[1]]>>
  <2>1. s[1] \in Wheels /\ s[2] \in 0 .. Size(s[1]) - 1 /\ s = <<s[1], s[2]>>
    BY SlotsArePairs
  <2>2. Distance(s) \in Nat /\ Distance(s) < Size(s[1])
        /\ (Distance(s) = 0 <=> s[2] = spokeIndex_[s[1]])
    BY <1>1, <2>1, Sizes DEF Distance, Gap
  <2>3. QED
    BY <2>1, <2>2
<1>3. QED
  BY <1>1, <1>2

LEMMA Kept ==
  ASSUME TypeOK
  PROVE  \A t \in Live : /\ t \in Timers
                         /\ timerMap_[t].deadTime \in Nat /\ timerMap_[t].interval \in Nat
                         /\ timerMap_[t].type \in Types
                         /\ lag[t] \in Int
                         /\ Before(t) \in Nat /\ Before(t) >= lag[t]
                         /\ After(t) \in Nat /\ After(t) >= -lag[t]
BY DEF TypeOK, Before, After

LEMMA FiledIsEnough ==
  ASSUME TypeOK, Filed
  PROVE  EachInOnePlace
<1>1. Linked \subseteq Live
  BY DEF Filed, Linked
<1>2. Live \subseteq Linked
  <2>1. ASSUME NEW t \in Live
        PROVE  t \in Linked
    <3>1. t \in Timers /\ t # None
      BY Kept, Sizes
    <3>2. QED
      BY <3>1 DEF Filed, Linked
  <2>2. QED
    BY <2>1
<1>3. QED
  BY <1>1, <1>2 DEF EachInOnePlace, Filed

\* Delays that are asked for, and what is left of them, fit into the wheels.
LEMMA DelaysAreShort ==
  ASSUME NEW d \in Delays
  PROVE  /\ d \in Nat
         /\ \A e \in Nat : e <= d + MaxLag => e < GRANULARITY * Threshold[WHEEL_NUM]
<1>1. d + MaxLag < GRANULARITY * Threshold[WHEEL_NUM]
  BY DelaysFit
<1>2. Threshold[WHEEL_NUM] \in Nat
  BY ThresholdsMultiply, Sizes
<1>3. GRANULARITY * Threshold[WHEEL_NUM] \in Nat
  BY <1>2, Sizes
<1>4. QED
  BY <1>1, <1>3, Sizes

-----------------------------------------------------------------------------
(* Steps that do not turn a wheel. *)

\* addTimerNode() has put a timer that is due a delay after a given time there.
Placed(t, s) ==
  \E d \in Delays, at \in Nat :
    /\ timerMap_'[t].deadTime = at + d
    /\ lag'[t] = at - checkTime_
    /\ s = SlotOf(d, spokeIndex_)

\* What is in a spoke was there before, or has just been placed.
Followed ==
  /\ UNCHANGED <<spokeIndex_, checkTime_, cascading>>
  /\ pc' = "cascade" <=> pc = "cascade"
  /\ \A s \in Slots : \A t \in spokes_'[s] :
       \/ /\ t \in spokes_[s]
          /\ timerMap_'[t].deadTime = timerMap_[t].deadTime
          /\ lag'[t] = lag[t]
       \/ pc # "cascade" /\ Placed(t, s)

LEMMA SpokesFollow ==
  ASSUME TypeOK, TypeOK', EarlySpokes, TurnsAgree, Followed
  PROVE  EarlySpokes' /\ TurnsAgree'
<1>1. PICK turn \in [Wheels -> Nat] : TurnsFit(turn) /\ LateSpokes(turn)
  BY DEF TurnsAgree
<1>2. /\ spokeIndex_' = spokeIndex_ /\ checkTime_' = checkTime_ /\ cascading' = cascading
      /\ Base' = Base /\ checkTime_ \in Nat /\ Base \in Nat
  BY Sizes DEF Followed, Base, TypeOK
<1>3. /\ \A s : Distance(s)' = Distance(s) /\ TickOf(turn, s)' = TickOf(turn, s)
      /\ \A k : Owed(k)' = Owed(k)
  BY <1>2 DEF Followed, Distance, TickOf, Owed
<1>4. TurnsFit(turn)'
  <2> HIDE DEF Base, Owed
  <2>1. QED
    BY <1>1, <1>2, <1>3 DEF TurnsFit
<1>5. ASSUME NEW s \in Slots, NEW t \in spokes_'[s], pc # "cascade", Placed(t, s)
      PROVE  /\ s[1] = 0 => timerMap_'[t].deadTime - Before(t)' <= Base + GRANULARITY * (Distance(s) + 1)
             /\ GRANULARITY * TickOf(turn, s) <= timerMap_'[t].deadTime + After(t)'
  <2>1. PICK d \in Delays, at \in Nat : /\ timerMap_'[t].deadTime = at + d
                                        /\ lag'[t] = at - checkTime_
                                        /\ s = SlotOf(d, spokeIndex_)
    BY <1>5 DEF Placed
  <2> DEFINE k == s[1]
             gap == Gap(s, IF spokeIndex_[k] = Size(k) THEN 0 ELSE spokeIndex_[k])
  <2>2. d \in Nat /\ d < GRANULARITY * Threshold[WHEEL_NUM]
    BY DelaysAreShort, Sizes
  <2>3. /\ spokeIndex_ \in [Wheels -> Nat] /\ k \in Wheels
        /\ \A w \in Wheels : spokeIndex_[w] <= Size(w) /\ spokeIndex_[w] # Size(w)
    <3>1. /\ spokeIndex_ \in [Wheels -> Nat] /\ k \in Wheels
          /\ \A w \in Wheels : spokeIndex_[w] \in Nat /\ spokeIndex_[w] < Size(w)
      BY Places, SlotsArePairs
    <3>2. \A w \in Wheels : Size(w) \in Nat
      BY Sizes
    <3>3. QED
      BY <3>1, <3>2
  <2>4. gap = Distance(s)
    BY <2>3 DEF Distance
  <2>5. k = 0 => d < GRANULARITY * (gap + 1)
    <3> HIDE DEF gap, k
    <3>1. gap = Gap(s, IF spokeIndex_[k] = Size(k) THEN 0 ELSE spokeIndex_[k]) /\ k = s[1]
      BY DEF gap, k
    <3>2. QED
      BY <2>1, <2>2, <2>3, <3>1, SlotFits
  <2>6. GRANULARITY * (Threshold[k] * turn[k]) <= Base /\ Base = checkTime_ /\ turn[k] \in Nat
    BY <1>1, <1>5, <2>3 DEF TurnsFit, Base
  <2>7. GRANULARITY * (Threshold[k] * (turn[k] + gap + Whole(k))) <= checkTime_ + d
    <3> HIDE DEF gap, k
    <3>1. checkTime_ \in Int /\ GRANULARITY * (Threshold[k] * turn[k]) <= checkTime_
      BY <1>2, <2>6
    <3>2. gap = Gap(s, IF spokeIndex_[k] = Size(k) THEN 0 ELSE spokeIndex_[k]) /\ k = s[1]
      BY DEF gap, k
    <3>3. QED
      BY <2>1, <2>2, <2>3, <2>6, <3>1, <3>2, PlacedInTime
  <2>8. GRANULARITY * TickOf(turn, s) <= checkTime_ + d
    BY <2>4, <2>7 DEF TickOf
  <2>9. /\ Before(t)' \in Nat /\ Before(t)' >= at - checkTime_
        /\ After(t)' \in Nat /\ After(t)' >= checkTime_ - at
    BY <1>2, <2>1 DEF Before, After
  <2>10. GRANULARITY * TickOf(turn, s) \in Nat
    <3>1. Threshold[k] \in Nat \ {0} /\ GRANULARITY \in Nat \ {0}
      BY <2>3, ThresholdsPositive, Sizes
    <3>2. Distance(s) \in Nat /\ Whole(k) \in Nat
      BY Places DEF Whole
    <3>3. turn[k] + Distance(s) + Whole(k) \in Nat
      BY <2>6, <3>2
    <3>4. Threshold[k] * (turn[k] + Distance(s) + Whole(k)) \in Nat
      BY <3>1, <3>3
    <3>5. QED
      BY <3>1, <3>4 DEF TickOf
  <2>11. GRANULARITY * TickOf(turn, s) <= timerMap_'[t].deadTime + After(t)'
    BY <1>2, <2>1, <2>2, <2>8, <2>9, <2>10
  <2>12. CASE k = 0
    <3>1. GRANULARITY * (Distance(s) + 1) \in Nat
      BY Places, Sizes
    <3>2. d < GRANULARITY * (Distance(s) + 1)
      BY <2>4, <2>5, <2>12
    <3>3. QED
      BY <1>2, <2>1, <2>2, <2>6, <2>9, <2>11, <3>1, <3>2
  <2>13. QED
    BY <2>11, <2>12
<1>6. EarlySpokes'
  <2>1. ASSUME NEW s \in Slots, NEW t \in spokes_'[s], s[1] = 0
        PROVE  timerMap_'[t].deadTime - Before(t)' <= Base' + GRANULARITY * (Distance(s)' + 1)
    <3>1. CASE t \in spokes_[s] /\ timerMap_'[t].deadTime = timerMap_[t].deadTime /\ lag'[t] = lag[t]
      <4>1. Before(t)' = Before(t)
        BY <3>1 DEF Before
      <4>2. timerMap_[t].deadTime - Before(t) <= Base + GRANULARITY * (Distance(s) + 1)
        BY <2>1, <3>1 DEF EarlySpokes
      <4>3. QED
        BY <1>2, <1>3, <3>1, <4>1, <4>2
    <3>2. CASE pc # "cascade" /\ Placed(t, s)
      BY <1>2, <1>3, <1>5, <2>1, <3>2
    <3>3. QED
      BY <2>1, <3>1, <3>2 DEF Followed
  <2>2. QED
    BY <2>1 DEF EarlySpokes
<1>7. LateSpokes(turn)'
  <2>1. ASSUME NEW s \in Slots, NEW t \in spokes_'[s]
        PROVE  GRANULARITY * TickOf(turn, s)' <= timerMap_'[t].deadTime + After(t)'
    <3>1. CASE t \in spokes_[s] /\ timerMap_'[t].deadTime = timerMap_[t].deadTime /\ lag'[t] = lag[t]
      <4>1. After(t)' = After(t)
        BY <3>1 DEF After
      <4>2. GRANULARITY * TickOf(turn, s) <= timerMap_[t].deadTime + After(t)
        BY <1>1, <3>1 DEF LateSpokes
      <4>3. QED
        BY <1>3, <3>1, <4>1, <4>2
    <3>2. CASE pc # "cascade" /\ Placed(t, s)
      BY <1>3, <1>5, <3>2
    <3>3. QED
      BY <3>1, <3>2 DEF Followed
  <2>2. QED
    BY <2>1 DEF LateSpokes
<1>8. QED
  BY <1>4, <1>6, <1>7 DEF TurnsAgree

-----------------------------------------------------------------------------
(* A step that turns a wheel. *)

LEMMA EndOfTick ==
  ASSUME TypeOK, TypeOK', StagesFit, TickDone, ticksLeft > 0, nowTime_' = nowTime_,
         pc \in {"ticks", "cascade"}
  PROVE  /\ nowTime_' < checkTime_' + GRANULARITY * (ticksLeft' + 1)
         /\ ticksLeft' > 0 => nowTime_' >= checkTime_' + GRANULARITY * ticksLeft'
<1>1. /\ ticksLeft \in Nat /\ ticksLeft' = ticksLeft - 1
      /\ checkTime_' = checkTime_ + GRANULARITY
      /\ nowTime_ \in Nat /\ checkTime_ \in Nat /\ GRANULARITY \in Nat
  BY Sizes DEF TypeOK, TickDone
<1>2. /\ GRANULARITY * (ticksLeft + 1) = GRANULARITY * (ticksLeft' + 1) + GRANULARITY
      /\ GRANULARITY * ticksLeft = GRANULARITY * ticksLeft' + GRANULARITY
      /\ GRANULARITY * (ticksLeft' + 1) \in Int /\ GRANULARITY * ticksLeft' \in Int
  BY <1>1
<1>3. /\ nowTime_ < checkTime_ + GRANULARITY * (ticksLeft + 1)
      /\ nowTime_ >= checkTime_ + GRANULARITY * ticksLeft
  BY DEF StagesFit
<1>4. QED
  BY <1>1, <1>2, <1>3

\* Wheel 0 moves on by one spoke: the others come to be one spoke nearer.
LEMMA OneNearer ==
  ASSUME TypeOK, NEW k \in Wheels, NextSpoke(k) = spokeIndex_'
  PROVE  /\ \A s \in Slots : s[1] # k => Distance(s)' = Distance(s)
         /\ \A s \in Slots : s[1] = k /\ s # <<k, spokeIndex_[k]>> => Distance(s)' = Distance(s) - 1
<1>1. /\ spokeIndex_ \in [Wheels -> Nat]
      /\ spokeIndex_[k] \in Nat /\ spokeIndex_[k] < Size(k) /\ Size(k) \in Nat
  BY Places, Sizes
<1>2. /\ spokeIndex_'[k] = IF spokeIndex_[k] + 1 >= Size(k) THEN 0 ELSE spokeIndex_[k] + 1
      /\ \A w \in Wheels : w # k => spokeIndex_'[w] = spokeIndex_[w]
  BY <1>1 DEF NextSpoke, Wraps
<1>3. ASSUME NEW s \in Slots, s[1] # k
      PROVE  Distance(s)' = Distance(s)
  BY <1>2, <1>3, SlotsArePairs DEF Distance
<1>4. ASSUME NEW s \in Slots, s[1] = k, s # <<k, spokeIndex_[k]>>
      PROVE  Distance(s)' = Distance(s) - 1
  <2>1. s[2] \in 0 .. Size(k) - 1 /\ s = <<k, s[2]>>
    BY <1>4, SlotsArePairs
  <2>2. s[2] # spokeIndex_[k]
    BY <1>4, <2>1
  <2>3. /\ Distance(s) = IF s[2] >= spokeIndex_[k] THEN s[2] - spokeIndex_[k]
                         ELSE s[2] - spokeIndex_[k] + Size(k)
        /\ Distance(s)' = IF s[2] >= spokeIndex_'[k] THEN s[2] - spokeIndex_'[k]
                          ELSE s[2] - spokeIndex_'[k] + Size(k)
    BY <1>4 DEF Distance, Gap
  <2>4. QED
    BY <1>1, <1>2, <2>1, <2>2, <2>3
<1>5. QED
  BY <1>3, <1>4

LEMMA InTurn ==
  ASSUME TypeOK, NEW k \in Wheels
  PROVE  <<k, spokeIndex_[k]>> \in Slots
<1>1. spokeIndex_[k] \in Nat /\ spokeIndex_[k] < Size(k)
  BY DEF TypeOK
<1>2. Size(k) \in Nat
  BY Sizes
<1>3. spokeIndex_[k] \in 0 .. Size(k) - 1
  BY <1>1, <1>2
<1>4. QED
  BY <1>3, SlotsArePairs

LEMMA StillOnASpoke ==
  ASSUME TypeOK, NEW k \in Wheels, spokeIndex_' = NextSpoke(k)
  PROVE  spokeIndex_' \in [Wheels -> Nat] /\ \A w \in Wheels : spokeIndex_'[w] < Size(w)
<1>1. spokeIndex_' = [spokeIndex_ EXCEPT ![k] = IF Wraps(k) THEN 0 ELSE spokeIndex_[k] + 1]
  BY DEF NextSpoke
<1>2. spokeIndex_ \in [Wheels -> Nat] /\ \A w \in Wheels : spokeIndex_[w] < Size(w)
  BY DEF TypeOK
<1>3. \A w \in Wheels : Size(w) \in Nat \ {0}
  BY Sizes
<1>4. ~Wraps(k) => spokeIndex_[k] + 1 < Size(k)
  BY <1>2, <1>3 DEF Wraps
<1>5. QED
  BY <1>1, <1>2, <1>3, <1>4

LEMMA TickTypes ==
  ASSUME Inv, Tick
  PROVE  TypeOK'
<1> USE DEF Inv
<1>1. 0 \in Wheels /\ 1 \in Wheels
  BY Sizes
<1>2. <<0, spokeIndex_[0]>> \in Slots
  BY <1>1, InTurn
<1>3. readyTimers_' \subseteq Timers /\ spokes_' \in [Slots -> SUBSET Timers]
  BY <1>2 DEF Tick, ResetSpoke, TypeOK
<1>4. spokeIndex_' \in [Wheels -> Nat] /\ \A k \in Wheels : spokeIndex_'[k] < Size(k)
  BY <1>1, StillOnASpoke DEF Tick
<1>5. /\ ticksLeft' \in Nat /\ checkTime_' \in Nat /\ cascading' \in Wheels
      /\ pc' \in {"ticks", "cascade"}
  <2>1. /\ ticksLeft \in Nat /\ ticksLeft > 0 /\ checkTime_ \in Nat /\ GRANULARITY \in Nat
    BY Sizes DEF Tick, TypeOK
  <2>2. CASE pc' = "cascade" /\ cascading' = 1 /\ UNCHANGED <<checkTime_, ticksLeft>>
    BY <1>1, <2>1, <2>2
  <2>3. CASE TickDone
    BY <1>1, <2>1, <2>3 DEF TickDone
  <2>4. QED
    BY <2>2, <2>3 DEF Tick
<1>6. UNCHANGED <<clock, setBack, pollReturn, nowTime_, current, timerMap_, lag>>
  BY DEF Tick, wall
<1>7. Live' = Live
  BY <1>6 DEF Live
<1>8. TypeOK
  OBVIOUS
<1> HIDE DEF Inv
<1>9. QED
  BY <1>3, <1>4, <1>5, <1>6, <1>7, <1>8 DEF TypeOK
LEMMA ClocksLater ==
  ASSUME TypeOK, TypeOK', ClocksFit, checkTime_' >= checkTime_,
         UNCHANGED <<clock, pollReturn, nowTime_, timerMap_>>
  PROVE  ClocksFit'
<1>1. /\ clock \in Nat /\ pollReturn \in Nat /\ nowTime_ \in Nat
      /\ checkTime_ \in Nat /\ checkTime_' \in Nat
      /\ clock' = clock /\ pollReturn' = pollReturn /\ nowTime_' = nowTime_
  BY DEF TypeOK
<1>2. ASSUME NEW x \in Nat, x <= checkTime_ + MaxLag
      PROVE  x <= checkTime_' + MaxLag
  BY <1>1, <1>2, Sizes, StillBefore
<1>3. clock' <= checkTime_' + MaxLag /\ pollReturn' <= checkTime_' + MaxLag /\ nowTime_' <= checkTime_' + MaxLag
  <2>1. clock <= checkTime_ + MaxLag /\ pollReturn <= checkTime_ + MaxLag /\ nowTime_ <= checkTime_ + MaxLag
    BY Zenon DEF ClocksFit
  <2>2. QED
    BY <1>1, <1>2, <2>1
<1>4. ASSUME NEW t \in Live'
      PROVE  /\ timerMap_'[t].interval \in Delays
             /\ timerMap_'[t].deadTime <= checkTime_' + MaxLag + timerMap_'[t].interval
  <2>1. t \in Live /\ timerMap_' = timerMap_
    BY DEF Live
  <2>2. timerMap_[t].deadTime \in Nat /\ timerMap_[t].interval \in Nat
    BY <2>1, Kept
  <2>3. /\ timerMap_[t].interval \in Delays
        /\ timerMap_[t].deadTime <= checkTime_ + MaxLag + timerMap_[t].interval
    BY <2>1 DEF ClocksFit
  <2>4. QED
    BY <1>1, <2>1, <2>2, <2>3, Sizes
<1>5. QED
  BY <1>3, <1>4 DEF ClocksFit

\* Timers move from one spoke to the ready vector, and to no spoke they were in.
LEMMA TickFiles ==
  ASSUME Inv, Tick
  PROVE  Filed'
<1> DEFINE slot == <<0, spokeIndex_[0]>>
<1>1. slot \in Slots
  BY InTurn, Sizes DEF Inv
<1>2. /\ readyTimers_' = readyTimers_ \cup spokes_[slot]
      /\ \A s \in Slots : spokes_'[s] = IF s = slot THEN {} ELSE spokes_[s]
  <2>1. readyTimers_' = readyTimers_ \cup spokes_[slot] /\ spokes_' = [spokes_ EXCEPT ![slot] = {}]
    BY DEF Tick, ResetSpoke
  <2>2. spokes_ \in [Slots -> SUBSET Timers]
    BY DEF Inv, TypeOK
  <2> HIDE DEF slot
  <2>3. QED
    BY <2>1, <2>2
<1>3. current' = current /\ timerMap_' = timerMap_ /\ Live' = Live
  BY DEF Tick, Live
<1>4. Filed
  BY DEF Inv
<1> HIDE DEF slot
<1>5. /\ \A s \in Slots : spokes_'[s] \subseteq Live'
      /\ readyTimers_' \subseteq Live'
      /\ current' # None => current' \in Live'
  BY <1>1, <1>2, <1>3, <1>4 DEF Filed
<1>6. \A t \in Live' : t = current' \/ t \in readyTimers_' \/ \E s \in Slots : t \in spokes_'[s]
  BY <1>1, <1>2, <1>3, <1>4 DEF Filed
<1>7. NeverInTwoPlaces'
  <2>1. NeverInTwoPlaces
    BY <1>4 DEF Filed
  <2>2. QED
    BY <1>1, <1>2, <1>3, <2>1 DEF NeverInTwoPlaces
<1>8. QED
  BY <1>5, <1>6, <1>7 DEF Filed

LEMMA TickStages ==
  ASSUME Inv, Tick
  PROVE  StagesFit' /\ ClocksFit' /\ Base' = Base + GRANULARITY
         /\ checkTime_ + GRANULARITY <= nowTime_
<1>1. /\ TypeOK /\ TypeOK' /\ StagesFit /\ ClocksFit
      /\ GRANULARITY \in Nat \ {0} /\ MaxLag \in Nat
  BY TickTypes, Sizes DEF Inv
<1>2. /\ pc = "ticks" /\ ticksLeft > 0
      /\ UNCHANGED <<clock, pollReturn, nowTime_, current, timerMap_>>
      /\ \/ pc' = "cascade" /\ cascading' = 1 /\ UNCHANGED <<checkTime_, ticksLeft>>
         \/ TickDone /\ pc' = "ticks"
  BY DEF Tick, wall, TickDone
<1>3. current = None
  BY <1>1, <1>2 DEF StagesFit
<1>4. checkTime_ \in Nat /\ checkTime_' \in Nat /\ checkTime_' >= checkTime_
  <2>1. checkTime_ \in Nat /\ checkTime_' \in Nat
    BY <1>1 DEF TypeOK
  <2>2. QED
    BY <1>1, <1>2, <2>1 DEF TickDone
<1>5. StagesFit'
  <2>1. CASE pc' = "cascade" /\ cascading' = 1 /\ UNCHANGED <<checkTime_, ticksLeft>>
    BY <1>1, <1>2, <1>3, <2>1 DEF StagesFit
  <2>2. CASE TickDone /\ pc' = "ticks"
    <3>1. /\ nowTime_' < checkTime_' + GRANULARITY * (ticksLeft' + 1)
          /\ ticksLeft' > 0 => nowTime_' >= checkTime_' + GRANULARITY * ticksLeft'
      BY <1>1, <1>2, <2>2, EndOfTick
    <3>2. QED
      BY <1>2, <1>3, <2>2, <3>1 DEF StagesFit
  <2>3. QED
    BY <1>2, <2>1, <2>2
<1>6. ClocksFit'
  BY <1>1, <1>2, <1>4, ClocksLater
<1>7. Base' = Base + GRANULARITY
  BY <1>1, <1>2, <1>4 DEF Base, TickDone
<1>8. checkTime_ + GRANULARITY <= nowTime_
  <2>1. ticksLeft \in Nat /\ nowTime_ \in Nat
    BY <1>1 DEF TypeOK
  <2>2. nowTime_ >= checkTime_ + GRANULARITY * ticksLeft
    BY <1>1, <1>2 DEF StagesFit
  <2>3. GRANULARITY * ticksLeft >= GRANULARITY
    BY <1>1, <1>2, <2>1
  <2>4. QED
    BY <1>1, <1>4, <2>1, <2>2, <2>3
<1>9. QED
  BY <1>5, <1>6, <1>7, <1>8
\* Wheel 0 has turned once more; the spokes that are left are reached when they were.
LEMMA TickTurns ==
  ASSUME Inv, Tick
  PROVE  EarlySpokes' /\ EarlyReady' /\ TurnsAgree'
<1> DEFINE slot == <<0, spokeIndex_[0]>>
<1>1. /\ TypeOK /\ TypeOK' /\ EarlySpokes /\ EarlyReady
      /\ GRANULARITY \in Nat \ {0} /\ 0 \in Wheels /\ 1 \in Wheels
  BY TickTypes, Sizes DEF Inv
<1>2. /\ Base' = Base + GRANULARITY /\ checkTime_ + GRANULARITY <= nowTime_
      /\ Base = checkTime_ /\ checkTime_ \in Nat /\ nowTime_ \in Nat
  BY <1>1, TickStages DEF Base, Tick, TypeOK
<1>3. /\ slot \in Slots /\ slot[1] = 0 /\ Distance(slot) = 0
  BY <1>1, InTurn, Places
<1>4. /\ readyTimers_' = readyTimers_ \cup spokes_[slot]
      /\ \A s \in Slots : spokes_'[s] = IF s = slot THEN {} ELSE spokes_[s]
  <2>1. readyTimers_' = readyTimers_ \cup spokes_[slot] /\ spokes_' = [spokes_ EXCEPT ![slot] = {}]
    BY DEF Tick, ResetSpoke
  <2>2. spokes_ \in [Slots -> SUBSET Timers]
    BY <1>1 DEF TypeOK
  <2> HIDE DEF slot
  <2>3. QED
    BY <2>1, <2>2
<1>5. /\ spokeIndex_' = NextSpoke(0) /\ UNCHANGED <<nowTime_, current, timerMap_, lag>>
      /\ \A t : Before(t)' = Before(t) /\ After(t)' = After(t)
  BY DEF Tick, Before, After
<1>6. /\ \A s \in Slots : s[1] # 0 => Distance(s)' = Distance(s)
      /\ \A s \in Slots : s[1] = 0 /\ s # slot => Distance(s)' = Distance(s) - 1
  BY <1>1, <1>5, OneNearer
<1>7. EarlyReady'
  <2>1. ASSUME NEW t \in readyTimers_' \cup ({current'} \ {None})
        PROVE  timerMap_'[t].deadTime - Before(t)' <= nowTime_'
    <3>1. CASE t \in readyTimers_ \cup ({current} \ {None})
      BY <1>1, <1>5, <3>1 DEF EarlyReady
    <3>2. CASE t \in spokes_[slot]
      <4>1. timerMap_[t].deadTime - Before(t) <= Base + GRANULARITY * (Distance(slot) + 1)
        BY <1>1, <1>3, <3>2 DEF EarlySpokes
      <4>2. GRANULARITY * (Distance(slot) + 1) = GRANULARITY
        BY <1>1, <1>3
      <4>3. timerMap_[t].deadTime - Before(t) <= checkTime_ + GRANULARITY
        BY <1>2, <4>1, <4>2
      <4>4. t \in Live
        BY <1>3, <3>2 DEF Inv, Filed
      <4>5. timerMap_[t].deadTime \in Nat /\ Before(t) \in Nat
        BY <1>1, <4>4, Kept
      <4>6. timerMap_[t].deadTime - Before(t) <= nowTime_
        BY <1>1, <1>2, <4>3, <4>5
      <4>7. QED
        BY <1>5, <4>6
    <3>3. QED
      BY <1>4, <1>5, <2>1, <3>1, <3>2
  <2>2. QED
    BY <2>1 DEF EarlyReady
<1>8. EarlySpokes'
  <2>1. ASSUME NEW s \in Slots, NEW t \in spokes_'[s], s[1] = 0
        PROVE  timerMap_'[t].deadTime - Before(t)' <= Base' + GRANULARITY * (Distance(s)' + 1)
    <3>1. s # slot /\ t \in spokes_[s]
      BY <1>4, <2>1
    <3>2. timerMap_[t].deadTime - Before(t) <= Base + GRANULARITY * (Distance(s) + 1)
      BY <1>1, <2>1, <3>1 DEF EarlySpokes
    <3>3. Distance(s)' = Distance(s) - 1 /\ Distance(s) \in Nat
      BY <1>1, <1>6, <2>1, <3>1, Places
    <3>4. GRANULARITY * (Distance(s) + 1) = GRANULARITY * (Distance(s)' + 1) + GRANULARITY
      BY <1>1, <3>3
    <3>5. QED
      BY <1>1, <1>2, <1>5, <3>2, <3>3, <3>4
  <2>2. QED
    BY <2>1 DEF EarlySpokes
<1>9. PICK turn \in [Wheels -> Nat] : TurnsFit(turn) /\ LateSpokes(turn)
  BY DEF TurnsAgree, Inv
<1> DEFINE next == [turn EXCEPT ![0] = @ + 1]
<1>10. /\ next \in [Wheels -> Nat] /\ next[0] = turn[0] + 1 /\ turn[0] \in Nat
       /\ \A k \in Wheels : k # 0 => next[k] = turn[k]
  BY <1>1
<1> HIDE DEF slot, next
<1>11. TurnsFit(next)'
  <2>1. Base' = GRANULARITY * next[0]
    BY <1>1, <1>2, <1>9, <1>10 DEF TurnsFit
  <2>2. ASSUME NEW k \in Wheels, k < WHEEL_NUM - 1
        PROVE  next[k] = Size(k) * (next[k + 1] + Owed(k + 1)') + spokeIndex_'[k]
    <3>1. turn[k] = Size(k) * (turn[k + 1] + Owed(k + 1)) + spokeIndex_[k]
      BY <1>9, <2>2 DEF TurnsFit
    <3>2. /\ k \in Nat /\ k + 1 \in Wheels /\ k + 1 # 0 /\ next[k + 1] = turn[k + 1]
          /\ turn[k + 1] \in Nat /\ Owed(k + 1) = 0
      BY <1>10, <2>2, Sizes DEF Owed, Tick
    <3>3. CASE k # 0
      <4>1. spokeIndex_'[k] = spokeIndex_[k]
        BY <1>1, <1>5, <3>3 DEF NextSpoke, TypeOK
      <4>2. Owed(k + 1)' = 0
        BY <3>2, <3>3 DEF Owed, Tick, TickDone
      <4>3. QED
        BY <1>10, <2>2, <3>1, <3>2, <3>3, <4>1, <4>2
    <3>4. CASE k = 0
      <4>1. /\ spokeIndex_'[0] = IF Wraps(0) THEN 0 ELSE spokeIndex_[0] + 1
            /\ spokeIndex_[0] \in Nat /\ spokeIndex_[0] < Size(0) /\ Size(0) \in Nat
        BY <1>1, <1>5, Sizes DEF NextSpoke, TypeOK
      <4>2. Owed(1)' = IF Wraps(0) THEN 1 ELSE 0
        BY DEF Owed, Tick, TickDone
      <4>3. turn[0] = Size(0) * turn[1] + spokeIndex_[0]
        BY <3>1, <3>2, <3>4
      <4>4. CASE Wraps(0)
        <5>1. spokeIndex_[0] + 1 = Size(0)
          BY <4>1, <4>4 DEF Wraps
        <5>2. Size(0) * (turn[1] + 1) = Size(0) * turn[1] + Size(0)
          BY <3>2, <3>4, <4>1
        <5>3. Size(0) * turn[1] \in Nat
          BY <3>2, <3>4, <4>1
        <5>4. turn[0] + 1 = Size(0) * (turn[1] + 1) + 0
          BY <1>10, <4>1, <4>3, <5>1, <5>2, <5>3
        <5>5. QED
          BY <1>10, <3>2, <3>4, <4>1, <4>2, <4>4, <5>4
      <4>5. CASE ~Wraps(0)
        <5>1. Size(0) * turn[1] \in Nat
          BY <3>2, <3>4, <4>1
        <5>2. turn[0] + 1 = Size(0) * (turn[1] + 0) + (spokeIndex_[0] + 1)
          BY <1>10, <3>2, <3>4, <4>1, <4>3, <5>1
        <5>3. QED
          BY <1>10, <3>2, <3>4, <4>1, <4>2, <4>5, <5>2
      <4>6. QED
        BY <4>4, <4>5
    <3>5. QED
      BY <3>3, <3>4
  <2>3. ASSUME NEW k \in Wheels
        PROVE  GRANULARITY * (Threshold[k] * next[k]) <= Base'
    <3>1. CASE k = 0
      BY <1>1, <1>10, <2>1, <3>1, ThresholdsMultiply
    <3>2. CASE k # 0
      <4>1. GRANULARITY * (Threshold[k] * turn[k]) <= Base
        BY <1>9 DEF TurnsFit
      <4>2. Threshold[k] \in Nat /\ turn[k] \in Nat
        BY ThresholdsPositive
      <4>3. Threshold[k] * turn[k] \in Nat
        BY <4>2
      <4>4. GRANULARITY * (Threshold[k] * turn[k]) \in Nat
        BY <1>1, <4>3
      <4>5. QED
        BY <1>1, <1>2, <1>10, <3>2, <4>1, <4>4
    <3>3. QED
      BY <3>1, <3>2
  <2>4. QED
    BY <2>1, <2>2, <2>3 DEF TurnsFit
<1>12. LateSpokes(next)'
  <2>1. ASSUME NEW s \in Slots, NEW t \in spokes_'[s]
        PROVE  GRANULARITY * TickOf(next, s)' <= timerMap_'[t].deadTime + After(t)'
    <3>1. s # slot /\ t \in spokes_[s]
      BY <1>4, <2>1
    <3>2. s[1] \in Wheels /\ Distance(s) \in Nat /\ turn[s[1]] \in Nat
      BY <1>1, Places
    <3>3. next[s[1]] + Distance(s)' = turn[s[1]] + Distance(s)
      <4>1. CASE s[1] # 0
        BY <1>6, <1>10, <3>2, <4>1
      <4>2. CASE s[1] = 0
        <5>1. Distance(s)' = Distance(s) - 1
          BY <1>6, <3>1, <4>2
        <5>2. QED
          BY <1>10, <3>2, <4>2, <5>1
      <4>3. QED
        BY <4>1, <4>2
    <3>4. TickOf(next, s)' = TickOf(turn, s)
      BY <3>3 DEF TickOf
    <3>5. GRANULARITY * TickOf(turn, s) <= timerMap_[t].deadTime + After(t)
      BY <1>9, <3>1 DEF LateSpokes
    <3>6. QED
      BY <1>5, <3>4, <3>5
  <2>2. QED
    BY <2>1 DEF LateSpokes
<1>13. QED
  BY <1>7, <1>8, <1>10, <1>11, <1>12 DEF TurnsAgree
-----------------------------------------------------------------------------
(* cascade(). *)

Emptied == <<cascading, spokeIndex_[cascading]>>
Due     == {t \in spokes_[Emptied] : timerMap_[t].deadTime <= nowTime_}
Again   == spokes_[Emptied] \ Due
Passed  == [spokeIndex_ EXCEPT ![cascading] = @ + 1]
Left(t) == timerMap_[t].deadTime - nowTime_

LEMMA CascadeMoves ==
  ASSUME Inv, Cascade
  PROVE  /\ cascading \in Wheels /\ cascading >= 1 /\ Emptied \in Slots
         /\ readyTimers_' = readyTimers_ \cup Due
         /\ \A s \in Slots :
              spokes_'[s] = IF s = Emptied THEN {}
                            ELSE spokes_[s] \cup {t \in Again : SlotOf(Left(t), Passed) = s}
         /\ \A t \in Timers : lag'[t] = IF t \in Again THEN nowTime_ - Base ELSE lag[t]
         /\ Base = checkTime_ + GRANULARITY /\ Base <= nowTime_
<1>1. /\ TypeOK /\ StagesFit /\ pc = "cascade"
      /\ GRANULARITY \in Nat \ {0}
  BY Sizes DEF Inv, Cascade
<1>2. cascading \in Wheels /\ cascading >= 1 /\ Emptied \in Slots
  BY <1>1, InTurn DEF Emptied, StagesFit, TypeOK
<1>3. readyTimers_' = readyTimers_ \cup Due
  BY DEF Cascade, Emptied, Due
<1>4. spokes_' = [s \in Slots |-> IF s = Emptied THEN {}
                                  ELSE spokes_[s] \cup {t \in Again : SlotOf(Left(t), Passed) = s}]
  BY DEF Cascade, Emptied, Due, Again, Passed, Left
<1>5. lag' = [t \in Timers |-> IF t \in Again THEN nowTime_ - (checkTime_ + GRANULARITY) ELSE lag[t]]
  BY DEF Cascade, Emptied, Due, Again
<1>6. Base = checkTime_ + GRANULARITY
  BY <1>1 DEF Base
<1>7. Base <= nowTime_
  <2>1. /\ ticksLeft \in Nat /\ ticksLeft > 0 /\ checkTime_ \in Nat /\ nowTime_ \in Nat
        /\ nowTime_ >= checkTime_ + GRANULARITY * ticksLeft
    BY <1>1 DEF StagesFit, TypeOK
  <2>2. GRANULARITY * ticksLeft >= GRANULARITY
    BY <1>1, <2>1
  <2>3. QED
    BY <1>1, <1>6, <2>1, <2>2
<1>8. QED
  BY <1>2, <1>3, <1>4, <1>5, <1>6, <1>7

\* A timer that is placed again finds another spoke, at the distance addTimerNode()
\* counts from the spoke it was in.
LEMMA CascadePlaces ==
  ASSUME Inv, Cascade, NEW t \in Again,
         NEW s, s = SlotOf(Left(t), Passed)
  PROVE  /\ t \in Live /\ Left(t) \in Nat /\ Left(t) < GRANULARITY * Threshold[WHEEL_NUM]
         /\ Passed \in [Wheels -> Nat] /\ \A w \in Wheels : Passed[w] <= Size(w)
         /\ s \in Slots /\ s # Emptied
         /\ Distance(s)' = Gap(s, IF Passed[s[1]] = Size(s[1]) THEN 0 ELSE Passed[s[1]])
<1>1. /\ TypeOK /\ ClocksFit /\ GRANULARITY \in Nat \ {0} /\ MaxLag \in Nat
      /\ cascading \in Wheels /\ cascading >= 1 /\ Emptied \in Slots
      /\ Base = checkTime_ + GRANULARITY /\ Base <= nowTime_
      /\ spokeIndex_' = NextSpoke(cascading)
  BY CascadeMoves, Sizes DEF Inv, Cascade
<1>2. t \in Live /\ t \in spokes_[Emptied] /\ ~(timerMap_[t].deadTime <= nowTime_)
  BY <1>1 DEF Again, Due, Inv, Filed
<1>3. /\ timerMap_[t].deadTime \in Nat /\ timerMap_[t].interval \in Nat
      /\ nowTime_ \in Nat /\ checkTime_ \in Nat
  BY <1>1, <1>2, Kept DEF TypeOK
<1>4. /\ timerMap_[t].interval \in Delays
      /\ timerMap_[t].deadTime <= checkTime_ + MaxLag + timerMap_[t].interval
  BY <1>1, <1>2 DEF ClocksFit
<1>5. Left(t) \in Nat /\ Left(t) <= timerMap_[t].interval + MaxLag
  BY <1>1, <1>2, <1>3, <1>4 DEF Left
<1>6. Left(t) < GRANULARITY * Threshold[WHEEL_NUM]
  BY <1>4, <1>5, DelaysAreShort
<1>7. /\ spokeIndex_ \in [Wheels -> Nat]
      /\ \A w \in Wheels : spokeIndex_[w] \in Nat /\ spokeIndex_[w] < Size(w) /\ Size(w) \in Nat
  BY <1>1, Places, Sizes
<1>8. /\ Passed \in [Wheels -> Nat]
      /\ \A w \in Wheels : Passed[w] = IF w = cascading THEN spokeIndex_[w] + 1 ELSE spokeIndex_[w]
  BY <1>1, <1>7 DEF Passed
<1>9. \A w \in Wheels : Passed[w] <= Size(w)
  BY <1>7, <1>8
<1>10. \A w \in Wheels : spokeIndex_'[w] = IF Passed[w] = Size(w) THEN 0 ELSE Passed[w]
  <2>1. ASSUME NEW w \in Wheels
        PROVE  spokeIndex_'[w] = IF Passed[w] = Size(w) THEN 0 ELSE Passed[w]
    <3>1. CASE w # cascading
      <4>1. spokeIndex_'[w] = spokeIndex_[w]
        BY <1>1, <1>7, <3>1 DEF NextSpoke
      <4>2. QED
        BY <1>7, <1>8, <3>1, <4>1
    <3>2. CASE w = cascading
      <4>1. spokeIndex_'[w] = IF spokeIndex_[w] + 1 >= Size(w) THEN 0 ELSE spokeIndex_[w] + 1
        BY <1>1, <1>7, <3>2 DEF NextSpoke, Wraps
      <4>2. spokeIndex_[w] \in Nat /\ spokeIndex_[w] < Size(w) /\ Size(w) \in Nat
        BY <1>7
      <4>3. Passed[w] = spokeIndex_[w] + 1
        BY <1>8, <3>2
      <4>4. QED
        BY <4>1, <4>2, <4>3
    <3>3. QED
      BY <3>1, <3>2
  <2>2. QED
    BY <2>1
<1> DEFINE k == s[1]
           gap == Gap(s, IF Passed[k] = Size(k) THEN 0 ELSE Passed[k])
<1>11. s \in Slots /\ k \in Wheels /\ (k # 0 => gap < Size(k) - 1)
  <2> HIDE DEF k, gap
  <2>1. k = s[1] /\ gap = Gap(s, IF Passed[k] = Size(k) THEN 0 ELSE Passed[k])
    BY DEF k, gap
  <2>2. QED
    BY <1>5, <1>6, <1>8, <1>9, <2>1, SlotFits
<1>12. Distance(s)' = gap
  BY <1>10, <1>11 DEF Distance
<1>13. s # Emptied
  <2>1. ASSUME s = Emptied
        PROVE  FALSE
    <3>1. k = cascading /\ s[2] = spokeIndex_[k] /\ k # 0
      BY <1>1, <2>1 DEF Emptied
    <3>2. Passed[k] = spokeIndex_[k] + 1 /\ Passed[k] <= Size(k)
      BY <1>1, <1>8, <1>9, <3>1
    <3>3. spokeIndex_[k] \in Nat /\ Size(k) \in Nat
      BY <1>7, <1>11
    <3>4. gap = Size(k) - 1
      BY <3>1, <3>2, <3>3 DEF Gap
    <3>5. QED
      BY <1>11, <3>1, <3>3, <3>4
  <2>2. QED
    BY <2>1
<1>14. QED
  BY <1>2, <1>5, <1>6, <1>8, <1>9, <1>11, <1>12, <1>13
\* Whether the cascade goes on to the next wheel.
LEMMA CascadeEnds ==
  ASSUME Inv, Cascade
  PROVE  \/ /\ Wraps(cascading) /\ cascading + 1 < WHEEL_NUM
            /\ cascading' = cascading + 1
            /\ pc' = "cascade" /\ UNCHANGED <<checkTime_, ticksLeft>>
         \/ /\ ~(Wraps(cascading) /\ cascading + 1 < WHEEL_NUM)
            /\ TickDone /\ pc' = "ticks"
BY DEF Cascade, TickDone

LEMMA CascadeTypes ==
  ASSUME Inv, Cascade
  PROVE  TypeOK'
<1>1. /\ TypeOK /\ StagesFit /\ pc = "cascade"
      /\ cascading \in Wheels /\ cascading >= 1 /\ Emptied \in Slots
      /\ Base = checkTime_ + GRANULARITY /\ Base <= nowTime_
      /\ spokeIndex_' = NextSpoke(cascading)
      /\ UNCHANGED <<clock, setBack, pollReturn, nowTime_, current, timerMap_>>
  BY CascadeMoves DEF Inv, Cascade, wall
<1>2. readyTimers_' \subseteq Timers
  BY <1>1, CascadeMoves DEF Due, TypeOK
<1>3. spokes_' \in [Slots -> SUBSET Timers]
  <2>1. spokes_' = [s \in Slots |-> IF s = Emptied THEN {}
                                    ELSE spokes_[s] \cup {t \in Again : SlotOf(Left(t), Passed) = s}]
    BY DEF Cascade, Emptied, Due, Again, Passed, Left
  <2>2. spokes_ \in [Slots -> SUBSET Timers] /\ Again \subseteq Timers
    BY <1>1 DEF Again, TypeOK
  <2>3. QED
    BY <2>1, <2>2
<1>4. lag' \in [Timers -> Int]
  <2>1. lag' = [t \in Timers |-> IF t \in Again THEN nowTime_ - (checkTime_ + GRANULARITY) ELSE lag[t]]
    BY DEF Cascade, Emptied, Due, Again
  <2>2. lag \in [Timers -> Int] /\ nowTime_ - (checkTime_ + GRANULARITY) \in Int
    BY <1>1, Sizes DEF TypeOK
  <2>3. QED
    BY <2>1, <2>2
<1>5. spokeIndex_' \in [Wheels -> Nat] /\ \A k \in Wheels : spokeIndex_'[k] < Size(k)
  BY <1>1, StillOnASpoke
<1>6. /\ ticksLeft' \in Nat /\ checkTime_' \in Nat /\ cascading' \in Wheels
      /\ pc' \in {"ticks", "cascade"}
  <2>1. /\ ticksLeft \in Nat /\ ticksLeft > 0 /\ checkTime_ \in Nat /\ GRANULARITY \in Nat
        /\ cascading \in Nat /\ 0 \in Wheels
    BY <1>1, Sizes DEF StagesFit, TypeOK
  <2>2. CASE /\ cascading + 1 < WHEEL_NUM /\ cascading' = cascading + 1
             /\ pc' = "cascade" /\ UNCHANGED <<checkTime_, ticksLeft>>
    BY <2>1, <2>2, Sizes
  <2>3. CASE TickDone
    BY <2>1, <2>3 DEF TickDone
  <2>4. QED
    BY <2>2, <2>3, CascadeEnds
<1>7. Live' = Live
  BY <1>1 DEF Live
<1>8. QED
  BY <1>1, <1>2, <1>3, <1>4, <1>5, <1>6, <1>7 DEF TypeOK

\* The timers of the spoke become ready or come into another spoke.
LEMMA CascadeFiles ==
  ASSUME Inv, Cascade
  PROVE  Filed'
<1>1. /\ Filed /\ Emptied \in Slots
      /\ readyTimers_' = readyTimers_ \cup Due
      /\ \A s \in Slots :
           spokes_'[s] = IF s = Emptied THEN {}
                         ELSE spokes_[s] \cup {t \in Again : SlotOf(Left(t), Passed) = s}
  BY CascadeMoves DEF Inv
<1>2. current' = current /\ timerMap_' = timerMap_ /\ Live' = Live
  BY DEF Cascade, Live
<1>3. /\ Due \cup Again = spokes_[Emptied] /\ Due \cap Again = {}
  BY DEF Due, Again
<1>4. \A t \in Again : SlotOf(Left(t), Passed) \in Slots /\ SlotOf(Left(t), Passed) # Emptied
  BY CascadePlaces
<1> DEFINE To(t) == SlotOf(Left(t), Passed)
<1>5. /\ \A s \in Slots :
           spokes_'[s] = IF s = Emptied THEN {} ELSE spokes_[s] \cup {t \in Again : To(t) = s}
      /\ \A t \in Again : To(t) \in Slots /\ To(t) # Emptied
  BY <1>1, <1>4
<1> HIDE DEF To
<1>6. /\ \A s \in Slots : spokes_'[s] \subseteq Live'
      /\ readyTimers_' \subseteq Live'
      /\ current' # None => current' \in Live'
  BY <1>1, <1>2, <1>3, <1>5 DEF Filed
<1>7. ASSUME NEW t \in Live'
      PROVE  t = current' \/ t \in readyTimers_' \/ \E s \in Slots : t \in spokes_'[s]
  <2>1. t = current \/ t \in readyTimers_ \/ \E s \in Slots : t \in spokes_[s]
    BY <1>1, <1>2 DEF Filed
  <2>2. ASSUME NEW s \in Slots, t \in spokes_[s], s # Emptied
        PROVE  t \in spokes_'[s]
    BY <1>5, <2>2
  <2>3. CASE t \in Again
    BY <1>5, <2>3
  <2>4. QED
    BY <1>1, <1>2, <1>3, <2>1, <2>2, <2>3
<1>8. NeverInTwoPlaces'
  <2>1. NeverInTwoPlaces
    BY <1>1 DEF Filed
  <2>2. ASSUME NEW s1 \in Slots, NEW s2 \in Slots, s1 # s2, NEW t \in spokes_'[s1], t \in spokes_'[s2]
        PROVE  FALSE
    <3>1. /\ s1 # Emptied /\ s2 # Emptied
          /\ t \in spokes_[s1] \/ (t \in Again /\ To(t) = s1)
          /\ t \in spokes_[s2] \/ (t \in Again /\ To(t) = s2)
      BY <1>5, <2>2
    <3>2. \A s \in Slots : s # Emptied => spokes_[s] \cap spokes_[Emptied] = {}
      BY <1>1, <2>1 DEF NeverInTwoPlaces
    <3>3. spokes_[s1] \cap spokes_[s2] = {}
      BY <2>1, <2>2 DEF NeverInTwoPlaces
    <3>4. Again \subseteq spokes_[Emptied]
      BY <1>3
    <3>5. QED
      BY <2>2, <3>1, <3>2, <3>3, <3>4
  <2>3. ASSUME NEW s \in Slots, NEW t \in spokes_'[s]
        PROVE  t \notin readyTimers_' /\ t # current'
    <3>1. s # Emptied /\ (t \in spokes_[s] \/ t \in Again)
      BY <1>5, <2>3
    <3>2. spokes_[s] \cap spokes_[Emptied] = {}
      BY <1>1, <2>1, <3>1 DEF NeverInTwoPlaces
    <3>3. t \notin readyTimers_ /\ t # current
      BY <1>1, <1>3, <2>1, <3>1 DEF NeverInTwoPlaces
    <3>4. t \notin Due
      BY <1>3, <3>1, <3>2
    <3>5. QED
      BY <1>1, <1>2, <3>3, <3>4
  <2>4. current' \notin readyTimers_'
    BY <1>1, <1>2, <1>3, <2>1 DEF NeverInTwoPlaces
  <2>5. QED
    BY <2>2, <2>3, <2>4 DEF NeverInTwoPlaces
<1>9. QED
  BY <1>6, <1>7, <1>8 DEF Filed

LEMMA CascadeStages ==
  ASSUME Inv, Cascade
  PROVE  StagesFit' /\ ClocksFit' /\ Base' = Base
<1>1. /\ TypeOK /\ TypeOK' /\ StagesFit /\ ClocksFit
      /\ GRANULARITY \in Nat \ {0} /\ MaxLag \in Nat
      /\ cascading \in Wheels /\ cascading >= 1
      /\ Base = checkTime_ + GRANULARITY
  BY CascadeTypes, CascadeMoves, Sizes DEF Inv
<1>2. /\ pc = "cascade" /\ ticksLeft > 0
      /\ UNCHANGED <<clock, pollReturn, nowTime_, current, timerMap_>>
      /\ \/ pc' = "cascade" /\ cascading' = cascading + 1 /\ UNCHANGED <<checkTime_, ticksLeft>>
         \/ TickDone /\ pc' = "ticks"
  BY <1>1, CascadeEnds DEF Cascade, wall, StagesFit
<1>3. current = None
  BY <1>1, <1>2 DEF StagesFit
<1>4. checkTime_ \in Nat /\ checkTime_' \in Nat /\ checkTime_' >= checkTime_
  <2>1. checkTime_ \in Nat /\ checkTime_' \in Nat
    BY <1>1 DEF TypeOK
  <2>2. QED
    BY <1>1, <1>2, <2>1 DEF TickDone
<1>5. StagesFit'
  <2>1. CASE pc' = "cascade" /\ cascading' = cascading + 1 /\ UNCHANGED <<checkTime_, ticksLeft>>
    <3>1. cascading \in Nat /\ cascading' >= 1
      BY <1>1, <2>1, Sizes
    <3>2. QED
      BY <1>1, <1>2, <1>3, <2>1, <3>1 DEF StagesFit
  <2>2. CASE TickDone /\ pc' = "ticks"
    <3>1. /\ nowTime_' < checkTime_' + GRANULARITY * (ticksLeft' + 1)
          /\ ticksLeft' > 0 => nowTime_' >= checkTime_' + GRANULARITY * ticksLeft'
      BY <1>1, <1>2, <2>2, EndOfTick
    <3>2. QED
      BY <1>2, <1>3, <2>2, <3>1 DEF StagesFit
  <2>3. QED
    BY <1>2, <2>1, <2>2
<1>6. ClocksFit'
  BY <1>1, <1>2, <1>4, ClocksLater
<1>7. Base' = Base
  BY <1>1, <1>2, <1>4 DEF Base, TickDone
<1>8. QED
  BY <1>5, <1>6, <1>7
\* A timer that is placed again keeps to its deadline.
LEMMA CascadeKeepsTime ==
  ASSUME Inv, Cascade, NEW t \in Again, NEW s, s = SlotOf(Left(t), Passed),
         NEW x \in Nat, GRANULARITY * (Threshold[s[1]] * x) <= Base
  PROVE  /\ s[1] = 0 => timerMap_[t].deadTime - Before(t)' <= Base + GRANULARITY * (Distance(s)' + 1)
         /\ GRANULARITY * (Threshold[s[1]] * (x + Distance(s)' + Whole(s[1])))
              <= timerMap_[t].deadTime + After(t)'
<1> DEFINE d == Left(t)
           k == s[1]
           gap == Gap(s, IF Passed[k] = Size(k) THEN 0 ELSE Passed[k])
<1>1. /\ t \in Live /\ d \in Nat /\ d < GRANULARITY * Threshold[WHEEL_NUM]
      /\ Passed \in [Wheels -> Nat] /\ \A w \in Wheels : Passed[w] <= Size(w)
      /\ s \in Slots /\ Distance(s)' = gap
  BY CascadePlaces
<1>2. /\ lag'[t] = nowTime_ - Base /\ Base <= nowTime_ /\ Base = checkTime_ + GRANULARITY
      /\ TypeOK
  <2>1. t \in Timers
    BY <1>1, Kept DEF Inv
  <2>2. QED
    BY <2>1, CascadeMoves DEF Inv
<1>3. Base \in Nat /\ nowTime_ \in Nat /\ timerMap_[t].deadTime \in Nat
  BY <1>1, <1>2, Kept, Sizes DEF TypeOK
<1>4. Before(t)' = nowTime_ - Base /\ After(t)' = 0
  <2>1. lag'[t] \in Nat
    BY <1>2, <1>3
  <2>2. ~(lag'[t] < 0)
    BY <2>1
  <2>3. After(t)' = 0
    BY <2>2 DEF After
  <2>4. Before(t)' = lag'[t]
    BY <2>1 DEF Before
  <2>5. QED
    BY <1>2, <2>3, <2>4
<1>5. timerMap_[t].deadTime = nowTime_ + d
  BY <1>3 DEF Left
<1>6. s = SlotOf(d, Passed) /\ k = s[1] /\ gap = Gap(s, IF Passed[k] = Size(k) THEN 0 ELSE Passed[k])
  OBVIOUS
<1>7. GRANULARITY * (Threshold[k] * x) <= Base /\ Base \in Int
  BY <1>3
<1> HIDE DEF d, k, gap
<1>8. GRANULARITY * (Threshold[k] * (x + gap + Whole(k))) <= Base + d
  BY <1>1, <1>6, <1>7, PlacedInTime
<1>9. /\ k \in Wheels /\ gap \in Nat
      /\ k = 0 => d < GRANULARITY * (gap + 1)
  BY <1>1, <1>6, SlotFits
<1>10. GRANULARITY * (Threshold[k] * (x + gap + Whole(k))) \in Nat /\ GRANULARITY * (gap + 1) \in Nat
  <2>1. Threshold[k] \in Nat \ {0} /\ GRANULARITY \in Nat \ {0}
    BY <1>9, ThresholdsPositive, Sizes
  <2>2. Whole(k) \in Nat
    BY DEF Whole
  <2>3. x + gap + Whole(k) \in Nat
    BY <1>9, <2>2
  <2>4. Threshold[k] * (x + gap + Whole(k)) \in Nat
    BY <2>1, <2>3
  <2>5. QED
    BY <1>9, <2>1, <2>4
<1>11. GRANULARITY * (Threshold[k] * (x + gap + Whole(k))) <= timerMap_[t].deadTime + After(t)'
  BY <1>1, <1>2, <1>3, <1>4, <1>5, <1>8, <1>10
<1>12. CASE k = 0
  <2>1. d < GRANULARITY * (gap + 1)
    BY <1>9, <1>12
  <2>2. timerMap_[t].deadTime - Before(t)' = Base + d
    BY <1>1, <1>3, <1>4, <1>5
  <2>3. timerMap_[t].deadTime - Before(t)' <= Base + GRANULARITY * (gap + 1)
    BY <1>1, <1>3, <1>10, <2>1, <2>2
  <2>4. QED
    BY <1>1, <1>6, <1>11, <2>3
<1>13. QED
  BY <1>1, <1>6, <1>11, <1>12

LEMMA CascadeEarly ==
  ASSUME Inv, Cascade
  PROVE  EarlySpokes' /\ EarlyReady'
<1>1. /\ TypeOK /\ Filed /\ EarlySpokes /\ EarlyReady
      /\ cascading \in Wheels /\ cascading >= 1 /\ Emptied \in Slots
      /\ readyTimers_' = readyTimers_ \cup Due
      /\ \A s \in Slots :
           spokes_'[s] = IF s = Emptied THEN {}
                         ELSE spokes_[s] \cup {t \in Again : SlotOf(Left(t), Passed) = s}
      /\ \A t \in Timers : lag'[t] = IF t \in Again THEN nowTime_ - Base ELSE lag[t]
      /\ Base = checkTime_ + GRANULARITY /\ Base <= nowTime_
      /\ Base' = Base
  BY CascadeMoves, CascadeStages DEF Inv
<1>2. /\ spokeIndex_' = NextSpoke(cascading)
      /\ UNCHANGED <<nowTime_, current, timerMap_>>
  BY DEF Cascade
<1>3. NeverInTwoPlaces /\ Again \subseteq spokes_[Emptied] /\ Due \subseteq spokes_[Emptied]
  BY <1>1 DEF Filed, Again, Due
<1>4. \A t \in Live : t \notin Again => Before(t)' = Before(t)
  BY <1>1, Kept DEF Before
<1>5. EarlyReady'
  <2>1. ASSUME NEW t \in readyTimers_' \cup ({current'} \ {None})
        PROVE  timerMap_'[t].deadTime - Before(t)' <= nowTime_'
    <3>1. CASE t \in readyTimers_ \cup ({current} \ {None})
      <4>1. t \in Live /\ t \notin Again
        BY <1>1, <1>3, <3>1 DEF Filed, NeverInTwoPlaces
      <4>2. QED
        BY <1>1, <1>2, <1>4, <3>1, <4>1 DEF EarlyReady
    <3>2. CASE t \in Due
      <4>1. t \in Live /\ t \notin Again /\ timerMap_[t].deadTime <= nowTime_
        BY <1>1, <1>3, <3>2 DEF Filed, Due, Again
      <4>2. Before(t)' = Before(t) /\ Before(t) \in Nat /\ timerMap_[t].deadTime \in Nat /\ nowTime_ \in Nat
        BY <1>1, <1>4, <4>1, Kept DEF TypeOK
      <4>3. timerMap_[t].deadTime - Before(t) <= nowTime_
        BY <4>1, <4>2
      <4>4. QED
        BY <1>2, <4>2, <4>3
    <3>3. QED
      BY <1>1, <1>2, <2>1, <3>1, <3>2
  <2>2. QED
    BY <2>1 DEF EarlyReady
<1>6. EarlySpokes'
  <2>1. ASSUME NEW s \in Slots, NEW t \in spokes_'[s], s[1] = 0
        PROVE  timerMap_'[t].deadTime - Before(t)' <= Base' + GRANULARITY * (Distance(s)' + 1)
    <3>1. CASE t \in spokes_[s] /\ s # Emptied
      <4>1. t \in Live /\ t \notin Again
        BY <1>1, <1>3, <3>1 DEF Filed, NeverInTwoPlaces
      <4>2. Distance(s)' = Distance(s)
        BY <1>1, <1>2, <2>1, OneNearer, Sizes
      <4>3. timerMap_[t].deadTime - Before(t) <= Base + GRANULARITY * (Distance(s) + 1)
        BY <1>1, <2>1, <3>1 DEF EarlySpokes
      <4>4. QED
        BY <1>1, <1>2, <1>4, <4>1, <4>2, <4>3
    <3>2. CASE t \in Again /\ s = SlotOf(Left(t), Passed)
      <4>1. 0 \in Nat /\ Base \in Nat /\ GRANULARITY * (Threshold[s[1]] * 0) = 0
        BY <1>1, <2>1, ThresholdsPositive, Sizes DEF TypeOK
      <4>2. GRANULARITY * (Threshold[s[1]] * 0) <= Base
        BY <4>1
      <4>3. timerMap_[t].deadTime - Before(t)' <= Base + GRANULARITY * (Distance(s)' + 1)
        BY <2>1, <3>2, <4>1, <4>2, CascadeKeepsTime
      <4>4. QED
        BY <1>1, <1>2, <4>3
    <3>3. QED
      BY <1>1, <2>1, <3>1, <3>2
  <2>2. QED
    BY <2>1 DEF EarlySpokes
<1>7. QED
  BY <1>5, <1>6
\* The wheel below has come round as often as the cascaded wheel is now turned.
LEMMA CascadeTurns ==
  ASSUME Inv, Cascade
  PROVE  TurnsAgree'
<1> DEFINE c == cascading
<1>1. /\ TypeOK /\ TypeOK' /\ Filed
      /\ c \in Wheels /\ c >= 1 /\ c \in Nat /\ Emptied \in Slots
      /\ \A s \in Slots :
           spokes_'[s] = IF s = Emptied THEN {}
                         ELSE spokes_[s] \cup {t \in Again : SlotOf(Left(t), Passed) = s}
      /\ \A t \in Timers : lag'[t] = IF t \in Again THEN nowTime_ - Base ELSE lag[t]
      /\ Base' = Base /\ GRANULARITY \in Nat \ {0}
  <2>1. TypeOK /\ TypeOK' /\ Filed /\ Base' = Base
    BY CascadeTypes, CascadeStages DEF Inv
  <2>2. c \in Nat
    BY CascadeMoves, Sizes
  <2>3. QED
    BY <2>1, <2>2, CascadeMoves, Sizes
<1>2. pc = "cascade" /\ spokeIndex_' = NextSpoke(c) /\ timerMap_' = timerMap_
  BY DEF Cascade
<1>3. Base \in Nat
  BY <1>1, Sizes DEF Base, TypeOK
<1>4. PICK turn \in [Wheels -> Nat] : TurnsFit(turn) /\ LateSpokes(turn)
  BY DEF TurnsAgree, Inv
<1>5. PICK next \in [Wheels -> Nat] :
        /\ next[c] = turn[c] + 1 /\ turn[c] \in Nat
        /\ \A k \in Wheels : k # c => next[k] = turn[k]
  <2> DEFINE f == [turn EXCEPT ![c] = @ + 1]
  <2>1. /\ f \in [Wheels -> Nat] /\ f[c] = turn[c] + 1 /\ turn[c] \in Nat
        /\ \A k \in Wheels : k # c => f[k] = turn[k]
    BY <1>1
  <2>2. QED
    BY <2>1
<1>6. \A k : Owed(k) = IF k = c THEN 1 ELSE 0
  BY <1>2 DEF Owed
<1>7. \A k \in Wheels : k # 0 => Owed(k)' = IF Wraps(c) /\ k = c + 1 THEN 1 ELSE 0
  <2>1. CASE Wraps(c) /\ c + 1 < WHEEL_NUM /\ cascading' = c + 1 /\ pc' = "cascade"
    BY <2>1 DEF Owed
  <2>2. CASE ~(Wraps(c) /\ c + 1 < WHEEL_NUM) /\ pc' = "ticks"
    <3>1. \A k \in Wheels : k = c + 1 => c + 1 < WHEEL_NUM
      BY <1>1, Sizes
    <3>2. QED
      BY <2>2, <3>1 DEF Owed
  <2>3. QED
    BY <2>1, <2>2, CascadeEnds
<1>8. /\ \A w \in Wheels : w # c => spokeIndex_'[w] = spokeIndex_[w]
      /\ spokeIndex_'[c] = IF Wraps(c) THEN 0 ELSE spokeIndex_[c] + 1
      /\ \A w \in Wheels : spokeIndex_[w] \in Nat /\ spokeIndex_[w] < Size(w) /\ Size(w) \in Nat \ {0}
  BY <1>1, <1>2, Sizes DEF NextSpoke, TypeOK
<1> HIDE DEF c
<1>9. \A k \in Wheels : GRANULARITY * (Threshold[k] * next[k]) <= Base
  <2>1. PICK b \in Wheels : b + 1 = c /\ b < WHEEL_NUM - 1 /\ b # c
    <3>1. c - 1 \in Wheels /\ (c - 1) + 1 = c /\ c - 1 < WHEEL_NUM - 1 /\ c - 1 # c
      BY <1>1, Sizes
    <3>2. QED
      BY <3>1
  <2>2. turn[b] = Size(b) * next[c] + spokeIndex_[b]
    <3>1. turn[b] = Size(b) * (turn[b + 1] + Owed(b + 1)) + spokeIndex_[b]
      BY <1>4, <2>1 DEF TurnsFit
    <3>2. QED
      BY <1>5, <1>6, <2>1, <3>1
  <2>3. /\ Threshold[b] \in Nat \ {0} /\ Threshold[c] = Size(b) * Threshold[b]
        /\ Size(b) \in Nat /\ spokeIndex_[b] \in Nat /\ turn[b] \in Nat /\ next[c] \in Nat
    <3>1. Threshold[b + 1] = Size(b) * Threshold[b] /\ Threshold[b] \in Nat \ {0}
      BY ThresholdsMultiply, ThresholdsPositive
    <3>2. QED
      BY <1>1, <1>5, <1>8, <2>1, <3>1
  <2>4. Threshold[c] * next[c] = Threshold[b] * (Size(b) * next[c])
    BY <2>3
  <2>5. Size(b) * next[c] \in Nat /\ Size(b) * next[c] <= turn[b]
    BY <2>2, <2>3
  <2>6. Threshold[b] * (Size(b) * next[c]) <= Threshold[b] * turn[b]
    BY <2>3, <2>5
  <2>7. Threshold[b] * (Size(b) * next[c]) \in Nat /\ Threshold[b] * turn[b] \in Nat
    BY <2>3, <2>5
  <2>8. GRANULARITY * (Threshold[c] * next[c]) <= GRANULARITY * (Threshold[b] * turn[b])
    BY <1>1, <2>4, <2>6, <2>7
  <2>9. GRANULARITY * (Threshold[b] * turn[b]) <= Base
    BY <1>4 DEF TurnsFit
  <2>10. GRANULARITY * (Threshold[c] * next[c]) \in Nat /\ GRANULARITY * (Threshold[b] * turn[b]) \in Nat
    BY <1>1, <2>4, <2>7
  <2>11. GRANULARITY * (Threshold[c] * next[c]) <= Base
    BY <1>3, <2>8, <2>9, <2>10
  <2>12. \A k \in Wheels : k # c => GRANULARITY * (Threshold[k] * next[k]) <= Base
    BY <1>4, <1>5 DEF TurnsFit
  <2>13. QED
    BY <2>11, <2>12
<1>10. TurnsFit(next)'
  <2>1. Base' = GRANULARITY * next[0]
    <3>1. 0 \in Wheels /\ 0 # c
      BY <1>1, Sizes
    <3>2. QED
      BY <1>1, <1>4, <1>5, <3>1 DEF TurnsFit
  <2>2. ASSUME NEW k \in Wheels, k < WHEEL_NUM - 1
        PROVE  next[k] = Size(k) * (next[k + 1] + Owed(k + 1)') + spokeIndex_'[k]
    <3>1. turn[k] = Size(k) * (turn[k + 1] + Owed(k + 1)) + spokeIndex_[k]
      BY <1>4, <2>2 DEF TurnsFit
    <3>2. k \in Nat /\ k + 1 \in Wheels /\ k + 1 # 0 /\ turn[k + 1] \in Nat /\ turn[k] \in Nat
      BY <2>2, Sizes
    <3>3. Owed(k + 1)' = IF Wraps(c) /\ k + 1 = c + 1 THEN 1 ELSE 0
      BY <1>7, <3>2
    <3>4. CASE k + 1 = c
      <4>1. k # c /\ k + 1 # c + 1
        BY <1>1, <3>2, <3>4
      <4>2. Owed(k + 1)' = 0 /\ Owed(k + 1) = 1
        BY <1>6, <3>3, <3>4, <4>1
      <4>3. next[k] = turn[k] /\ spokeIndex_'[k] = spokeIndex_[k] /\ next[k + 1] = turn[k + 1] + 1
        BY <1>5, <1>8, <2>2, <3>4, <4>1
      <4>4. next[k + 1] + Owed(k + 1)' = turn[k + 1] + Owed(k + 1)
        BY <3>2, <4>2, <4>3
      <4>5. QED
        BY <3>1, <4>3, <4>4
    <3>5. CASE k = c
      <4>1. k + 1 # c /\ Owed(k + 1) = 0 /\ next[k + 1] = turn[k + 1]
        BY <1>1, <1>5, <1>6, <3>2, <3>5
      <4>2. turn[k] = Size(k) * turn[k + 1] + spokeIndex_[k]
        BY <3>1, <3>2, <4>1
      <4>3. Size(k) \in Nat /\ spokeIndex_[k] \in Nat /\ spokeIndex_[k] < Size(k) /\ Size(k) * turn[k + 1] \in Nat
        BY <1>8, <2>2, <3>2
      <4>4. CASE Wraps(c)
        <5>1. spokeIndex_[k] + 1 = Size(k) /\ spokeIndex_'[k] = 0 /\ Owed(k + 1)' = 1
          BY <1>8, <3>3, <3>5, <4>3, <4>4 DEF Wraps
        <5>2. Size(k) * (turn[k + 1] + 1) = Size(k) * turn[k + 1] + Size(k)
          BY <3>2, <4>3
        <5>3. turn[k] + 1 = Size(k) * (turn[k + 1] + 1) + 0
          BY <3>2, <4>2, <4>3, <5>1, <5>2
        <5>4. QED
          BY <1>5, <3>5, <4>1, <5>1, <5>3
      <4>5. CASE ~Wraps(c)
        <5>1. spokeIndex_'[k] = spokeIndex_[k] + 1 /\ Owed(k + 1)' = 0
          BY <1>8, <3>3, <3>5, <4>5
        <5>2. turn[k + 1] + 0 = turn[k + 1]
          BY <3>2
        <5>3. turn[k] + 1 = Size(k) * (turn[k + 1] + 0) + (spokeIndex_[k] + 1)
          BY <3>2, <4>2, <4>3, <5>2
        <5>4. QED
          BY <1>5, <3>5, <4>1, <5>1, <5>3
      <4>6. QED
        BY <4>4, <4>5
    <3>6. CASE k + 1 # c /\ k # c
      <4>1. k + 1 # c + 1
        BY <1>1, <3>2, <3>6
      <4>2. Owed(k + 1)' = 0 /\ Owed(k + 1) = 0
        BY <1>6, <3>3, <3>6, <4>1
      <4>3. next[k] = turn[k] /\ spokeIndex_'[k] = spokeIndex_[k] /\ next[k + 1] = turn[k + 1]
        BY <1>5, <1>8, <2>2, <3>2, <3>6
      <4>4. QED
        BY <3>1, <4>2, <4>3
    <3>7. QED
      BY <3>4, <3>5, <3>6
  <2>3. QED
    BY <1>1, <1>9, <2>1, <2>2 DEF TurnsFit
<1>11. LateSpokes(next)'
  <2>1. ASSUME NEW s \in Slots, NEW t \in spokes_'[s]
        PROVE  GRANULARITY * TickOf(next, s)' <= timerMap_'[t].deadTime + After(t)'
    <3>1. s[1] \in Wheels /\ Distance(s) \in Nat /\ turn[s[1]] \in Nat /\ next[s[1]] \in Nat
      BY <1>1, <1>5, Places
    <3>2. CASE t \in spokes_[s] /\ s # Emptied
      <4>1. NeverInTwoPlaces /\ Again \subseteq spokes_[Emptied]
        BY <1>1 DEF Filed, Again
      <4>2. t \in Live /\ t \notin Again
        BY <1>1, <3>2, <4>1 DEF Filed, NeverInTwoPlaces
      <4>3. After(t)' = After(t)
        BY <1>1, <4>2, Kept DEF After
      <4>4. next[s[1]] + Distance(s)' = turn[s[1]] + Distance(s)
        <5>1. CASE s[1] # c
          BY <1>1, <1>2, <1>5, <3>1, <5>1, OneNearer
        <5>2. CASE s[1] = c
          <6>1. Distance(s)' = Distance(s) - 1
            BY <1>1, <1>2, <3>2, <5>2, OneNearer DEF Emptied, c
          <6>2. QED
            BY <1>5, <3>1, <5>2, <6>1
        <5>3. QED
          BY <5>1, <5>2
      <4>5. TickOf(next, s)' = TickOf(turn, s)
        BY <4>4 DEF TickOf
      <4>6. GRANULARITY * TickOf(turn, s) <= timerMap_[t].deadTime + After(t)
        BY <1>4, <3>2 DEF LateSpokes
      <4>7. QED
        BY <1>2, <4>3, <4>5, <4>6
    <3>3. CASE t \in Again /\ s = SlotOf(Left(t), Passed)
      <4>1. GRANULARITY * (Threshold[s[1]] * next[s[1]]) <= Base
        BY <1>9, <3>1
      <4>2. GRANULARITY * (Threshold[s[1]] * (next[s[1]] + Distance(s)' + Whole(s[1])))
              <= timerMap_[t].deadTime + After(t)'
        BY <3>1, <3>3, <4>1, CascadeKeepsTime
      <4>3. QED
        BY <1>2, <4>2 DEF TickOf
    <3>4. QED
      BY <1>1, <2>1, <3>2, <3>3
  <2>2. QED
    BY <2>1 DEF LateSpokes
<1>12. QED
  BY <1>5, <1>10, <1>11 DEF TurnsAgree
-----------------------------------------------------------------------------
(* The other steps. *)

LEMMA Begins ==
  ASSUME Init
  PROVE  Inv
<1>1. Live = {}
  BY DEF Init, Live
<1>2. 0 \in Wheels /\ \A k \in Wheels : Size(k) \in Nat \ {0}
  BY Sizes
<1>3. TypeOK
  <2>1. spokeIndex_ \in [Wheels -> Nat] /\ \A k \in Wheels : spokeIndex_[k] < Size(k)
    BY <1>2 DEF Init
  <2>2. timerMap_ \in [Live -> [deadTime : Nat, interval : Nat, type : Types]]
    BY <1>1 DEF Init
  <2>3. spokes_ \in [Slots -> SUBSET Timers] /\ lag \in [Timers -> Int]
    BY DEF Init
  <2>4. /\ cascading \in Wheels /\ readyTimers_ \subseteq Timers /\ current \in Timers \cup {None}
        /\ Live \subseteq Timers
    BY <1>1, <1>2 DEF Init
  <2>5. QED
    BY <2>1, <2>2, <2>3, <2>4 DEF TypeOK, Init
<1>4. \A s \in Slots : spokes_[s] = {}
  BY DEF Init
<1>5. Filed
  <2>1. readyTimers_ = {} /\ current = None
    BY DEF Init
  <2>2. NeverInTwoPlaces
    BY <1>4, <2>1 DEF NeverInTwoPlaces
  <2>3. QED
    BY <1>1, <1>4, <2>1, <2>2 DEF Filed
<1>6. StagesFit
  BY Sizes DEF Init, StagesFit
<1>7. ClocksFit
  BY <1>1, Sizes DEF Init, ClocksFit
<1>8. EarlySpokes /\ EarlyReady
  BY <1>4 DEF Init, EarlySpokes, EarlyReady
<1>9. TurnsAgree
  <2> DEFINE turn == [k \in Wheels |-> 0]
  <2>1. turn \in [Wheels -> Nat] /\ \A k \in Wheels : turn[k] = 0
    OBVIOUS
  <2>2. Base = 0 /\ (\A k : Owed(k) = 0) /\ \A k \in Wheels : spokeIndex_[k] = 0
    BY DEF Init, Base, Owed
  <2> HIDE DEF turn
  <2>3. Base = GRANULARITY * turn[0]
    BY <1>2, <2>1, <2>2, Sizes
  <2>4. ASSUME NEW k \in Wheels, k < WHEEL_NUM - 1
        PROVE  turn[k] = Size(k) * (turn[k + 1] + Owed(k + 1)) + spokeIndex_[k]
    <3>1. k + 1 \in Wheels /\ Size(k) \in Nat
      BY <1>2, <2>4, Sizes
    <3>2. turn[k] = 0 /\ turn[k + 1] = 0 /\ Owed(k + 1) = 0 /\ spokeIndex_[k] = 0
      BY <2>1, <2>2, <3>1
    <3>3. QED
      BY <3>1, <3>2
  <2>5. ASSUME NEW k \in Wheels
        PROVE  GRANULARITY * (Threshold[k] * turn[k]) <= Base
    <3>1. Threshold[k] \in Nat \ {0} /\ GRANULARITY \in Nat \ {0} /\ turn[k] = 0
      BY <2>1, ThresholdsPositive, Sizes
    <3>2. GRANULARITY * (Threshold[k] * turn[k]) = 0
      BY <3>1
    <3>3. QED
      BY <2>2, <3>2
  <2>6. TurnsFit(turn)
    BY <2>3, <2>4, <2>5 DEF TurnsFit
  <2>7. LateSpokes(turn)
    BY <1>4 DEF LateSpokes
  <2>8. QED
    BY <2>1, <2>6, <2>7 DEF TurnsAgree
<1>10. QED
  BY <1>3, <1>5, <1>6, <1>7, <1>8, <1>9 DEF Inv

\* Steps that touch neither a timer nor a list.
LEMMA Waits ==
  ASSUME Inv, TypeOK',
         UNCHANGED <<spokes_, spokeIndex_, timerMap_, lag, checkTime_, cascading,
                     readyTimers_, current>>,
         pc' = "cascade" <=> pc = "cascade",
         nowTime_' = nowTime_ \/ (readyTimers_ = {} /\ current = None)
  PROVE  Filed' /\ EarlySpokes' /\ EarlyReady' /\ TurnsAgree'
<1>1. Live' = Live /\ \A t : Before(t)' = Before(t)
  BY DEF Live, Before
<1>2. Filed'
  BY <1>1 DEF Inv, Filed, NeverInTwoPlaces
<1>3. EarlyReady'
  BY <1>1 DEF Inv, EarlyReady
<1>4. Followed
  BY DEF Followed
<1>5. QED
  BY <1>2, <1>3, <1>4, SpokesFollow DEF Inv

LEMMA AdvanceKeeps ==
  ASSUME Inv, Advance
  PROVE  Inv'
<1>1. /\ TypeOK /\ StagesFit /\ ClocksFit
      /\ clock' = clock + 1 /\ clock - checkTime_ < MaxLag /\ MaxLag \in Nat
      /\ UNCHANGED <<pc, setBack, pollReturn, checkTime_, nowTime_, ticksLeft, cascading,
                     spokeIndex_, spokes_, readyTimers_, current, timerMap_, lag>>
  BY Sizes DEF Inv, Advance, wheels
<1>2. Live' = Live
  BY <1>1 DEF Live
<1>3. TypeOK'
  BY <1>1, <1>2 DEF TypeOK
<1>4. StagesFit'
  BY <1>1 DEF StagesFit
<1>5. ClocksFit'
  <2>1. clock' <= checkTime_' + MaxLag
    BY <1>1 DEF TypeOK
  <2>2. QED
    BY <1>1, <1>2, <2>1 DEF ClocksFit
<1>6. QED
  BY <1>1, <1>3, <1>4, <1>5, Waits DEF Inv

LEMMA SetBackKeeps ==
  ASSUME Inv, NEW step \in Steps, SetBack(step)
  PROVE  Inv'
<1>1. /\ TypeOK /\ StagesFit /\ ClocksFit
      /\ clock' = clock - step /\ step <= clock /\ setBack' = TRUE /\ MaxLag \in Nat /\ step \in Nat
      /\ UNCHANGED <<pc, pollReturn, checkTime_, nowTime_, ticksLeft, cascading,
                     spokeIndex_, spokes_, readyTimers_, current, timerMap_, lag>>
  BY Sizes DEF Inv, SetBack, wheels
<1>2. Live' = Live
  BY <1>1 DEF Live
<1>3. clock \in Nat /\ clock' \in Nat /\ clock' <= clock /\ checkTime_ \in Nat
  BY <1>1 DEF TypeOK
<1>4. TypeOK'
  BY <1>1, <1>2, <1>3 DEF TypeOK
<1>5. StagesFit'
  BY <1>1 DEF StagesFit
<1>6. ClocksFit'
  <2>1. clock <= checkTime_ + MaxLag
    BY <1>1, Zenon DEF ClocksFit
  <2>2. clock' <= checkTime_' + MaxLag
    BY <1>1, <1>3, <2>1
  <2>3. QED
    BY <1>1, <1>2, <2>2 DEF ClocksFit
<1>7. QED
  BY <1>1, <1>4, <1>5, <1>6, Waits DEF Inv

LEMMA PollReturnsKeeps ==
  ASSUME Inv, PollReturns
  PROVE  Inv'
<1>1. /\ TypeOK /\ StagesFit /\ ClocksFit
      /\ pc = "outside" /\ pc' = "events" /\ pollReturn' = clock
      /\ UNCHANGED <<clock, setBack, checkTime_, nowTime_, ticksLeft, cascading,
                     spokeIndex_, spokes_, readyTimers_, current, timerMap_, lag>>
  BY DEF Inv, PollReturns, wheels, wall
<1>2. Live' = Live
  BY <1>1 DEF Live
<1>3. TypeOK'
  BY <1>1, <1>2 DEF TypeOK
<1>4. StagesFit'
  BY <1>1 DEF StagesFit
<1>5. ClocksFit'
  BY <1>1, <1>2 DEF ClocksFit
<1>6. QED
  BY <1>1, <1>3, <1>4, <1>5, Waits DEF Inv

LEMMA DetectKeeps ==
  ASSUME Inv, Detect
  PROVE  Inv'
<1>1. /\ TypeOK /\ StagesFit /\ ClocksFit /\ GRANULARITY \in Nat \ {0}
      /\ pc = "events" /\ pc' = "ticks" /\ nowTime_' = pollReturn
      /\ ticksLeft' = IF pollReturn > checkTime_
                      THEN (pollReturn - checkTime_) \div GRANULARITY
                      ELSE 0
      /\ UNCHANGED <<clock, setBack, pollReturn, checkTime_, cascading,
                     spokeIndex_, spokes_, readyTimers_, current, timerMap_, lag>>
  BY Sizes DEF Inv, Detect, wheels, wall
<1>2. Live' = Live
  BY <1>1 DEF Live
<1>3. pollReturn \in Nat /\ checkTime_ \in Nat
  BY <1>1 DEF TypeOK
<1>4. /\ ticksLeft' \in Nat
      /\ pollReturn < checkTime_ + GRANULARITY * (ticksLeft' + 1)
      /\ ticksLeft' > 0 => pollReturn >= checkTime_ + GRANULARITY * ticksLeft'
  <2>1. CASE pollReturn > checkTime_
    <3> DEFINE ahead == pollReturn - checkTime_
    <3>1. ahead \in Nat /\ pollReturn = checkTime_ + ahead /\ ticksLeft' = ahead \div GRANULARITY
      BY <1>1, <1>3, <2>1
    <3> HIDE DEF ahead
    <3>2. /\ ticksLeft' \in Nat
          /\ GRANULARITY * ticksLeft' <= ahead /\ ahead < GRANULARITY * ticksLeft' + GRANULARITY
      BY <1>1, <3>1, Division
    <3>3. /\ GRANULARITY * (ticksLeft' + 1) = GRANULARITY * ticksLeft' + GRANULARITY
          /\ GRANULARITY * ticksLeft' \in Nat
      BY <1>1, <3>2
    <3>4. QED
      BY <1>1, <1>3, <3>1, <3>2, <3>3
  <2>2. CASE ~(pollReturn > checkTime_)
    <3>1. ticksLeft' = 0 /\ GRANULARITY * (ticksLeft' + 1) = GRANULARITY
      BY <1>1, <2>2
    <3>2. QED
      BY <1>1, <1>3, <2>2, <3>1
  <2>3. QED
    BY <2>1, <2>2
<1>5. TypeOK'
  BY <1>1, <1>2, <1>3, <1>4 DEF TypeOK
<1>6. readyTimers_ = {} /\ current = None
  BY <1>1 DEF StagesFit
<1>7. StagesFit'
  BY <1>1, <1>4, <1>6 DEF StagesFit
<1>8. ClocksFit'
  BY <1>1, <1>2 DEF ClocksFit
<1>9. QED
  BY <1>1, <1>5, <1>6, <1>7, <1>8, Waits DEF Inv

LEMMA TicksDoneKeeps ==
  ASSUME Inv, TicksDone
  PROVE  Inv'
<1>1. /\ TypeOK /\ StagesFit /\ ClocksFit /\ GRANULARITY \in Nat \ {0}
      /\ pc = "ticks" /\ pc' = "ready" /\ ticksLeft = 0
      /\ UNCHANGED <<clock, setBack, pollReturn, checkTime_, nowTime_, ticksLeft, cascading,
                     spokeIndex_, spokes_, readyTimers_, current, timerMap_, lag>>
  BY Sizes DEF Inv, TicksDone, wheels, times, wall
<1>2. Live' = Live
  BY <1>1 DEF Live
<1>3. TypeOK'
  BY <1>1, <1>2 DEF TypeOK
<1>4. StagesFit'
  <2>1. nowTime_ < checkTime_ + GRANULARITY * (ticksLeft + 1)
    BY <1>1 DEF StagesFit
  <2>2. GRANULARITY * (ticksLeft + 1) = GRANULARITY
    BY <1>1
  <2>3. nowTime_' < checkTime_' + GRANULARITY /\ current' = None
    BY <1>1, <2>1, <2>2 DEF StagesFit
  <2>4. QED
    BY <1>1, <2>3 DEF StagesFit
<1>5. ClocksFit'
  BY <1>1, <1>2 DEF ClocksFit
<1>6. QED
  BY <1>1, <1>3, <1>4, <1>5, Waits DEF Inv

LEMMA ReadyDoneKeeps ==
  ASSUME Inv, ReadyDone
  PROVE  Inv'
<1>1. /\ TypeOK /\ StagesFit /\ ClocksFit
      /\ pc = "ready" /\ pc' = "outside" /\ current = None /\ readyTimers_ = {}
      /\ UNCHANGED <<clock, setBack, pollReturn, checkTime_, nowTime_, ticksLeft, cascading,
                     spokeIndex_, spokes_, readyTimers_, current, timerMap_, lag>>
  BY DEF Inv, ReadyDone, wheels, times, wall
<1>2. Live' = Live
  BY <1>1 DEF Live
<1>3. TypeOK'
  BY <1>1, <1>2 DEF TypeOK
<1>4. StagesFit'
  BY <1>1 DEF StagesFit
<1>5. ClocksFit'
  BY <1>1, <1>2 DEF ClocksFit
<1>6. QED
  BY <1>1, <1>3, <1>4, <1>5, Waits DEF Inv

LEMMA NothingKeeps ==
  ASSUME Inv, UNCHANGED vars
  PROVE  Inv'
<1>1. UNCHANGED <<pc, clock, setBack, pollReturn, checkTime_, nowTime_, ticksLeft, cascading,
                  spokeIndex_, spokes_, readyTimers_, current, timerMap_, lag>>
  BY DEF vars, wheels, times, wall
<1>2. Live' = Live /\ TypeOK /\ StagesFit /\ ClocksFit
  BY <1>1 DEF Live, Inv
<1>3. TypeOK'
  BY <1>1, <1>2 DEF TypeOK
<1>4. StagesFit'
  BY <1>1, <1>2 DEF StagesFit
<1>5. ClocksFit'
  BY <1>1, <1>2 DEF ClocksFit
<1>6. QED
  BY <1>1, <1>3, <1>4, <1>5, Waits DEF Inv
LEMMA CallReadyKeeps ==
  ASSUME Inv, NEW t \in Timers, CallReady(t)
  PROVE  Inv'
<1>1. /\ TypeOK /\ Filed /\ StagesFit /\ ClocksFit /\ EarlyReady /\ None \notin Timers
      /\ pc = "ready" /\ current = None /\ t \in readyTimers_
      /\ current' = t /\ readyTimers_' = readyTimers_ \ {t}
      /\ UNCHANGED <<pc, clock, setBack, pollReturn, checkTime_, nowTime_, ticksLeft, cascading,
                     spokeIndex_, spokes_, timerMap_, lag>>
  BY Sizes DEF Inv, CallReady, wheels, times, wall
<1>2. Live' = Live /\ \A u : Before(u)' = Before(u)
  BY <1>1 DEF Live, Before
<1>3. TypeOK'
  BY <1>1, <1>2 DEF TypeOK
<1>4. Filed'
  <2>1. NeverInTwoPlaces'
    BY <1>1 DEF Filed, NeverInTwoPlaces
  <2>2. /\ \A s \in Slots : spokes_'[s] \subseteq Live'
        /\ readyTimers_' \subseteq Live'
        /\ current' \in Live'
    BY <1>1, <1>2 DEF Filed
  <2>3. \A u \in Live' : u = current' \/ u \in readyTimers_' \/ \E s \in Slots : u \in spokes_'[s]
    <3>1. ASSUME NEW u \in Live'
          PROVE  u = current' \/ u \in readyTimers_' \/ \E s \in Slots : u \in spokes_'[s]
      <4>1. u \in readyTimers_ \/ \E s \in Slots : u \in spokes_[s]
        <5>1. u \in Timers /\ u # None
          BY <1>1, <1>2 DEF TypeOK
        <5>2. QED
          BY <1>1, <1>2, <5>1 DEF Filed
      <4>2. QED
        BY <1>1, <4>1
    <3>2. QED
      BY <3>1
  <2>4. QED
    BY <2>1, <2>2, <2>3 DEF Filed
<1>5. StagesFit'
  BY <1>1 DEF StagesFit
<1>6. ClocksFit'
  BY <1>1, <1>2 DEF ClocksFit
<1>7. EarlyReady'
  BY <1>1, <1>2 DEF EarlyReady
<1>8. EarlySpokes' /\ TurnsAgree'
  <2>1. Followed
    BY <1>1 DEF Followed
  <2>2. QED
    BY <1>1, <1>3, <2>1, SpokesFollow DEF Inv
<1>9. QED
  BY <1>3, <1>4, <1>5, <1>6, <1>7, <1>8 DEF Inv

LEMMA RemoveTimerKeeps ==
  ASSUME Inv, NEW t \in Timers, RemoveTimer(t)
  PROVE  Inv'
<1>1. /\ TypeOK /\ Filed /\ StagesFit /\ ClocksFit /\ EarlyReady
      /\ t \in Live /\ t \notin readyTimers_ /\ t # current
      /\ timerMap_' = [u \in Live \ {t} |-> timerMap_[u]]
      /\ lag' = [lag EXCEPT ![t] = 0]
      /\ spokes_' = [slot \in Slots |-> spokes_[slot] \ {t}]
      /\ UNCHANGED <<pc, clock, setBack, pollReturn, checkTime_, nowTime_, ticksLeft, cascading,
                     spokeIndex_, readyTimers_, current>>
  BY DEF Inv, RemoveTimer, Erase, Unlink, times, wall
<1>2. /\ Live' = Live \ {t}
      /\ \A u \in Live' : timerMap_'[u] = timerMap_[u]
      /\ \A s \in Slots : spokes_'[s] = spokes_[s] \ {t}
  BY <1>1 DEF Live
<1>3. \A u \in Live' : lag'[u] = lag[u] /\ Before(u)' = Before(u)
  BY <1>1, <1>2 DEF Before, TypeOK
<1>4. TypeOK'
  <2>1. timerMap_' \in [Live' -> [deadTime : Nat, interval : Nat, type : Types]] /\ Live' \subseteq Timers
    BY <1>1, <1>2 DEF TypeOK
  <2>2. spokes_' \in [Slots -> SUBSET Timers] /\ lag' \in [Timers -> Int]
    BY <1>1 DEF TypeOK
  <2>3. QED
    BY <1>1, <2>1, <2>2 DEF TypeOK
<1>5. Filed'
  <2>1. NeverInTwoPlaces'
    BY <1>1, <1>2 DEF Filed, NeverInTwoPlaces
  <2>2. QED
    BY <1>1, <1>2, <2>1 DEF Filed
<1>6. StagesFit'
  BY <1>1 DEF StagesFit
<1>7. ClocksFit'
  BY <1>1, <1>2 DEF ClocksFit
<1>8. EarlyReady'
  <2>1. ASSUME NEW u \in readyTimers_' \cup ({current'} \ {None})
        PROVE  timerMap_'[u].deadTime - Before(u)' <= nowTime_'
    <3>1. u \in readyTimers_ \cup ({current} \ {None})
      BY <1>1
    <3>2. u \in Live'
      BY <1>1, <1>2, <3>1 DEF Filed
    <3>3. QED
      BY <1>1, <1>2, <1>3, <3>1, <3>2 DEF EarlyReady
  <2>2. QED
    BY <2>1 DEF EarlyReady
<1>9. EarlySpokes' /\ TurnsAgree'
  <2>1. \A s \in Slots : \A u \in spokes_'[s] : u \in spokes_[s] /\ u \in Live'
    BY <1>1, <1>2 DEF Filed
  <2>2. Followed
    BY <1>1, <1>2, <1>3, <2>1 DEF Followed
  <2>3. QED
    BY <1>1, <1>4, <2>2, SpokesFollow DEF Inv
<1>10. QED
  BY <1>4, <1>5, <1>6, <1>7, <1>8, <1>9 DEF Inv

\* addTimerNode() puts the timer into a spoke.
LEMMA NodeAdded ==
  ASSUME TypeOK, NEW t \in Timers, NEW d \in Delays, AddTimerNode(t, d)
  PROVE  /\ spokes_' \in [Slots -> SUBSET Timers]
         /\ \E slot \in Slots : /\ slot = SlotOf(d, spokeIndex_)
                                /\ \A s \in Slots : spokes_'[s] = IF s = slot THEN spokes_[s] \cup {t}
                                                                  ELSE spokes_[s]
<1> DEFINE slot == SlotOf(d, spokeIndex_)
<1>1. slot \in Slots
  <2> DEFINE k == slot[1]
             gap == Gap(slot, IF spokeIndex_[k] = Size(k) THEN 0 ELSE spokeIndex_[k])
  <2>1. d \in Nat /\ d < GRANULARITY * Threshold[WHEEL_NUM]
    BY DelaysAreShort, Sizes
  <2>2. spokeIndex_ \in [Wheels -> Nat] /\ \A w \in Wheels : spokeIndex_[w] <= Size(w)
    BY Places, Sizes
  <2>3. slot = SlotOf(d, spokeIndex_) /\ k = slot[1]
        /\ gap = Gap(slot, IF spokeIndex_[k] = Size(k) THEN 0 ELSE spokeIndex_[k])
    OBVIOUS
  <2> HIDE DEF slot, k, gap
  <2>4. QED
    BY <2>1, <2>2, <2>3, SlotFits
<1>2. spokes_' = [spokes_ EXCEPT ![slot] = @ \cup {t}] /\ spokes_ \in [Slots -> SUBSET Timers]
  BY DEF AddTimerNode, TypeOK
<1>3. slot = SlotOf(d, spokeIndex_)
  OBVIOUS
<1> HIDE DEF slot
<1>4. spokes_' \in [Slots -> SUBSET Timers]
  BY <1>1, <1>2
<1>5. \A s \in Slots : spokes_'[s] = IF s = slot THEN spokes_[s] \cup {t} ELSE spokes_[s]
  BY <1>1, <1>2
<1>6. QED
  BY <1>1, <1>3, <1>4, <1>5

LEMMA OneMoreNode ==
  ASSUME NeverInTwoPlaces, NEW t, NEW slot \in Slots,
         \A s \in Slots : t \notin spokes_[s],
         \A s \in Slots : spokes_'[s] = IF s = slot THEN spokes_[s] \cup {t} ELSE spokes_[s],
         \A s \in Slots : spokes_[s] \cap (readyTimers_' \cup {current'}) = {},
         current' \notin readyTimers_' /\ t \notin readyTimers_' /\ t # current'
  PROVE  NeverInTwoPlaces'
<1>1. \A s1, s2 \in Slots : s1 # s2 => spokes_'[s1] \cap spokes_'[s2] = {}
  <2>1. ASSUME NEW s1 \in Slots, NEW s2 \in Slots, s1 # s2,
               NEW u \in spokes_'[s1], u \in spokes_'[s2]
        PROVE  FALSE
    <3>1. spokes_[s1] \cap spokes_[s2] = {}
      BY <2>1 DEF NeverInTwoPlaces
    <3>2. /\ u \in spokes_[s1] \/ (s1 = slot /\ u = t)
          /\ u \in spokes_[s2] \/ (s2 = slot /\ u = t)
      BY <2>1
    <3>3. QED
      BY <2>1, <3>1, <3>2
  <2>2. QED
    BY <2>1
<1>2. \A s \in Slots : spokes_'[s] \cap (readyTimers_' \cup {current'}) = {}
  <2>1. ASSUME NEW s \in Slots, NEW u \in spokes_'[s]
        PROVE  u \notin readyTimers_' /\ u # current'
    <3>1. u \in spokes_[s] \/ u = t
      BY <2>1
    <3>2. QED
      BY <3>1
  <2>2. QED
    BY <2>1
<1>3. QED
  BY <1>1, <1>2 DEF NeverInTwoPlaces

LEMMA RunKeeps ==
  ASSUME Inv, NEW t \in Timers, NEW d \in Delays, NEW type \in Types, Run(t, d, type)
  PROVE  Inv'
<1>1. /\ TypeOK /\ Filed /\ StagesFit /\ ClocksFit /\ EarlyReady /\ None \notin Timers
      /\ d \in Nat /\ MaxLag \in Nat
      /\ UserCode /\ t \notin Live
      /\ timerMap_' = [u \in Live \cup {t} |->
                         IF u = t THEN [deadTime |-> clock + d, interval |-> d, type |-> type]
                                  ELSE timerMap_[u]]
      /\ lag' = [lag EXCEPT ![t] = clock - checkTime_]
      /\ UNCHANGED <<pc, clock, setBack, pollReturn, checkTime_, nowTime_, ticksLeft, cascading,
                     spokeIndex_, readyTimers_, current>>
      /\ AddTimerNode(t, d)
  BY Sizes DEF Inv, Run, times, wall
<1>2. PICK slot \in Slots : /\ slot = SlotOf(d, spokeIndex_)
                            /\ \A s \in Slots : spokes_'[s] = IF s = slot THEN spokes_[s] \cup {t}
                                                              ELSE spokes_[s]
  BY <1>1, NodeAdded
<1>3. clock \in Nat /\ checkTime_ \in Nat
  BY <1>1 DEF TypeOK
<1>4. /\ Live' = Live \cup {t}
      /\ \A u \in Live : timerMap_'[u] = timerMap_[u]
      /\ timerMap_'[t].deadTime = clock + d /\ timerMap_'[t].interval = d
      /\ timerMap_'[t] = [deadTime |-> clock + d, interval |-> d, type |-> type]
  BY <1>1 DEF Live
<1>5. lag'[t] = clock - checkTime_ /\ \A u \in Live : lag'[u] = lag[u] /\ Before(u)' = Before(u)
  BY <1>1 DEF Before, TypeOK
<1>6. TypeOK'
  <2>1. timerMap_' \in [Live' -> [deadTime : Nat, interval : Nat, type : Types]]
    <3>1. clock + d \in Nat
      BY <1>1, <1>3
    <3>2. [deadTime |-> clock + d, interval |-> d, type |-> type] \in [deadTime : Nat, interval : Nat, type : Types]
      BY <1>1, <3>1
    <3>3. timerMap_ \in [Live -> [deadTime : Nat, interval : Nat, type : Types]]
      BY <1>1 DEF TypeOK
    <3>4. QED
      BY <1>1, <1>4, <3>2, <3>3
  <2>2. Live' \subseteq Timers
    BY <1>1, <1>4 DEF TypeOK
  <2>3. spokes_' \in [Slots -> SUBSET Timers]
    BY <1>1, NodeAdded
  <2>4. lag' \in [Timers -> Int]
    <3>1. clock - checkTime_ \in Int /\ lag \in [Timers -> Int]
      BY <1>1, <1>3 DEF TypeOK
    <3>2. QED
      BY <1>1, <3>1
  <2>5. QED
    BY <1>1, <2>1, <2>2, <2>3, <2>4 DEF TypeOK
<1>7. Filed'
  <2>1. /\ \A s \in Slots : t \notin spokes_[s]
        /\ t \notin readyTimers_ /\ t # current
    BY <1>1 DEF Filed
  <2>2. NeverInTwoPlaces'
    <3>1. NeverInTwoPlaces
      BY <1>1 DEF Filed
    <3>2. \A s \in Slots : spokes_[s] \cap (readyTimers_' \cup {current'}) = {}
      BY <1>1, <3>1 DEF NeverInTwoPlaces
    <3>3. current' \notin readyTimers_' /\ t \notin readyTimers_' /\ t # current'
      BY <1>1, <2>1, <3>1 DEF NeverInTwoPlaces
    <3>4. QED
      BY <1>2, <2>1, <3>1, <3>2, <3>3, OneMoreNode
  <2>3. /\ \A s \in Slots : spokes_'[s] \subseteq Live'
        /\ readyTimers_' \subseteq Live'
        /\ current' # None => current' \in Live'
    BY <1>1, <1>2, <1>4 DEF Filed
  <2>4. \A u \in Live' : u = current' \/ u \in readyTimers_' \/ \E s \in Slots : u \in spokes_'[s]
    BY <1>1, <1>2, <1>4 DEF Filed
  <2>5. QED
    BY <2>2, <2>3, <2>4 DEF Filed
<1>8. StagesFit'
  BY <1>1 DEF StagesFit
<1>9. ClocksFit'
  <2>1. clock <= checkTime_ + MaxLag
    BY <1>1, Zenon DEF ClocksFit
  <2>2. clock + d <= checkTime_ + MaxLag + d
    BY <1>1, <1>3, <2>1
  <2>3. \A u \in Live' : /\ timerMap_'[u].interval \in Delays
                         /\ timerMap_'[u].deadTime <= checkTime_' + MaxLag + timerMap_'[u].interval
    BY <1>1, <1>4, <2>2 DEF ClocksFit
  <2>4. QED
    BY <1>1, <2>3 DEF ClocksFit
<1>10. EarlyReady'
  BY <1>1, <1>4, <1>5 DEF EarlyReady, Filed
<1>11. EarlySpokes' /\ TurnsAgree'
  <2>1. pc # "cascade"
    BY <1>1 DEF UserCode, StagesFit
  <2>2. Placed(t, slot)
    BY <1>2, <1>3, <1>4, <1>5 DEF Placed
  <2>3. \A s \in Slots : \A u \in spokes_[s] : u \in Live
    BY <1>1 DEF Filed
  <2>4. ASSUME NEW s \in Slots, NEW u \in spokes_'[s]
        PROVE  \/ /\ u \in spokes_[s]
                  /\ timerMap_'[u].deadTime = timerMap_[u].deadTime
                  /\ lag'[u] = lag[u]
               \/ pc # "cascade" /\ Placed(u, s)
    BY <1>2, <1>4, <1>5, <2>1, <2>2, <2>3
  <2>5. Followed
    BY <1>1, <2>4 DEF Followed
  <2>6. QED
    BY <1>1, <1>6, <2>5, SpokesFollow DEF Inv
<1>12. QED
  BY <1>6, <1>7, <1>8, <1>9, <1>10, <1>11 DEF Inv
\* A disposable timer is deleted after its call.
LEMMA DisposableKeeps ==
  ASSUME Inv, CallbackReturns, timerMap_[current].type = "Disposable"
  PROVE  Inv'
<1>1. /\ TypeOK /\ Filed /\ StagesFit /\ ClocksFit /\ EarlyReady /\ None \notin Timers
      /\ current # None /\ current' = None
      /\ timerMap_' = [u \in Live \ {current} |-> timerMap_[u]]
      /\ lag' = [lag EXCEPT ![current] = 0]
      /\ UNCHANGED <<pc, clock, setBack, pollReturn, checkTime_, nowTime_, ticksLeft, cascading,
                     spokeIndex_, spokes_, readyTimers_>>
  BY Sizes DEF Inv, CallbackReturns, Erase, times, wall
<1>2. /\ current \in Live /\ current \in Timers
      /\ Live' = Live \ {current}
      /\ \A u \in Live' : timerMap_'[u] = timerMap_[u]
  BY <1>1 DEF Live, Filed, TypeOK
<1>3. \A u \in Live' : lag'[u] = lag[u] /\ Before(u)' = Before(u)
  BY <1>1, <1>2 DEF Before, TypeOK
<1>4. TypeOK'
  <2>1. timerMap_' \in [Live' -> [deadTime : Nat, interval : Nat, type : Types]] /\ Live' \subseteq Timers
    BY <1>1, <1>2 DEF TypeOK
  <2>2. lag' \in [Timers -> Int]
    BY <1>1 DEF TypeOK
  <2>3. QED
    BY <1>1, <2>1, <2>2 DEF TypeOK
<1>5. NeverInTwoPlaces /\ \A s \in Slots : current \notin spokes_[s]
  BY <1>1 DEF Filed, NeverInTwoPlaces
<1>6. Filed'
  <2>1. NeverInTwoPlaces'
    <3>1. readyTimers_ \subseteq Timers /\ \A s \in Slots : spokes_[s] \subseteq Timers
      BY <1>1 DEF TypeOK
    <3>2. QED
      BY <1>1, <1>5, <3>1 DEF NeverInTwoPlaces
  <2>2. \A s \in Slots : spokes_'[s] \subseteq Live'
    BY <1>1, <1>2, <1>5 DEF Filed
  <2>3. readyTimers_' \subseteq Live'
    BY <1>1, <1>2, <1>5 DEF Filed, NeverInTwoPlaces
  <2>4. \A u \in Live' : u = current' \/ u \in readyTimers_' \/ \E s \in Slots : u \in spokes_'[s]
    BY <1>1, <1>2 DEF Filed
  <2>5. QED
    BY <1>1, <2>1, <2>2, <2>3, <2>4 DEF Filed
<1>7. StagesFit'
  BY <1>1 DEF StagesFit
<1>8. ClocksFit'
  BY <1>1, <1>2 DEF ClocksFit
<1>9. EarlyReady'
  <2>1. \A u \in readyTimers_ : u \in Live'
    BY <1>1, <1>6 DEF Filed
  <2>2. QED
    BY <1>1, <1>2, <1>3, <2>1 DEF EarlyReady
<1>10. EarlySpokes' /\ TurnsAgree'
  <2>1. \A s \in Slots : \A u \in spokes_'[s] : u \in spokes_[s] /\ u \in Live'
    BY <1>1, <1>6 DEF Filed
  <2>2. Followed
    BY <1>1, <1>2, <1>3, <2>1 DEF Followed
  <2>3. QED
    BY <1>1, <1>4, <2>2, SpokesFollow DEF Inv
<1>11. QED
  BY <1>4, <1>6, <1>7, <1>8, <1>9, <1>10 DEF Inv

\* The next interval of a recurring timer counts from the time detectTimer() was given.
LEMMA EveryKeeps ==
  ASSUME Inv, CallbackReturns, timerMap_[current].type = "Every"
  PROVE  Inv'
<1> DEFINE t == current
           d == timerMap_[t].interval
<1>1. /\ TypeOK /\ Filed /\ StagesFit /\ ClocksFit /\ EarlyReady /\ None \notin Timers
      /\ t # None /\ current' = None
      /\ timerMap_' = [timerMap_ EXCEPT ![t].deadTime = nowTime_ + d]
      /\ lag' = [lag EXCEPT ![t] = nowTime_ - checkTime_]
      /\ UNCHANGED <<pc, clock, setBack, pollReturn, checkTime_, nowTime_, ticksLeft, cascading,
                     spokeIndex_, readyTimers_>>
      /\ AddTimerNode(t, d) /\ MaxLag \in Nat
  BY Sizes DEF Inv, CallbackReturns, Erase, times, wall
<1>2. t \in Live /\ t \in Timers /\ d \in Delays /\ d \in Nat
  BY <1>1, Kept DEF Filed, ClocksFit
<1>3. NeverInTwoPlaces /\ (\A s \in Slots : t \notin spokes_[s]) /\ t \notin readyTimers_
  BY <1>1 DEF Filed, NeverInTwoPlaces
<1>4. PICK slot \in Slots : /\ slot = SlotOf(d, spokeIndex_)
                            /\ \A s \in Slots : spokes_'[s] = IF s = slot THEN spokes_[s] \cup {t}
                                                              ELSE spokes_[s]
  BY <1>1, <1>2, NodeAdded
<1>5. nowTime_ \in Nat /\ checkTime_ \in Nat
  BY <1>1 DEF TypeOK
<1>6. timerMap_ \in [Live -> [deadTime : Nat, interval : Nat, type : Types]]
  BY <1>1 DEF TypeOK
<1>7. /\ Live' = Live
      /\ \A u \in Live : u # t => timerMap_'[u] = timerMap_[u]
      /\ timerMap_'[t] = [timerMap_[t] EXCEPT !.deadTime = nowTime_ + d]
  BY <1>1, <1>2, <1>6 DEF Live
<1>8. timerMap_'[t].deadTime = nowTime_ + d /\ timerMap_'[t].interval = d
  BY <1>2, <1>6, <1>7
<1>9. lag'[t] = nowTime_ - checkTime_ /\ \A u \in Live : u # t => lag'[u] = lag[u] /\ Before(u)' = Before(u)
  BY <1>1, <1>2 DEF Before, TypeOK
<1> HIDE DEF d
<1>10. TypeOK'
  <2>1. timerMap_' \in [Live' -> [deadTime : Nat, interval : Nat, type : Types]]
    <3>1. nowTime_ + d \in Nat
      BY <1>2, <1>5
    <3>2. timerMap_'[t] \in [deadTime : Nat, interval : Nat, type : Types]
      BY <1>2, <1>6, <1>7, <3>1
    <3>3. QED
      BY <1>1, <1>6, <1>7, <3>2
  <2>2. spokes_' \in [Slots -> SUBSET Timers]
    BY <1>1, <1>2, NodeAdded
  <2>3. lag' \in [Timers -> Int]
    <3>1. nowTime_ - checkTime_ \in Int /\ lag \in [Timers -> Int]
      BY <1>1, <1>5 DEF TypeOK
    <3>2. QED
      BY <1>1, <3>1
  <2>4. Live' \subseteq Timers
    BY <1>1, <1>7 DEF TypeOK
  <2>5. QED
    BY <1>1, <2>1, <2>2, <2>3, <2>4 DEF TypeOK
<1>11. Filed'
  <2>1. NeverInTwoPlaces'
    <3>1. readyTimers_ \subseteq Timers /\ \A s \in Slots : spokes_[s] \subseteq Timers
      BY <1>1 DEF TypeOK
    <3>2. \A s \in Slots : spokes_[s] \cap (readyTimers_' \cup {current'}) = {}
      BY <1>1, <1>3, <3>1 DEF NeverInTwoPlaces
    <3>3. current' \notin readyTimers_' /\ t \notin readyTimers_' /\ t # current'
      BY <1>1, <1>3, <3>1
    <3> HIDE DEF t
    <3>4. QED
      BY <1>3, <1>4, <3>2, <3>3, OneMoreNode
  <2>2. \A s \in Slots : spokes_'[s] \subseteq Live'
    <3>1. \A s \in Slots : spokes_[s] \subseteq Live
      BY <1>1 DEF Filed
    <3>2. QED
      BY <1>2, <1>4, <1>7, <3>1
  <2>3. readyTimers_' \subseteq Live'
    BY <1>1, <1>7 DEF Filed
  <2>4. ASSUME NEW u \in Live'
        PROVE  u = current' \/ u \in readyTimers_' \/ \E s \in Slots : u \in spokes_'[s]
    <3>1. u = t \/ u \in readyTimers_ \/ \E s \in Slots : u \in spokes_[s]
      BY <1>1, <1>7 DEF Filed
    <3>2. QED
      BY <1>1, <1>4, <3>1
  <2>5. QED
    BY <1>1, <2>1, <2>2, <2>3, <2>4 DEF Filed
<1>12. StagesFit'
  BY <1>1 DEF StagesFit
<1>13. ClocksFit'
  <2>1. nowTime_ <= checkTime_ + MaxLag
    BY <1>1, Zenon DEF ClocksFit
  <2>2. nowTime_ + d <= checkTime_ + MaxLag + d
    BY <1>1, <1>2, <1>5, <2>1
  <2>3. ASSUME NEW u \in Live'
        PROVE  /\ timerMap_'[u].interval \in Delays
               /\ timerMap_'[u].deadTime <= checkTime_' + MaxLag + timerMap_'[u].interval
    <3>1. CASE u = t
      BY <1>1, <1>2, <1>8, <2>2, <3>1
    <3>2. CASE u # t
      BY <1>1, <1>7, <3>2 DEF ClocksFit
    <3>3. QED
      BY <3>1, <3>2
  <2>4. QED
    BY <1>1, <2>3 DEF ClocksFit
<1>14. EarlyReady'
  <2>1. \A u \in readyTimers_ : u \in Live /\ u # t
    BY <1>1, <1>3 DEF Filed
  <2>2. QED
    BY <1>1, <1>7, <1>9, <2>1 DEF EarlyReady
<1>15. EarlySpokes' /\ TurnsAgree'
  <2>1. pc # "cascade"
    BY <1>1 DEF StagesFit
  <2>2. Placed(t, slot)
    BY <1>2, <1>4, <1>5, <1>8, <1>9 DEF Placed
  <2>3. \A s \in Slots : \A u \in spokes_[s] : u \in Live /\ u # t
    BY <1>1, <1>3 DEF Filed
  <2>4. ASSUME NEW s \in Slots, NEW u \in spokes_'[s]
        PROVE  \/ /\ u \in spokes_[s]
                  /\ timerMap_'[u].deadTime = timerMap_[u].deadTime
                  /\ lag'[u] = lag[u]
               \/ pc # "cascade" /\ Placed(u, s)
    <3>1. CASE u \in spokes_[s]
      BY <1>7, <1>9, <2>3, <3>1
    <3>2. CASE u \notin spokes_[s]
      <4>1. s = slot /\ u = t
        BY <1>4, <2>4, <3>2
      <4>2. Placed(u, s)
        BY <2>2, <4>1, Zenon
      <4>3. QED
        BY <2>1, <4>2
    <3>3. QED
      BY <3>1, <3>2
  <2>5. Followed
    BY <1>1, <2>4 DEF Followed
  <2>6. QED
    BY <1>1, <1>10, <2>5, SpokesFollow DEF Inv
<1>16. QED
  BY <1>10, <1>11, <1>12, <1>13, <1>14, <1>15 DEF Inv
-----------------------------------------------------------------------------
(* The theorems. *)

LEMMA InvKept ==
  ASSUME Inv, [Next]_vars
  PROVE  Inv'
<1>1. CASE Advance
  BY <1>1, AdvanceKeeps
<1>2. ASSUME NEW step \in Steps, SetBack(step)
      PROVE  Inv'
  BY <1>2, SetBackKeeps
<1>3. CASE PollReturns
  BY <1>3, PollReturnsKeeps
<1>4. ASSUME NEW t \in Timers, NEW d \in Delays, RunAfter(t, d) \/ RunEvery(t, d)
      PROVE  Inv'
  <2>1. \E type \in Types : Run(t, d, type)
    BY <1>4 DEF RunAfter, RunEvery, Types
  <2>2. QED
    BY <2>1, RunKeeps
<1>5. ASSUME NEW t \in Timers, RemoveTimer(t) \/ CallReady(t)
      PROVE  Inv'
  BY <1>5, RemoveTimerKeeps, CallReadyKeeps
<1>6. CASE Detect
  BY <1>6, DetectKeeps
<1>7. CASE Tick
  BY <1>7, TickTypes, TickFiles, TickStages, TickTurns DEF Inv
<1>8. CASE Cascade
  BY <1>8, CascadeTypes, CascadeFiles, CascadeStages, CascadeEarly, CascadeTurns DEF Inv
<1>9. CASE TicksDone
  BY <1>9, TicksDoneKeeps
<1>10. CASE CallbackReturns
  <2>1. timerMap_[current].type = "Disposable" \/ timerMap_[current].type = "Every"
    BY <1>10 DEF CallbackReturns
  <2>2. QED
    BY <1>10, <2>1, DisposableKeeps, EveryKeeps
<1>11. CASE ReadyDone
  BY <1>11, ReadyDoneKeeps
<1>12. CASE UNCHANGED vars
  BY <1>12, NothingKeeps
<1>13. QED
  BY <1>1, <1>2, <1>3, <1>4, <1>5, <1>6, <1>7, <1>8, <1>9, <1>10, <1>11, <1>12 DEF Next

\* Whatever detectTimer() and the callbacks do, in whatever order: every timer is in
\* one list, and every wheel has been turned as often as the time that has passed says,
\* so that the spoke of each timer is reached around its deadline.
THEOREM RecordsAgree == Spec => []Inv
<1>1. Init => Inv
  BY Begins
<1>2. Inv /\ [Next]_vars => Inv'
  BY InvKept
<1>3. QED
  BY <1>1, <1>2, PTL DEF Spec

\* The index of each wheel stays on a spoke of it, for every number and size of wheels
\* and every granularity (addTimerNode() and cascade() index the array of spokes).
THEOREM TypeCorrect == Spec => []TypeOK
<1>1. Inv => TypeOK
  BY DEF Inv
<1>2. QED
  BY <1>1, RecordsAgree, PTL

\* No cascade, removal or re-arming loses a timer, links it twice or leaves one in a
\* list that has been deleted.
THEOREM NoTimerIsLost == Spec => []EachInOnePlace
<1>1. Inv => EachInOnePlace
  BY FiledIsEnough DEF Inv
<1>2. QED
  BY <1>1, RecordsAgree, PTL

\* Between two ticks no wheel has been turned less often than the time says.
LEMMA WheelsKeepUp ==
  ASSUME TypeOK, pc # "cascade", NEW turn \in [Wheels -> Nat], TurnsFit(turn)
  PROVE  \A k \in Wheels : checkTime_ < GRANULARITY * (Threshold[k] * (turn[k] + 1))
<1> DEFINE Behind == {k \in Wheels : ~(checkTime_ < GRANULARITY * (Threshold[k] * (turn[k] + 1)))}
<1>1. ASSUME Behind # {}
      PROVE  FALSE
  <2>1. PICK k \in Behind : \A j \in Behind : k <= j
    <3>1. Behind \subseteq Nat
      BY Sizes
    <3>2. QED
      BY <1>1, <3>1, Least, Zenon
  <2>2. checkTime_ = GRANULARITY * turn[0] /\ checkTime_ \in Nat /\ GRANULARITY \in Nat \ {0}
    BY Sizes DEF TurnsFit, Base, TypeOK
  <2>3. k # 0
    <3>1. 0 \in Wheels /\ turn[0] \in Nat
      BY Sizes
    <3>2. Threshold[0] * (turn[0] + 1) = turn[0] + 1
      BY <3>1, ThresholdsMultiply
    <3>3. GRANULARITY * (turn[0] + 1) = GRANULARITY * turn[0] + GRANULARITY
      BY <2>2, <3>1
    <3>4. checkTime_ < GRANULARITY * (Threshold[0] * (turn[0] + 1))
      BY <2>2, <3>2, <3>3
    <3>5. QED
      BY <3>4
  <2>4. PICK b \in Wheels : b + 1 = k /\ b < WHEEL_NUM - 1 /\ ~(k <= b)
    <3>1. k - 1 \in Wheels /\ (k - 1) + 1 = k /\ k - 1 < WHEEL_NUM - 1 /\ ~(k <= k - 1)
      BY <2>3, Sizes
    <3>2. QED
      BY <3>1
  <2>5. checkTime_ < GRANULARITY * (Threshold[b] * (turn[b] + 1))
    BY <2>1, <2>4
  <2>6. turn[b] = Size(b) * turn[k] + spokeIndex_[b]
    <3>1. turn[b] = Size(b) * (turn[b + 1] + Owed(b + 1)) + spokeIndex_[b]
      BY <2>4 DEF TurnsFit
    <3>2. Owed(b + 1) = 0 /\ turn[k] \in Nat
      BY DEF Owed
    <3>3. turn[b + 1] + Owed(b + 1) = turn[k]
      BY <2>4, <3>2
    <3>4. QED
      BY <3>1, <3>3
  <2>7. /\ Size(b) \in Nat \ {0} /\ spokeIndex_[b] \in Nat /\ spokeIndex_[b] < Size(b)
        /\ turn[b] \in Nat /\ turn[k] \in Nat
    BY Places, Sizes
  <2>8. Threshold[b] \in Nat \ {0} /\ Threshold[k] = Size(b) * Threshold[b]
    <3>1. Threshold[b + 1] = Size(b) * Threshold[b]
      BY ThresholdsMultiply
    <3>2. Threshold[b] \in Nat \ {0}
      BY ThresholdsPositive
    <3>3. b + 1 = k
      BY <2>4
    <3>4. QED
      BY <3>1, <3>2, <3>3
  <2>9. turn[b] + 1 <= Size(b) * (turn[k] + 1) /\ Size(b) * (turn[k] + 1) \in Nat
    <3>1. Size(b) * (turn[k] + 1) = Size(b) * turn[k] + Size(b) /\ Size(b) * turn[k] \in Nat
      BY <2>7
    <3>2. QED
      BY <2>6, <2>7, <3>1
  <2>10. Threshold[b] * (turn[b] + 1) <= Threshold[b] * (Size(b) * (turn[k] + 1))
    BY <2>7, <2>8, <2>9
  <2>11. Threshold[k] * (turn[k] + 1) = Threshold[b] * (Size(b) * (turn[k] + 1))
    BY <2>7, <2>8
  <2>12. Threshold[b] * (turn[b] + 1) \in Nat /\ Threshold[k] * (turn[k] + 1) \in Nat
    BY <2>7, <2>8, <2>9, <2>11
  <2>13. GRANULARITY * (Threshold[b] * (turn[b] + 1)) <= GRANULARITY * (Threshold[k] * (turn[k] + 1))
    BY <2>2, <2>10, <2>11, <2>12
  <2>14. /\ GRANULARITY * (Threshold[b] * (turn[b] + 1)) \in Nat
         /\ GRANULARITY * (Threshold[k] * (turn[k] + 1)) \in Nat
    BY <2>2, <2>12
  <2>15. checkTime_ < GRANULARITY * (Threshold[k] * (turn[k] + 1))
    BY <2>2, <2>5, <2>13, <2>14
  <2>16. QED
    BY <2>15
<1>2. QED
  BY <1>1

\* Timers of the coarse wheels come down in time: when the ready timers are called, none
\* that has been due for a tick is still in a spoke, whatever wheel it was placed in.
THEOREM NeverTooLate == Spec => []NotTooLate
<1>1. ASSUME Inv, pc \in {"ready", "outside"}, NEW s \in Slots, NEW t \in spokes_[s]
      PROVE  timerMap_[t].deadTime + GRANULARITY + After(t) > nowTime_
  <2>1. /\ TypeOK /\ pc # "cascade" /\ nowTime_ < checkTime_ + GRANULARITY
        /\ Base = checkTime_ /\ GRANULARITY \in Nat \ {0}
    BY <1>1, Sizes DEF Inv, StagesFit, Base
  <2>2. PICK turn \in [Wheels -> Nat] : TurnsFit(turn) /\ LateSpokes(turn)
    BY <1>1 DEF Inv, TurnsAgree
  <2> DEFINE k == s[1]
  <2>3. k \in Wheels /\ Distance(s) \in Nat /\ turn[k] \in Nat
    BY <2>1, Places
  <2>4. t \in Live /\ timerMap_[t].deadTime \in Nat /\ After(t) \in Nat
    <3>1. t \in Live
      BY <1>1 DEF Inv, Filed
    <3>2. QED
      BY <2>1, <3>1, Kept
  <2>5. checkTime_ \in Nat /\ nowTime_ \in Nat
    BY <2>1 DEF TypeOK
  <2>6. GRANULARITY * (Threshold[k] * (turn[k] + Distance(s) + Whole(k))) <= timerMap_[t].deadTime + After(t)
    BY <2>2 DEF LateSpokes, TickOf
  <2>7. Threshold[k] \in Nat \ {0}
    BY <2>3, ThresholdsPositive
  <2> HIDE DEF k
  <2>8. ASSUME NEW x \in Nat, x <= turn[k] + Distance(s) + Whole(k)
        PROVE  GRANULARITY * (Threshold[k] * x) <= timerMap_[t].deadTime + After(t)
    <3> DEFINE y == turn[k] + Distance(s) + Whole(k)
    <3>1. y \in Nat /\ x <= y
      BY <2>3, <2>8 DEF Whole
    <3>2. GRANULARITY * (Threshold[k] * y) <= timerMap_[t].deadTime + After(t)
      BY <2>6
    <3> HIDE DEF y
    <3>3. Threshold[k] * x <= Threshold[k] * y /\ Threshold[k] * x \in Nat /\ Threshold[k] * y \in Nat
      BY <2>7, <2>8, <3>1
    <3>4. GRANULARITY * (Threshold[k] * x) <= GRANULARITY * (Threshold[k] * y)
      BY <2>1, <3>3
    <3>5. GRANULARITY * (Threshold[k] * x) \in Nat /\ GRANULARITY * (Threshold[k] * y) \in Nat
      BY <2>1, <3>3
    <3>6. QED
      BY <2>4, <3>2, <3>4, <3>5
  <2>9. checkTime_ <= timerMap_[t].deadTime + After(t)
    <3>1. CASE k = 0
      <4>1. turn[k] <= turn[k] + Distance(s) + Whole(k)
        BY <2>3 DEF Whole
      <4>2. GRANULARITY * (Threshold[k] * turn[k]) <= timerMap_[t].deadTime + After(t)
        BY <2>3, <2>8, <4>1
      <4>3. Threshold[k] * turn[k] = turn[k] /\ checkTime_ = GRANULARITY * turn[k]
        BY <2>1, <2>2, <2>3, <3>1, ThresholdsMultiply DEF TurnsFit
      <4>4. QED
        BY <4>2, <4>3
    <3>2. CASE k # 0
      <4>1. turn[k] + 1 <= turn[k] + Distance(s) + Whole(k) /\ turn[k] + 1 \in Nat
        BY <2>3, <3>2 DEF Whole
      <4>2. GRANULARITY * (Threshold[k] * (turn[k] + 1)) <= timerMap_[t].deadTime + After(t)
        BY <2>8, <4>1
      <4>3. checkTime_ < GRANULARITY * (Threshold[k] * (turn[k] + 1))
        BY <2>1, <2>2, <2>3, WheelsKeepUp
      <4>4. GRANULARITY * (Threshold[k] * (turn[k] + 1)) \in Nat
        BY <2>1, <2>3, <2>7
      <4>5. QED
        BY <2>4, <2>5, <4>2, <4>3, <4>4
    <3>3. QED
      BY <3>1, <3>2
  <2>10. QED
    BY <2>1, <2>4, <2>5, <2>9
<1>2. Inv => NotTooLate
  BY <1>1 DEF NotTooLate, After
<1>3. QED
  BY <1>2, RecordsAgree, PTL

\* No callback is called before its deadline, by more than the wheels were behind the
\* clock when addTimerNode() counted from them.
THEOREM EarlyByLagOnly == Spec => []EarlyOnlyByLag
<1>1. ASSUME Inv, current # None
      PROVE  nowTime_ + Before(current) >= timerMap_[current].deadTime
  <2>1. TypeOK /\ current \in Live /\ timerMap_[current].deadTime - Before(current) <= nowTime_
    BY <1>1 DEF Inv, Filed, EarlyReady
  <2>2. /\ timerMap_[current].deadTime \in Nat /\ Before(current) \in Nat /\ nowTime_ \in Nat
    BY <2>1, Kept DEF TypeOK
  <2>3. QED
    BY <2>1, <2>2
<1>2. Inv => EarlyOnlyByLag
  BY <1>1 DEF EarlyOnlyByLag, Before
<1>3. QED
  BY <1>2, RecordsAgree, PTL

-----------------------------------------------------------------------------
(***************************************************************************)
(* The width of the code's numbers.                                        *)
(***************************************************************************)
LEMMA Remainder ==
  ASSUME NEW a \in Nat, NEW b \in Nat \ {0}
  PROVE  a % b \in Nat /\ a % b < b /\ a = b * (a \div b) + (a % b)
OBVIOUS

LEMMA WholeTurns ==
  ASSUME NEW a \in Nat, NEW b \in Nat \ {0}, NEW n \in Nat
  PROVE  (b * n + a) % b = a % b
<1> DEFINE q == a \div b
           r == a % b
           x == b * n + a
<1>1. q \in Nat /\ r \in Nat /\ r < b /\ a = b * q + r
  BY Division
<1> HIDE DEF q, r
<1>2. b * n \in Nat /\ b * q \in Nat /\ b * (n + q) = b * n + b * q
  BY <1>1
<1>3. x \in Nat /\ x = b * (n + q) + r /\ n + q \in Nat
  BY <1>1, <1>2
<1> HIDE DEF x
<1>4. x \div b = n + q
  <2>1. b * (n + q) \in Nat /\ b * (n + q) <= x /\ x < b * (n + q) + b
    BY <1>1, <1>2, <1>3
  <2>2. QED
    BY <1>3, <2>1, Quotient
<1>5. x = b * (x \div b) + (x % b) /\ x % b \in Nat
  BY <1>3, Remainder
<1>6. x = b * (n + q) + (x % b)
  BY <1>4, <1>5
<1>7. x % b = r
  BY <1>1, <1>2, <1>3, <1>5, <1>6
<1>8. QED
  BY <1>7 DEF x, r

\* Dividing by a threshold and masking a number that has wrapped around.
LEMMA WrappedSpoke ==
  ASSUME NEW x \in Nat, NEW T \in Nat \ {0}, NEW S \in Nat \ {0}, NEW turns \in Nat \ {0},
         NEW width \in Nat \ {0}, width = turns * (S * T)
  PROVE  ((x % width) \div T) % S = (x \div T) % S
<1> DEFINE a == x \div width
           r == x % width
           b == r \div T
<1>1. a \in Nat /\ r \in Nat /\ x = width * a + r
  <2>1. a \in Nat
    BY Division
  <2>2. QED
    BY <2>1, Remainder
<1> HIDE DEF a, r
<1>2. b \in Nat /\ T * b <= r /\ r < T * b + T
  BY <1>1, Division
<1> HIDE DEF b
<1> DEFINE n == turns * a
<1>3. n \in Nat
  BY <1>1
<1>4. width * a = T * (S * n)
  BY <1>1
<1> HIDE DEF n
<1>5. S * n \in Nat /\ T * (S * n) \in Nat /\ T * b \in Nat
      /\ T * (S * n + b) = T * (S * n) + T * b
  BY <1>2, <1>3
<1>6. x \div T = S * n + b
  <2>1. S * n + b \in Nat /\ T * (S * n + b) <= x /\ x < T * (S * n + b) + T
    BY <1>1, <1>2, <1>4, <1>5
  <2>2. QED
    BY <2>1, Quotient
<1>7. (S * n + b) % S = b % S
  BY <1>2, <1>3, WholeTurns
<1>8. QED
  BY <1>6, <1>7 DEF b, r

\* SlotOf() as the code computes it, in unsigned numbers below width.
SlotInWidth(width, delay, index) ==
  LET ticks == Ticks(delay)
      k     == WheelOf(ticks)
  IN  IF k = 0
      THEN <<0, ((ticks + index[0]) % width) % WHEEL_SIZE1>>
      ELSE <<k, (((Ahead(ticks, k) + index[k] * Threshold[k]) % width)
                   \div Threshold[k]) % WHEEL_SIZE2>>

\* The sum addTimerNode() shifts and masks can exceed a uint32: 63 * 2^26 for the index
\* of the last wheel and a delay of 16 days do.  It wraps, and the spoke is the same as
\* without a limit, because each wheel turns a whole number of times in 2^32 ticks.
THEOREM OverflowIsHarmless ==
  ASSUME NEW width \in Nat \ {0},
         \A k \in Wheels : \E turns \in Nat \ {0} : width = turns * (Size(k) * Threshold[k]),
         NEW delay \in Nat, NEW index \in [Wheels -> Nat]
  PROVE  SlotInWidth(width, delay, index) = SlotOf(delay, index)
<1> DEFINE ticks == Ticks(delay)
           k == WheelOf(ticks)
           x == IF k = 0 THEN ticks + index[0] ELSE Ahead(ticks, k) + index[k] * Threshold[k]
<1>1. ticks \in Nat
  BY Sizes, Division DEF Ticks
<1> HIDE DEF ticks
<1>2. k \in Wheels /\ (k > 0 => ticks >= Threshold[k])
  BY <1>1, WheelChosen
<1> HIDE DEF k
<1>3. /\ k \in Nat /\ Threshold[k] \in Nat \ {0} /\ Size(k) \in Nat \ {0} /\ index[k] \in Nat
      /\ Threshold[0] = 1 /\ Size(0) = WHEEL_SIZE1 /\ WHEEL_SIZE1 \in Nat \ {0}
      /\ (k # 0 => Size(k) = WHEEL_SIZE2)
  BY <1>2, Sizes, ThresholdsPositive, ThresholdsMultiply
<1>4. x \in Nat
  BY <1>1, <1>2, <1>3 DEF Ahead
<1>5. PICK turns \in Nat \ {0} : width = turns * (Size(k) * Threshold[k])
  BY <1>2
<1> HIDE DEF x
<1>6. ((x % width) \div Threshold[k]) % Size(k) = (x \div Threshold[k]) % Size(k)
  <2>1. PICK T \in Nat \ {0}, S \in Nat \ {0} : T = Threshold[k] /\ S = Size(k)
    BY <1>3
  <2>2. width = turns * (S * T)
    BY <1>5, <2>1
  <2>3. PICK y \in Nat : y = x
    BY <1>4
  <2>4. ((y % width) \div T) % S = (y \div T) % S
    BY <1>5, <2>1, <2>2, <2>3, WrappedSpoke
  <2>5. QED
    BY <2>1, <2>3, <2>4
<1>7. CASE k = 0
  <2>1. x = ticks + index[0] /\ (x % width) \div 1 = x % width /\ x \div 1 = x
    <3>1. x % width \in Nat
      BY <1>4, Division
    <3>2. QED
      BY <1>4, <1>7, <3>1 DEF x
  <2>2. (x % width) % WHEEL_SIZE1 = x % WHEEL_SIZE1
    BY <1>3, <1>6, <1>7, <2>1
  <2>3. SlotInWidth(width, delay, index) = <<0, (x % width) % WHEEL_SIZE1>>
    BY <1>7, <2>1 DEF SlotInWidth, k, ticks
  <2>4. SlotOf(delay, index) = <<0, x % WHEEL_SIZE1>>
    BY <1>7, <2>1 DEF SlotOf, k, ticks
  <2>5. QED
    BY <2>2, <2>3, <2>4
<1>8. CASE k # 0
  <2>1. x = Ahead(ticks, k) + index[k] * Threshold[k]
    BY <1>8 DEF x
  <2>2. SlotInWidth(width, delay, index)
          = <<k, ((x % width) \div Threshold[k]) % WHEEL_SIZE2>>
    BY <1>8, <2>1 DEF SlotInWidth, k, ticks
  <2>3. SlotOf(delay, index) = <<k, (x \div Threshold[k]) % WHEEL_SIZE2>>
    BY <1>8, <2>1 DEF SlotOf, k, ticks
  <2>4. QED
    BY <1>3, <1>6, <1>8, <2>2, <2>3
<1>9. QED
  BY <1>7, <1>8
=============================================================================
