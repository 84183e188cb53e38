----------------------------- MODULE WheelProofs -----------------------------
(***************************************************************************)
(* Theorems about TimeWheel, for any size of the wheel and any number of   *)
(* levels, timers and delays.  The lists stay typed whatever the delays.   *)
(* For delays that the second level reaches, a timer is always in the list *)
(* of a slot that the wheel comes to before the timer is due: TickMove never *)
(* meets the assertion, no timer is late or early, and none is lost.       *)
(***************************************************************************)
EXTENDS TimeWheel, WellFoundedInduction, SequenceTheorems, TLAPS

W == WheelSize

\* There are at least two wheels, of at least two slots each.
LEMMA WheelSizeType == W \in Nat /\ W >= 2 /\ WheelNum \in Nat /\ WheelNum >= 2
BY WheelAssumption DEF W

-----------------------------------------------------------------------------
(* Arithmetic with the base of the wheel.                                  *)

\* Induction over the naturals, for a set.
LEMMA Induction ==
    ASSUME NEW G, 0 \in G, \A n \in Nat : n \in G => n + 1 \in G
    PROVE  \A n \in Nat : n \in G
<1> DEFINE Bad == {n \in Nat : n \notin G}
           R == OpToRel(<, Nat)
<1>1. IsWellFoundedOn(R, Nat)
    BY NatLessThanWellFounded, Zenon
<1>2. \A x, y \in Nat : <<x, y>> \in R <=> x < y
    BY DEF OpToRel
<1> HIDE DEF R
<1>3. Bad \in SUBSET Nat
    OBVIOUS
<1> SUFFICES ASSUME Bad # {} PROVE FALSE
    OBVIOUS
<1>4. PICK n \in Bad : \A m \in Bad : <<m, n>> \notin R
    <2> HIDE DEF Bad
    <2> QED
        BY <1>1, <1>3, WFMin, Zenon
<1>5. n \in Nat /\ n # 0 /\ n \notin G
    BY <1>4
<1>6. n - 1 \in Nat /\ (n - 1) + 1 = n /\ n - 1 < n
    BY <1>5
<1>7. n - 1 \notin G
    BY <1>5, <1>6
<1>8. n - 1 \in Bad
    BY <1>6, <1>7
<1>9. <<n - 1, n>> \in R
    BY <1>2, <1>5, <1>6
<1> QED
    BY <1>4, <1>8, <1>9

\* A set of naturals that is not empty has a least element.
LEMMA LeastExists ==
    ASSUME NEW S \in SUBSET Nat, S # {}
    PROVE  \E i \in S : \A j \in S : i <= j
<1> DEFINE R == OpToRel(<, Nat)
<1>1. IsWellFoundedOn(R, Nat)
    BY NatLessThanWellFounded, Zenon
<1>2. \A x, y \in Nat : <<x, y>> \in R <=> x < y
    BY DEF OpToRel
<1> HIDE DEF R
<1>3. PICK n \in S : \A m \in S : <<m, n>> \notin R
    BY <1>1, WFMin, Zenon
<1>4. ASSUME NEW m \in S PROVE n <= m
    <2>1. m \in Nat /\ n \in Nat
        BY <1>3
    <2>2. ~(m < n)
        BY <1>2, <1>3, <2>1, Zenon
    <2> QED
        BY <2>1, <2>2
<1> QED
    BY <1>4

\* The powers of the base up to the i-th.
Powers(f, i) == f = [n \in 0..i |-> IF n = 0 THEN 1 ELSE WheelSize * f[n - 1]]

\* The powers of the wheel size can be listed up to any exponent.
LEMMA PowersExist == \A i \in Nat : \E f : Powers(f, i)
<1> DEFINE G == {i \in Nat : \E f : Powers(f, i)}
<1>1. 0 \in G
    <2>1. Powers([n \in 0..0 |-> 1], 0)
        BY DEF Powers
    <2> QED
        BY <2>1
<1>2. ASSUME NEW i \in Nat, i \in G PROVE i + 1 \in G
    <2>1. PICK f : Powers(f, i)
        BY <1>2
    <2>2. \A n \in 0..i : f[n] = IF n = 0 THEN 1 ELSE WheelSize * f[n - 1]
        BY <2>1, Zenon DEF Powers
    <2> DEFINE g == [n \in 0..(i + 1) |-> IF n = i + 1 THEN WheelSize * f[i] ELSE f[n]]
    <2>3. ASSUME NEW n \in 0..(i + 1)
          PROVE  g[n] = IF n = 0 THEN 1 ELSE WheelSize * g[n - 1]
        <3>1. CASE n = i + 1
            <4>1. n # 0 /\ n - 1 = i /\ i \in 0..(i + 1) /\ i # i + 1
                BY <3>1
            <4>2. g[n] = WheelSize * f[i] /\ g[i] = f[i]
                BY <3>1, <4>1
            <4> HIDE DEF g
            <4> QED
                BY <4>1, <4>2
        <3>2. CASE n # i + 1
            <4>1. n \in 0..i /\ g[n] = f[n]
                BY <3>2
            <4>2. n # 0 => n - 1 \in 0..(i + 1) /\ n - 1 # i + 1
                BY <3>2
            <4>3. n # 0 => g[n - 1] = f[n - 1]
                BY <4>2
            <4> HIDE DEF g
            <4> QED
                BY <2>2, <4>1, <4>3
        <3> QED
            BY <3>1, <3>2
    <2>4. g = [n \in 0..(i + 1) |-> g[n]]
        OBVIOUS
    <2> HIDE DEF g
    <2>5. Powers(g, i + 1)
        BY <2>3, <2>4, Zenon DEF Powers
    <2> QED
        BY <2>5
<1> HIDE DEF G
<1>3. \A i \in Nat : i \in G
    BY <1>1, <1>2, Induction
<1> QED
    BY <1>3 DEF G

\* Power is the last entry of such a list.
LEMMA PowerUnfolds ==
    ASSUME NEW i \in Nat
    PROVE  \E f : Powers(f, i) /\ Power(i) = f[i]
<1>1. Powers(CHOOSE f : Powers(f, i), i)
    BY PowersExist, Zenon
<1>2. Power(i) = (CHOOSE f : Powers(f, i))[i]
    BY DEF Power, Powers
<1> QED
    BY <1>1, <1>2, Zenon

\* A power of the wheel size is a positive number.
LEMMA PowerType == \A i \in Nat : Power(i) \in Nat \ {0}
<1> TAKE i \in Nat
<1>1. PICK f : Powers(f, i) /\ Power(i) = f[i]
    BY PowerUnfolds
<1>2. \A n \in 0..i : f[n] = IF n = 0 THEN 1 ELSE WheelSize * f[n - 1]
    BY <1>1, Zenon DEF Powers
<1> DEFINE G == {n \in Nat : n <= i => f[n] \in Nat \ {0}}
<1>3. 0 \in G
    BY <1>2
<1>4. ASSUME NEW n \in Nat, n \in G PROVE n + 1 \in G
    <2>1. CASE n + 1 <= i
        <3>1. n + 1 \in 0..i /\ n + 1 # 0 /\ (n + 1) - 1 = n /\ n <= i
            BY <2>1
        <3>2. f[n + 1] = WheelSize * f[n]
            BY <1>2, <3>1
        <3>3. PICK x \in Nat \ {0} : x = f[n]
            BY <1>4, <3>1
        <3>4. WheelSize * x \in Nat \ {0}
            BY WheelAssumption
        <3> QED
            BY <3>2, <3>3, <3>4
    <2>2. CASE ~(n + 1 <= i)
        BY <2>2
    <2> QED
        BY <2>1, <2>2
<1> HIDE DEF G
<1>5. i \in G
    BY <1>3, <1>4, Induction
<1> QED
    BY <1>1, <1>5 DEF G

\* The spans of a slot on the first three wheels.
LEMMA SmallPowers == Power(0) = 1 /\ Power(1) = W /\ Power(2) = W * W
<1>1. ASSUME NEW i \in Nat, NEW f, Powers(f, i)
      PROVE  /\ f[0] = 1
             /\ i >= 1 => f[1] = W * f[0]
             /\ i >= 2 => f[2] = W * f[1]
    <2>1. \A n \in 0..i : f[n] = IF n = 0 THEN 1 ELSE WheelSize * f[n - 1]
        BY <1>1, Zenon DEF Powers
    <2>2. f[0] = 1
        BY <2>1
    <2>3. i >= 1 => f[1] = W * f[0]
        BY <2>1 DEF W
    <2>4. i >= 2 => f[2] = W * f[1]
        BY <2>1 DEF W
    <2> QED
        BY <2>2, <2>3, <2>4
<1>2. PICK f : Powers(f, 0) /\ Power(0) = f[0]
    BY PowerUnfolds
<1>3. PICK g : Powers(g, 1) /\ Power(1) = g[1]
    BY PowerUnfolds
<1>4. PICK h : Powers(h, 2) /\ Power(2) = h[2]
    BY PowerUnfolds
<1>5. Power(0) = 1
    BY <1>1, <1>2
<1>6. Power(1) = W
    BY <1>1, <1>3, WheelSizeType
<1>7. h[1] = W /\ h[2] = W * h[1]
    BY <1>1, <1>4, WheelSizeType
<1> QED
    BY <1>4, <1>5, <1>6, <1>7

\* Quotient and remainder.
LEMMA Division ==
    ASSUME NEW a \in Nat
    PROVE  /\ a \div W \in Nat /\ a % W \in 0..(W - 1)
           /\ a = W * (a \div W) + (a % W)
BY WheelSizeType

\* Quotient and remainder of a time by the wheel size.
LEMMA Multiple ==
    ASSUME NEW q \in Nat, NEW r \in 0..(W - 1)
    PROVE  (W * q + r) % W = r /\ (W * q + r) \div W = q /\ W * q \in Nat
BY WheelSizeType

\* Two rounds of the first wheel begin at least one round apart.
LEMMA Apart ==
    ASSUME NEW x \in Nat, NEW y \in Nat, x < y
    PROVE  W * x + W <= W * y
BY WheelSizeType

\* Two numbers in one round with the same remainder are the same.
LEMMA SameRound ==
    ASSUME NEW a \in Nat, NEW b \in Nat, a % W = b % W, a < b + W, b < a + W
    PROVE  a = b
<1>1. PICK q \in Nat, r \in 0..(W - 1) : a = W * q + r /\ r = a % W
    BY Division
<1>2. PICK p \in Nat, s \in 0..(W - 1) : b = W * p + s /\ s = b % W
    BY Division
<1>3. q < p => W * q + W <= W * p
    BY Apart
<1>4. p < q => W * p + W <= W * q
    BY Apart
<1>5. PICK x \in Nat, y \in Nat : x = W * p /\ y = W * q
    BY WheelSizeType
<1> QED
    BY <1>1, <1>2, <1>3, <1>4, <1>5, WheelSizeType

\* One round later the hand is at the same slot.
LEMMA NextRound == ASSUME NEW a \in Nat PROVE (a + W) % W = a % W
<1>1. PICK q \in Nat, r \in 0..(W - 1) : a = W * q + r /\ r = a % W
    BY Division
<1>2. a + W = W * (q + 1) + r
    BY <1>1, WheelSizeType
<1> QED
    BY <1>1, <1>2, Multiple

-----------------------------------------------------------------------------
(* The slot of an expiration.                                              *)

\* A slot of a wheel is a list head, and not the null one.
LEMMA SlotType ==
    \A i \in Wheels, c \in 0..(WheelSize - 1) : <<i, c>> \in Slots /\ <<i, c>> # nullptr
BY WheelAssumption DEF Slots, Wheels, nullptr

\* CalcTime is a slot number.
LEMMA CalcTimeType ==
    \A ms \in Nat, i \in Nat : CalcTime(ms, i) \in 0..(WheelSize - 1)
<1> TAKE ms \in Nat, i \in Nat
<1>1. PICK p \in Nat \ {0} : p = Power(i)
    BY PowerType
<1>2. PICK d \in Nat : d = ms \div p
    OBVIOUS
<1>3. d % WheelSize \in 0..(WheelSize - 1)
    BY WheelAssumption
<1> QED
    BY <1>1, <1>2, <1>3 DEF CalcTime

\* CalcTime on the two wheels that the near timers use.
LEMMA CalcTimeNear ==
    ASSUME NEW ms \in Nat
    PROVE  CalcTime(ms, 0) = ms % W /\ CalcTime(ms, 1) = (ms \div W) % W
<1>1. ms \div 1 = ms
    OBVIOUS
<1> QED
    BY <1>1, SmallPowers DEF CalcTime, W

\* First picks the least wheel that fits.
LEMMA FirstIsLeast ==
    ASSUME NEW S \in SUBSET Nat, S # {}
    PROVE  First(S) \in S /\ \A j \in S : First(S) <= j
BY LeastExists, Zenon DEF First

\* FindHead returns a slot or the null head.
LEMMA FindHeadType ==
    ASSUME NEW ms \in Nat, NEW last \in Nat
    PROVE  FindHead(ms, last) = nullptr \/ FindHead(ms, last) \in Slots
<1> DEFINE fits == {i \in Wheels : ms - last < MaxTime(i)}
<1>1. fits \in SUBSET Wheels /\ Wheels \in SUBSET Nat
    BY WheelAssumption DEF Wheels
<1>2. FindHead(ms, last) = IF ms - last < 0 \/ fits = {} THEN nullptr
                           ELSE <<First(fits), CalcTime(ms, First(fits))>>
    BY DEF FindHead
<1> HIDE DEF fits
<1>3. fits # {} => First(fits) \in Wheels /\ First(fits) \in Nat
    BY <1>1, FirstIsLeast, Zenon
<1>4. fits # {} => CalcTime(ms, First(fits)) \in 0..(WheelSize - 1)
    BY <1>3, CalcTimeType, Zenon
<1>5. fits # {} => <<First(fits), CalcTime(ms, First(fits))>> \in Slots
    BY <1>3, <1>4, SlotType
<1> QED
    BY <1>2, <1>5

\* Within a round, the slot is one of wheel 0; within a round of wheel 1, one of
\* wheel 1.
LEMMA FindHeadNear ==
    ASSUME NEW ms \in Nat, NEW last \in Nat, last <= ms, ms < last + W * W
    PROVE  FindHead(ms, last) = IF ms < last + W THEN <<0, ms % W>>
                                ELSE <<1, (ms \div W) % W>>
<1> DEFINE fits == {i \in Wheels : ms - last < MaxTime(i)}
<1>1. fits \in SUBSET Wheels /\ Wheels \in SUBSET Nat /\ 0 \in Wheels /\ 1 \in Wheels
    BY WheelAssumption DEF Wheels
<1>2. FindHead(ms, last) = IF ms - last < 0 \/ fits = {} THEN nullptr
                           ELSE <<First(fits), CalcTime(ms, First(fits))>>
    BY DEF FindHead
<1>3. MaxTime(0) = W /\ MaxTime(1) = W * W
    <2>1. 0 + 1 = 1 /\ 1 + 1 = 2
        OBVIOUS
    <2> QED
        BY <2>1, SmallPowers DEF MaxTime
<1>4. PICK z \in Nat : z = W * W
    BY WheelSizeType
<1>5. 1 \in fits
    BY <1>1, <1>3, <1>4
<1>6. 0 \in fits <=> ms < last + W
    BY <1>1, <1>3, WheelSizeType
<1> HIDE DEF fits
<1>7. First(fits) \in fits /\ \A j \in fits : First(fits) <= j
    BY <1>1, <1>5, FirstIsLeast
<1>8. First(fits) = IF ms < last + W THEN 0 ELSE 1
    <2>1. PICK f \in Nat : f = First(fits)
        BY <1>1, <1>7, Zenon
    <2>2. f <= 1 /\ f \in fits /\ (0 \in fits => f <= 0)
        BY <1>5, <1>7, <2>1
    <2>3. f = 0 \/ f = 1
        BY <2>1, <2>2
    <2> QED
        BY <1>6, <2>1, <2>2, <2>3
<1>9. CalcTime(ms, 0) = ms % W /\ CalcTime(ms, 1) = (ms \div W) % W
    BY CalcTimeNear
<1>10. FindHead(ms, last) = <<First(fits), CalcTime(ms, First(fits))>>
    <2>1. ~(ms - last < 0) /\ fits # {}
        BY <1>5
    <2> QED
        BY <1>2, <2>1
<1> QED
    BY <1>8, <1>9, <1>10

-----------------------------------------------------------------------------
(* A list whose timers differ.                                             *)

OneTime(q) == \A i, j \in 1..Len(q) : q[i] = q[j] => i = j

\* A timer is on a list when it is at one of its places.
LEMMA RangeOf ==
    ASSUME NEW q \in Seq(Timers), NEW t
    PROVE  t \in Range(q) <=> \E i \in 1..Len(q) : q[i] = t
BY DEF Range

\* The empty list holds no timer, and none twice.
LEMMA ListEmpty == <<>> \in Seq(Timers) /\ OneTime(<<>>) /\ Range(<<>>) = {}
BY DEF OneTime, Range

\* DelTimer's unlink takes one timer off its list and keeps the others.
LEMMA ListUnlink ==
    ASSUME NEW q \in Seq(Timers), OneTime(q), NEW i \in 1..Len(q)
    PROVE  /\ Unlink(q, i) \in Seq(Timers) /\ OneTime(Unlink(q, i))
           /\ \A t : t \in Range(Unlink(q, i)) <=> t \in Range(q) /\ t # q[i]
<1> DEFINE u == Unlink(q, i)
           At(k) == IF k < i THEN k ELSE k + 1
           a == SubSeq(q, 1, i - 1)
           b == SubSeq(q, i + 1, Len(q))
<1>a. /\ a \in Seq(Timers) /\ Len(a) = i - 1
      /\ \A k \in 1..(i - 1) : a[k] = q[k]
    OBVIOUS
<1>b. /\ b \in Seq(Timers) /\ Len(b) = Len(q) - i
      /\ \A k \in 1..(Len(q) - i) : b[k] = q[i + k]
    <2>1. i + 1 \in 1..(Len(q) + 1) /\ Len(q) \in (i + 1) - 1..Len(q)
        OBVIOUS
    <2>2. /\ b \in Seq(Timers) /\ Len(b) = Len(q) - (i + 1) + 1
          /\ \A k \in 1..(Len(q) - (i + 1) + 1) : b[k] = q[(i + 1) + k - 1]
        BY <2>1, SubSeqProperties
    <2> HIDE DEF b
    <2> QED
        BY <2>2
<1>c. u = a \o b
    BY DEF Unlink
<1> HIDE DEF a, b, u
<1>1. u \in Seq(Timers) /\ Len(u) = Len(q) - 1
    BY <1>a, <1>b, <1>c
<1>2. ASSUME NEW k \in 1..Len(u) PROVE u[k] = q[At(k)]
    <2>1. CASE k < i
        BY <1>a, <1>b, <1>c, <2>1
    <2>2. CASE ~(k < i)
        <3>1. u[k] = b[k - (i - 1)]
            <4>1. k \in 1..(Len(a) + Len(b)) /\ k > Len(a) /\ Len(a) = i - 1
                <5>1. PICK n \in Nat : n = Len(q)
                    OBVIOUS
                <5>2. Len(a) = i - 1 /\ Len(b) = n - i /\ i \in 1..n /\ k \in 1..(n - 1)
                    BY <1>1, <1>a, <1>b, <5>1
                <5> QED
                    BY <2>2, <5>2
            <4>2. \A n \in 1..(Len(a) + Len(b)) : n > Len(a) => (a \o b)[n] = b[n - Len(a)]
                <5>1. a \in Seq(Timers) /\ b \in Seq(Timers)
                    BY <1>a, <1>b
                <5> QED
                    BY <5>1
            <4> QED
                BY <1>c, <4>1, <4>2, Zenon
        <3>2. k - (i - 1) \in 1..(Len(q) - i) /\ i + (k - (i - 1)) = k + 1
            BY <1>1, <2>2
        <3> QED
            BY <1>b, <2>2, <3>1, <3>2
    <2> QED
        BY <2>1, <2>2
<1>3. \A k \in 1..Len(u) : At(k) \in 1..Len(q) /\ At(k) # i
    BY <1>1
<1>4. \A k, l \in 1..Len(u) : At(k) = At(l) => k = l
    BY <1>1
<1>5. \A n \in 1..Len(q) : n # i => \E k \in 1..Len(u) : At(k) = n
    <2> TAKE n \in 1..Len(q)
    <2> HAVE n # i
    <2>1. n < i => n \in 1..Len(u) /\ At(n) = n
        BY <1>1
    <2>2. n > i => n - 1 \in 1..Len(u) /\ At(n - 1) = n
        BY <1>1
    <2> QED
        BY <2>1, <2>2
<1> HIDE DEF u, At
<1>6. OneTime(u)
    BY <1>2, <1>3, <1>4 DEF OneTime
<1>7. ASSUME NEW t PROVE t \in Range(u) <=> t \in Range(q) /\ t # q[i]
    <2>1. ASSUME t \in Range(u) PROVE t \in Range(q) /\ t # q[i]
        <3>1. PICK k \in 1..Len(u) : u[k] = t
            BY <1>1, <2>1, RangeOf
        <3>2. PICK n \in 1..Len(q) : n = At(k) /\ n # i /\ q[n] = t
            BY <1>2, <1>3, <3>1
        <3>3. t # q[i]
            BY <3>2 DEF OneTime
        <3>4. t \in Range(q)
            BY <3>2, RangeOf
        <3> QED
            BY <3>3, <3>4
    <2>2. ASSUME t \in Range(q), t # q[i] PROVE t \in Range(u)
        <3>1. PICK n \in 1..Len(q) : q[n] = t /\ n # i
            BY <2>2, RangeOf
        <3>2. PICK k \in 1..Len(u) : At(k) = n
            BY <1>5, <3>1
        <3>3. u[k] = t
            BY <1>2, <3>1, <3>2
        <3> QED
            BY <1>1, <3>3, RangeOf
    <2> QED
        BY <2>1, <2>2
<1> QED
    BY <1>1, <1>6, <1>7 DEF u

\* AddTimer's push puts one more timer on a list.
LEMMA ListPush ==
    ASSUME NEW q \in Seq(Timers), OneTime(q), NEW t \in Timers, t \notin Range(q)
    PROVE  /\ <<t>> \o q \in Seq(Timers) /\ OneTime(<<t>> \o q)
           /\ \A x : x \in Range(<<t>> \o q) <=> x \in Range(q) \/ x = t
<1> DEFINE u == <<t>> \o q
<1>1. u \in Seq(Timers) /\ Len(u) = Len(q) + 1
    OBVIOUS
<1>2. u[1] = t /\ \A k \in 1..Len(q) : u[k + 1] = q[k]
    OBVIOUS
<1>3. \A k \in 1..Len(u) : k = 1 \/ (k - 1 \in 1..Len(q) /\ u[k] = q[k - 1])
    <2> TAKE k \in 1..Len(u)
    <2> SUFFICES ASSUME k # 1 PROVE k - 1 \in 1..Len(q) /\ u[k] = q[k - 1]
        OBVIOUS
    <2>1. k - 1 \in 1..Len(q) /\ (k - 1) + 1 = k
        BY <1>1
    <2> HIDE DEF u
    <2> QED
        BY <1>2, <2>1
<1> HIDE DEF u
<1>4. \A k \in 1..Len(q) : q[k] # t
    BY RangeOf
<1>5. OneTime(u)
    <2> SUFFICES ASSUME NEW i \in 1..Len(u), NEW j \in 1..Len(u), u[i] = u[j]
                 PROVE  i = j
        BY DEF OneTime
    <2>1. CASE i = 1 \/ j = 1
        BY <1>2, <1>3, <1>4, <2>1
    <2>2. CASE i # 1 /\ j # 1
        <3>1. i - 1 \in 1..Len(q) /\ j - 1 \in 1..Len(q) /\ q[i - 1] = q[j - 1]
            BY <1>3, <2>2
        <3>2. i - 1 = j - 1
            BY <3>1 DEF OneTime
        <3> QED
            BY <3>2
    <2> QED
        BY <2>1, <2>2
<1>6. ASSUME NEW x PROVE x \in Range(u) <=> x \in Range(q) \/ x = t
    <2>1. ASSUME x \in Range(u) PROVE x \in Range(q) \/ x = t
        <3>1. PICK k \in 1..Len(u) : u[k] = x
            BY <1>1, <2>1, RangeOf
        <3> QED
            BY <1>2, <1>3, <3>1, RangeOf
    <2>2. ASSUME x \in Range(q) PROVE x \in Range(u)
        <3>1. PICK k \in 1..Len(q) : q[k] = x
            BY <2>2, RangeOf
        <3>2. k + 1 \in 1..Len(u) /\ u[k + 1] = x
            BY <1>1, <1>2, <3>1
        <3> QED
            BY <1>1, <3>2, RangeOf
    <2>3. t \in Range(u)
        <3>1. 1 \in 1..Len(u)
            BY <1>1
        <3> QED
            BY <1>1, <1>2, <3>1, RangeOf
    <2> QED
        BY <2>1, <2>2, <2>3
<1> QED
    BY <1>1, <1>5, <1>6 DEF u

\* Taking the first timer off a list keeps the others.
LEMMA ListTail ==
    ASSUME NEW q \in Seq(Timers), OneTime(q), q # <<>>
    PROVE  /\ Head(q) \in Range(q) /\ Head(q) \in Timers
           /\ Tail(q) \in Seq(Timers) /\ OneTime(Tail(q))
           /\ \A x : x \in Range(Tail(q)) <=> x \in Range(q) /\ x # Head(q)
<1> DEFINE u == Tail(q)
<1>1. u \in Seq(Timers) /\ Len(u) = Len(q) - 1 /\ Len(q) >= 1 /\ Head(q) = q[1]
    OBVIOUS
<1>2. \A k \in 1..Len(u) : u[k] = q[k + 1]
    OBVIOUS
<1> HIDE DEF u
<1>3. 1 \in 1..Len(q) /\ Head(q) \in Timers
    BY <1>1
<1>4. \A k \in 1..Len(u) : k + 1 \in 1..Len(q) /\ k + 1 # 1
    BY <1>1
<1>5. OneTime(u)
    <2> SUFFICES ASSUME NEW i \in 1..Len(u), NEW j \in 1..Len(u), u[i] = u[j]
                 PROVE  i = j
        BY DEF OneTime
    <2>1. i + 1 = j + 1
        BY <1>2, <1>4 DEF OneTime
    <2> QED
        BY <2>1
<1>6. ASSUME NEW x PROVE x \in Range(u) <=> x \in Range(q) /\ x # Head(q)
    <2>1. ASSUME x \in Range(u) PROVE x \in Range(q) /\ x # Head(q)
        <3>1. PICK k \in 1..Len(u) : u[k] = x
            BY <1>1, <2>1, RangeOf
        <3>2. k + 1 \in 1..Len(q) /\ k + 1 # 1 /\ q[k + 1] = x
            BY <1>2, <1>4, <3>1
        <3>3. x # q[1]
            BY <1>3, <3>2 DEF OneTime
        <3>4. x \in Range(q)
            BY <3>2, RangeOf
        <3> QED
            BY <1>1, <3>3, <3>4
    <2>2. ASSUME x \in Range(q), x # Head(q) PROVE x \in Range(u)
        <3>1. PICK k \in 1..Len(q) : q[k] = x /\ k # 1
            BY <1>1, <2>2, RangeOf
        <3>2. k - 1 \in 1..Len(u) /\ (k - 1) + 1 = k
            BY <1>1, <3>1
        <3>3. u[k - 1] = x
            BY <1>2, <3>1, <3>2
        <3> QED
            BY <1>1, <3>2, <3>3, RangeOf
    <2> QED
        BY <2>1, <2>2
<1>7. Head(q) \in Range(q)
    BY <1>1, <1>3, RangeOf
<1> QED
    BY <1>1, <1>3, <1>5, <1>6, <1>7 DEF u

\* MoveTimerList's splice keeps the timers of both lists.
LEMMA ListJoin ==
    ASSUME NEW p \in Seq(Timers), NEW q \in Seq(Timers), OneTime(p), OneTime(q),
           \A x : ~(x \in Range(p) /\ x \in Range(q))
    PROVE  /\ p \o q \in Seq(Timers) /\ OneTime(p \o q)
           /\ \A x : x \in Range(p \o q) <=> x \in Range(p) \/ x \in Range(q)
<1> DEFINE u == p \o q
<1>1. u \in Seq(Timers) /\ Len(u) = Len(p) + Len(q)
    OBVIOUS
<1>2. /\ \A k \in 1..Len(p) : u[k] = p[k]
      /\ \A k \in 1..Len(u) : k > Len(p) => u[k] = q[k - Len(p)]
    OBVIOUS
<1>3. PICK m \in Nat, n \in Nat : m = Len(p) /\ n = Len(q)
    OBVIOUS
<1> HIDE DEF u
<1>4. \A k \in 1..(m + n) : \/ k \in 1..m /\ u[k] = p[k]
                            \/ k > m /\ k - m \in 1..n /\ u[k] = q[k - m]
    BY <1>1, <1>2, <1>3
<1>5. \A i \in 1..m, j \in 1..n : p[i] # q[j]
    BY <1>3, RangeOf, Zenon
<1>6. OneTime(u)
    <2> SUFFICES ASSUME NEW i \in 1..(m + n), NEW j \in 1..(m + n), u[i] = u[j]
                 PROVE  i = j
        BY <1>1, <1>3 DEF OneTime
    <2>1. CASE i \in 1..m /\ j \in 1..m
        <3>1. u[i] = p[i] /\ u[j] = p[j]
            BY <1>2, <1>3, <2>1
        <3> QED
            BY <1>3, <2>1, <3>1, Zenon DEF OneTime
    <2>2. CASE i > m /\ j > m
        <3>1. i - m \in 1..n /\ j - m \in 1..n /\ u[i] = q[i - m] /\ u[j] = q[j - m]
            BY <1>4, <2>2
        <3>2. i - m = j - m
            BY <1>3, <3>1, Zenon DEF OneTime
        <3> QED
            BY <3>2
    <2>3. CASE i \in 1..m /\ j > m
        <3>1. u[i] = p[i] /\ j - m \in 1..n /\ u[j] = q[j - m]
            BY <1>4, <2>3
        <3> QED
            BY <1>5, <2>3, <3>1, Zenon
    <2>4. CASE i > m /\ j \in 1..m
        <3>1. u[j] = p[j] /\ i - m \in 1..n /\ u[i] = q[i - m]
            BY <1>4, <2>4
        <3> QED
            BY <1>5, <2>4, <3>1
    <2> QED
        BY <2>1, <2>2, <2>3, <2>4
<1>7. ASSUME NEW x PROVE x \in Range(u) <=> x \in Range(p) \/ x \in Range(q)
    <2>1. ASSUME x \in Range(u) PROVE x \in Range(p) \/ x \in Range(q)
        <3>1. PICK k \in 1..(m + n) : u[k] = x
            BY <1>1, <1>3, <2>1, RangeOf
        <3>2. CASE k \in 1..m /\ u[k] = p[k]
            BY <1>3, <3>1, <3>2, RangeOf
        <3>3. CASE k - m \in 1..n /\ u[k] = q[k - m]
            BY <1>3, <3>1, <3>3, RangeOf
        <3> QED
            BY <1>4, <3>2, <3>3
    <2>2. ASSUME x \in Range(p) PROVE x \in Range(u)
        <3>1. PICK k \in 1..m : p[k] = x
            BY <1>3, <2>2, RangeOf
        <3>2. k \in 1..(m + n) /\ u[k] = x
            BY <1>2, <1>3, <3>1
        <3> QED
            BY <1>1, <1>3, <3>2, RangeOf
    <2>3. ASSUME x \in Range(q) PROVE x \in Range(u)
        <3>1. PICK k \in 1..n : q[k] = x
            BY <1>3, <2>3, RangeOf
        <3>2. m + k \in 1..(m + n) /\ m + k > m /\ (m + k) - m = k
            BY <3>1
        <3>3. u[m + k] = x
            BY <1>1, <1>2, <1>3, <3>1, <3>2
        <3> QED
            BY <1>1, <1>3, <3>2, <3>3, RangeOf
    <2> QED
        BY <2>1, <2>2, <2>3
<1> QED
    BY <1>1, <1>6, <1>7 DEF u

-----------------------------------------------------------------------------
(* A wheel in which a timer is linked at most once.                        *)

On(w, s) == Range(w[s])

Wheel(w) ==
    /\ w \in [Slots -> Seq(Timers)]
    /\ \A s \in Slots : OneTime(w[s])
    /\ \A r, s \in Slots : \A t : t \in On(w, r) /\ t \in On(w, s) => r = s

\* Wheel is the last conjunct of TypeOK, by lists instead of by places.
LEMMA WheelIsTypeOK ==
    ASSUME time_wheel \in [Slots -> Seq(Timers)]
    PROVE  Wheel(time_wheel) <=>
           \A r, s \in Slots : \A i \in DOMAIN time_wheel[r], j \in DOMAIN time_wheel[s] :
               time_wheel[r][i] = time_wheel[s][j] => r = s /\ i = j
<1> DEFINE w == time_wheel
<1>1. \A s \in Slots : w[s] \in Seq(Timers) /\ DOMAIN w[s] = 1..Len(w[s])
    OBVIOUS
<1>2. \A s \in Slots : \A t : t \in On(w, s) <=> \E i \in 1..Len(w[s]) : w[s][i] = t
    BY <1>1, RangeOf DEF On
<1> HIDE DEF w
<1>3. ASSUME Wheel(w), NEW r \in Slots, NEW s \in Slots,
             NEW i \in 1..Len(w[r]), NEW j \in 1..Len(w[s]), w[r][i] = w[s][j]
      PROVE  r = s /\ i = j
    <2>1. w[r][i] \in On(w, r) /\ w[r][i] \in On(w, s)
        BY <1>2, <1>3
    <2>2. r = s
        BY <1>3, <2>1 DEF Wheel
    <2> QED
        BY <1>3, <2>2 DEF Wheel, OneTime
<1>4. ASSUME \A r, s \in Slots : \A i \in 1..Len(w[r]), j \in 1..Len(w[s]) :
                w[r][i] = w[s][j] => r = s /\ i = j
      PROVE  Wheel(w)
    <2>1. \A s \in Slots : OneTime(w[s])
        BY <1>4 DEF OneTime
    <2>2. ASSUME NEW r \in Slots, NEW s \in Slots, NEW t, t \in On(w, r), t \in On(w, s)
          PROVE  r = s
        <3>1. PICK i \in 1..Len(w[r]) : w[r][i] = t
            BY <1>2, <2>2, Zenon
        <3>2. PICK j \in 1..Len(w[s]) : w[s][j] = t
            BY <1>2, <2>2, Zenon
        <3> QED
            BY <1>4, <3>1, <3>2, Zenon
    <2> QED
        BY <2>1, <2>2 DEF Wheel, w
<1> QED
    BY <1>1, <1>3, <1>4 DEF w

\* Lists of a wheel.
LEMMA WheelLists ==
    ASSUME NEW w, Wheel(w), NEW s \in Slots
    PROVE  w[s] \in Seq(Timers) /\ OneTime(w[s]) /\ \A t \in On(w, s) : t \in Timers
<1>1. w[s] \in Seq(Timers) /\ OneTime(w[s])
    BY DEF Wheel
<1>2. ASSUME NEW t \in On(w, s) PROVE t \in Timers
    BY <1>1, <1>2, RangeOf DEF On
<1> QED
    BY <1>1, <1>2

\* DelTimer takes the timer out of its slot and leaves the others.
LEMMA Deleted ==
    ASSUME NEW t \in Timers, Wheel(time_wheel)
    PROVE  /\ Wheel(DelTimer(t))
           /\ \A s \in Slots : \A x :
                 x \in On(DelTimer(t), s) <=> x \in On(time_wheel, s) /\ x # t
<1> DEFINE v == DelTimer(t)
           w == time_wheel
           at(s) == CHOOSE i \in DOMAIN w[s] : w[s][i] = t
<1>1. v = [s \in Slots |-> IF t \in Range(w[s]) THEN Unlink(w[s], at(s)) ELSE w[s]]
    BY DEF DelTimer
<1>2. ASSUME NEW s \in Slots
      PROVE  /\ v[s] \in Seq(Timers) /\ OneTime(v[s])
             /\ \A x : x \in On(v, s) <=> x \in On(w, s) /\ x # t
    <2>1. w[s] \in Seq(Timers) /\ OneTime(w[s])
        BY WheelLists
    <2>2. v[s] = IF t \in Range(w[s]) THEN Unlink(w[s], at(s)) ELSE w[s]
        BY <1>1
    <2>3. CASE t \in Range(w[s])
        <3>1. \E i \in DOMAIN w[s] : w[s][i] = t
            BY <2>1, <2>3, RangeOf
        <3>2. at(s) \in DOMAIN w[s] /\ w[s][at(s)] = t
            BY <3>1, Zenon
        <3> HIDE DEF at, v, w
        <3>3. PICK i \in 1..Len(w[s]) : i = at(s) /\ w[s][i] = t
            BY <2>1, <3>2
        <3>4. v[s] = Unlink(w[s], i)
            BY <2>2, <2>3, <3>3
        <3> QED
            BY <2>1, <3>3, <3>4, ListUnlink DEF On
    <2>4. CASE t \notin Range(w[s])
        <3> HIDE DEF at, v, w
        <3> QED
            BY <2>1, <2>2, <2>4 DEF On
    <2> QED
        BY <2>3, <2>4
<1>3. v = [s \in Slots |-> v[s]]
    BY <1>1
<1> HIDE DEF v
<1>4. v \in [Slots -> Seq(Timers)]
    BY <1>2, <1>3
<1>5. Wheel(v)
    BY <1>2, <1>4 DEF Wheel
<1> QED
    BY <1>2, <1>5 DEF v

\* Linking a timer that is not linked.
LEMMA Pushed ==
    ASSUME NEW w, Wheel(w), NEW t \in Timers, NEW h \in Slots,
           \A s \in Slots : t \notin On(w, s)
    PROVE  /\ Wheel([w EXCEPT ![h] = <<t>> \o @])
           /\ \A s \in Slots : \A x :
                 x \in On([w EXCEPT ![h] = <<t>> \o @], s)
                    <=> x \in On(w, s) \/ (s = h /\ x = t)
<1> DEFINE v == [w EXCEPT ![h] = <<t>> \o @]
<1>1. w \in [Slots -> Seq(Timers)]
    BY DEF Wheel
<1>2. v[h] = <<t>> \o w[h] /\ \A s \in Slots : s # h => v[s] = w[s]
    BY <1>1
<1>3. v = [s \in Slots |-> v[s]]
    BY <1>1, Zenon
<1> HIDE DEF v
<1>4. /\ v[h] \in Seq(Timers) /\ OneTime(v[h])
      /\ \A x : x \in On(v, h) <=> x \in On(w, h) \/ x = t
    BY <1>2, WheelLists, ListPush DEF On
<1>5. \A s \in Slots : s # h => /\ v[s] \in Seq(Timers) /\ OneTime(v[s])
                                /\ \A x : x \in On(v, s) <=> x \in On(w, s)
    BY <1>2, WheelLists DEF On
<1>6. v \in [Slots -> Seq(Timers)]
    BY <1>3, <1>4, <1>5
<1>7. \A p, q \in Slots : \A x : x \in On(v, p) /\ x \in On(v, q) => p = q
    <2> TAKE p, q \in Slots
    <2> TAKE x
    <2> HAVE x \in On(v, p) /\ x \in On(v, q)
    <2>1. x \in On(w, p) \/ (p = h /\ x = t)
        BY <1>4, <1>5, Zenon
    <2>2. x \in On(w, q) \/ (q = h /\ x = t)
        BY <1>4, <1>5, Zenon
    <2>3. x \in On(w, p) /\ x \in On(w, q) => p = q
        BY Zenon DEF Wheel
    <2> QED
        BY <2>1, <2>2, <2>3, Zenon
<1>8. Wheel(v)
    <2>1. \A s \in Slots : OneTime(v[s])
        BY <1>4, <1>5
    <2> QED
        BY <1>6, <1>7, <2>1 DEF Wheel
<1> QED
    BY <1>4, <1>5, <1>8, Zenon DEF v

\* Taking the first timer of a slot.
LEMMA Popped ==
    ASSUME NEW w, Wheel(w), NEW h \in Slots, w[h] # <<>>
    PROVE  /\ Head(w[h]) \in On(w, h) /\ Head(w[h]) \in Timers
           /\ Wheel([w EXCEPT ![h] = Tail(@)])
           /\ \A s \in Slots : \A x :
                 x \in On([w EXCEPT ![h] = Tail(@)], s)
                    <=> x \in On(w, s) /\ x # Head(w[h])
<1> DEFINE v == [w EXCEPT ![h] = Tail(@)]
<1>1. w \in [Slots -> Seq(Timers)]
    BY DEF Wheel
<1>2. v[h] = Tail(w[h]) /\ \A s \in Slots : s # h => v[s] = w[s]
    BY <1>1
<1>3. v = [s \in Slots |-> v[s]]
    BY <1>1, Zenon
<1> HIDE DEF v
<1>4. /\ Head(w[h]) \in On(w, h) /\ Head(w[h]) \in Timers
      /\ v[h] \in Seq(Timers) /\ OneTime(v[h])
      /\ \A x : x \in On(v, h) <=> x \in On(w, h) /\ x # Head(w[h])
    BY <1>2, WheelLists, ListTail DEF On
<1>5. \A s \in Slots : s # h => /\ v[s] \in Seq(Timers) /\ OneTime(v[s])
                                /\ \A x : x \in On(v, s) <=> x \in On(w, s)
    BY <1>2, WheelLists DEF On
<1>6. v \in [Slots -> Seq(Timers)]
    BY <1>3, <1>4, <1>5
<1>7. Wheel(v)
    BY <1>4, <1>5, <1>6, Zenon DEF Wheel
<1>8. \A s \in Slots : s # h => Head(w[h]) \notin On(w, s)
    BY <1>4 DEF Wheel
<1> QED
    BY <1>4, <1>5, <1>7, <1>8, Zenon DEF v

\* Moving the list of a slot behind another.
LEMMA Moved ==
    ASSUME Wheel(time_wheel), NEW h \in Slots, NEW r \in Slots, MoveTimerList(r, h)
    PROVE  /\ Wheel(time_wheel')
           /\ \A s \in Slots : \A x :
                 x \in On(time_wheel', s) <=>
                    (x \in On(time_wheel, s) /\ s # r) \/ (x \in On(time_wheel, r) /\ s = h)
<1> DEFINE w == time_wheel
           u == [w EXCEPT ![r] = <<>>]
           v == [u EXCEPT ![h] = @ \o w[r]]
<1>1. w \in [Slots -> Seq(Timers)]
    BY DEF Wheel
<1>2. u[r] = <<>> /\ \A s \in Slots : s # r => u[s] = w[s]
    BY <1>1
<1>3. u \in [Slots -> Seq(Timers)]
    BY <1>1
<1>4. v[h] = u[h] \o w[r] /\ \A s \in Slots : s # h => v[s] = u[s]
    BY <1>3
<1>5. v = [s \in Slots |-> v[s]]
    BY <1>3, Zenon
<1>a. time_wheel' = v
    BY DEF MoveTimerList
<1> HIDE DEF u, v
<1>6. \A s \in Slots : /\ u[s] \in Seq(Timers) /\ OneTime(u[s])
                       /\ \A x : x \in On(u, s) <=> x \in On(w, s) /\ s # r
    <2> TAKE s \in Slots
    <2>1. CASE s = r
        BY <1>2, <2>1, ListEmpty, Zenon DEF On
    <2>2. CASE s # r
        BY <1>2, <2>2, WheelLists DEF On
    <2> QED
        BY <2>1, <2>2
<1>7. \A x : ~(x \in On(u, h) /\ x \in On(w, r))
    BY <1>6 DEF Wheel
<1>8. /\ v[h] \in Seq(Timers) /\ OneTime(v[h])
      /\ \A x : x \in On(v, h) <=> x \in On(u, h) \/ x \in On(w, r)
    <2>1. w[r] \in Seq(Timers) /\ OneTime(w[r]) /\ u[h] \in Seq(Timers) /\ OneTime(u[h])
        BY <1>6, WheelLists
    <2>2. \A x : ~(x \in Range(u[h]) /\ x \in Range(w[r]))
        BY <1>7 DEF On
    <2>3. /\ u[h] \o w[r] \in Seq(Timers) /\ OneTime(u[h] \o w[r])
          /\ \A x : x \in Range(u[h] \o w[r]) <=> x \in Range(u[h]) \/ x \in Range(w[r])
        BY <2>1, <2>2, ListJoin
    <2> QED
        BY <1>4, <2>3, Zenon DEF On
<1>9. \A s \in Slots : s # h => /\ v[s] \in Seq(Timers) /\ OneTime(v[s])
                                /\ \A x : x \in On(v, s) <=> x \in On(u, s)
    BY <1>4, <1>6 DEF On
<1>10. v \in [Slots -> Seq(Timers)]
    BY <1>5, <1>8, <1>9
<1>11. \A s \in Slots : \A x :
          x \in On(v, s) <=> (x \in On(w, s) /\ s # r) \/ (x \in On(w, r) /\ s = h)
    BY <1>6, <1>8, <1>9
<1>12. \A p, q \in Slots : \A t : t \in On(v, p) /\ t \in On(v, q) => p = q
    BY <1>11 DEF Wheel
<1>13. Wheel(v)
    BY <1>8, <1>9, <1>10, <1>12 DEF Wheel
<1> QED
    BY <1>11, <1>13, <1>a

\* AddTimer of a timer: it is in the slot of its expiration, or in none.
LEMMA Added ==
    ASSUME NEW t \in Timers, NEW ms \in Nat, last_ms \in Nat, Wheel(time_wheel)
    PROVE  /\ Wheel(AddTimer(t, ms))
           /\ \A s \in Slots : \A x :
                 x \in On(AddTimer(t, ms), s)
                    <=> \/ x \in On(time_wheel, s) /\ x # t
                        \/ x = t /\ s = FindHead(ms, last_ms)
<1> DEFINE d == DelTimer(t)
           h == FindHead(ms, last_ms)
           v == AddTimer(t, ms)
<1>1. v = IF h = nullptr THEN d ELSE [d EXCEPT ![h] = <<t>> \o @]
    BY DEF AddTimer
<1>2. Wheel(d) /\ \A s \in Slots : \A x : x \in On(d, s) <=> x \in On(time_wheel, s) /\ x # t
    BY Deleted
<1>3. h = nullptr \/ h \in Slots
    BY FindHeadType
<1>4. nullptr \notin Slots
    BY WheelAssumption DEF Slots, Wheels, nullptr
<1> HIDE DEF d, h, v
<1>5. CASE h = nullptr
    BY <1>1, <1>2, <1>4, <1>5 DEF h, v
<1>6. CASE h # nullptr
    <2>1. h \in Slots /\ v = [d EXCEPT ![h] = <<t>> \o @]
        BY <1>1, <1>3, <1>6
    <2>2. \A s \in Slots : t \notin On(d, s)
        BY <1>2
    <2>3. /\ Wheel(v)
          /\ \A s \in Slots : \A x : x \in On(v, s) <=> x \in On(d, s) \/ (s = h /\ x = t)
        BY <1>2, <2>1, <2>2, Pushed, Zenon
    <2> QED
        BY <1>2, <2>3 DEF h, v
<1> QED
    BY <1>5, <1>6

-----------------------------------------------------------------------------
(* Types.                                                                  *)

\* TypeOK, with a turn that does not go past the clock.
Typed ==
    /\ now \in Nat /\ last_ms \in Nat /\ target \in Nat
    /\ last_ms <= now /\ target <= now
    /\ Wheel(time_wheel)
    /\ expiration \in [Timers -> Nat]
    /\ pc \in {"idle", "tick", "cascade", "slot", "callback", "aborted"}
    /\ wheel_index \in Wheels
    /\ firing \in Timers

\* The inductive invariant says at least what TypeOK says.
LEMMA TypedIsTypeOK == Typed => TypeOK
<1> SUFFICES ASSUME Typed PROVE TypeOK
    OBVIOUS
<1>1. time_wheel \in [Slots -> Seq(Timers)]
    BY DEF Typed, Wheel
<1>2. \A r, s \in Slots : \A i \in DOMAIN time_wheel[r], j \in DOMAIN time_wheel[s] :
          time_wheel[r][i] = time_wheel[s][j] => r = s /\ i = j
    BY <1>1, WheelIsTypeOK DEF Typed
<1> QED
    BY <1>1, <1>2 DEF Typed, TypeOK

\* An empty wheel is well typed.
LEMMA InitTyped == Init => Typed
<1> SUFFICES ASSUME Init PROVE Typed
    OBVIOUS
<1>1. Wheel(time_wheel)
    <2>1. time_wheel = [s \in Slots |-> <<>>]
        BY DEF Init
    <2>2. time_wheel \in [Slots -> Seq(Timers)] /\ \A s \in Slots : time_wheel[s] = <<>>
        BY <2>1, ListEmpty
    <2> QED
        BY <2>2, ListEmpty DEF Wheel, On
<1>2. now \in Nat /\ 0 <= now
    BY WheelAssumption DEF Init
<1> QED
    BY <1>1, <1>2, WheelAssumption DEF Init, Typed, Wheels

\* The slots TurnWheel looks at.
LEMMA SlotsOfTurn ==
    ASSUME Typed
    PROVE  <<0, CalcTime(last_ms, 0)>> \in Slots /\ <<wheel_index, MovedIndex>> \in Slots
<1>1. 0 \in Wheels /\ 0 \in Nat /\ 1 \in Nat /\ last_ms \in Nat /\ wheel_index \in Wheels
    BY WheelAssumption DEF Typed, Wheels
<1>2. CalcTime(last_ms, 0) \in 0..(WheelSize - 1) /\ CalcTime(last_ms, 1) \in 0..(WheelSize - 1)
    BY <1>1, CalcTimeType, Zenon
<1> QED
    BY <1>1, <1>2, SlotType DEF MovedIndex

\* What Cascade does to the wheel.
LEMMA CascadeCases ==
    ASSUME Typed, Cascade
    PROVE  LET s == <<wheel_index, MovedIndex>>
               t == Head(time_wheel[s])
               head == FindHead(expiration[t], last_ms)
           IN  \/ time_wheel[s] = <<>> /\ time_wheel' = time_wheel
                  /\ (\/ pc' = "slot" /\ wheel_index' = wheel_index
                      \/ pc' = "cascade" /\ wheel_index' = wheel_index + 1
                         /\ wheel_index # WheelNum - 1)
               \/ /\ time_wheel[s] # <<>> /\ t \in On(time_wheel, s) /\ t \in Timers
                  /\ head \in Slots /\ MoveTimerList(s, head)
                  /\ (\/ pc' = "slot" /\ wheel_index' = wheel_index
                      \/ pc' = "cascade" /\ wheel_index' = wheel_index + 1
                         /\ wheel_index # WheelNum - 1)
               \/ /\ time_wheel[s] # <<>> /\ t \in On(time_wheel, s) /\ t \in Timers
                  /\ head = nullptr /\ pc' = "aborted"
                  /\ UNCHANGED <<time_wheel, wheel_index>>
<1> DEFINE s == <<wheel_index, MovedIndex>>
           t == Head(time_wheel[s])
           head == FindHead(expiration[t], last_ms)
<1>1. s \in Slots
    BY SlotsOfTurn
<1>2. time_wheel[s] # <<>> => /\ t \in On(time_wheel, s) /\ t \in Timers
                              /\ head = nullptr \/ head \in Slots
    <2> HAVE time_wheel[s] # <<>>
    <2>1. t \in On(time_wheel, s) /\ t \in Timers
        BY <1>1, Popped, Zenon DEF Typed
    <2>2. expiration[t] \in Nat /\ last_ms \in Nat
        BY <2>1 DEF Typed
    <2> QED
        BY <2>1, <2>2, FindHeadType
<1>3. /\ pc = "cascade"
      /\ IF time_wheel[s] # <<>> /\ head = nullptr
         THEN pc' = "aborted" /\ UNCHANGED <<time_wheel, wheel_index>>
         ELSE /\ IF time_wheel[s] = <<>> THEN UNCHANGED time_wheel
                                         ELSE MoveTimerList(s, head)
              /\ IF MovedIndex # 0 \/ wheel_index = WheelNum - 1
                 THEN pc' = "slot" /\ UNCHANGED wheel_index
                 ELSE wheel_index' = wheel_index + 1 /\ UNCHANGED pc
    BY DEF Cascade
<1> HIDE DEF s, t, head
<1>4. \/ time_wheel[s] = <<>> /\ time_wheel' = time_wheel
                  /\ (\/ pc' = "slot" /\ wheel_index' = wheel_index
                      \/ pc' = "cascade" /\ wheel_index' = wheel_index + 1
                         /\ wheel_index # WheelNum - 1)
      \/ /\ time_wheel[s] # <<>> /\ t \in On(time_wheel, s) /\ t \in Timers
                  /\ head \in Slots /\ MoveTimerList(s, head)
                  /\ (\/ pc' = "slot" /\ wheel_index' = wheel_index
                      \/ pc' = "cascade" /\ wheel_index' = wheel_index + 1
                         /\ wheel_index # WheelNum - 1)
      \/ /\ time_wheel[s] # <<>> /\ t \in On(time_wheel, s) /\ t \in Timers
         /\ head = nullptr /\ pc' = "aborted"
         /\ UNCHANGED <<time_wheel, wheel_index>>
    BY <1>2, <1>3
<1> QED
    BY <1>4 DEF s, t, head

\* What Run does to the wheel.
LEMMA RunCases ==
    ASSUME Typed, Run
    PROVE  LET s == <<0, CalcTime(last_ms, 0)>>
           IN  /\ s \in Slots
               /\ \/ /\ time_wheel[s] = <<>> /\ pc' = "tick"
                     /\ UNCHANGED <<time_wheel, firing>>
                  \/ /\ pc' = "callback"
                     /\ firing' \in On(time_wheel, s) /\ firing' \in Timers
                     /\ Wheel(time_wheel')
                     /\ \A r \in Slots : \A x :
                           x \in On(time_wheel', r) <=> x \in On(time_wheel, r) /\ x # firing'
<1> DEFINE s == <<0, CalcTime(last_ms, 0)>>
<1>1. s \in Slots
    BY SlotsOfTurn
<1>2. IF time_wheel[s] = <<>>
      THEN pc' = "tick" /\ UNCHANGED <<time_wheel, firing>>
      ELSE /\ firing' = Head(time_wheel[s])
           /\ time_wheel' = [time_wheel EXCEPT ![s] = Tail(@)]
           /\ pc' = "callback"
    BY DEF Run
<1> HIDE DEF s
<1>3. CASE time_wheel[s] = <<>>
    BY <1>1, <1>2, <1>3 DEF s
<1>4. CASE time_wheel[s] # <<>>
    <2>1. /\ firing' = Head(time_wheel[s])
          /\ time_wheel' = [time_wheel EXCEPT ![s] = Tail(@)]
          /\ pc' = "callback"
        BY <1>2, <1>4
    <2>2. /\ firing' \in On(time_wheel, s) /\ firing' \in Timers
          /\ Wheel(time_wheel')
          /\ \A r \in Slots : \A x :
                x \in On(time_wheel', r) <=> x \in On(time_wheel, r) /\ x # firing'
        BY <1>1, <1>4, <2>1, Popped, Zenon DEF Typed
    <2> QED
        BY <1>1, <2>1, <2>2, Zenon DEF s
<1> QED
    BY <1>3, <1>4

\* Every step keeps the wheel well typed.
LEMMA NextTyped == Typed /\ [Next]_vars => Typed'
<1> SUFFICES ASSUME Typed, [Next]_vars PROVE Typed'
    OBVIOUS
<1>1. ASSUME Clock PROVE Typed'
    BY <1>1 DEF Clock, Typed
<1>2. ASSUME TurnWheel PROVE Typed'
    BY <1>2 DEF TurnWheel, Typed
<1>3. ASSUME Tick PROVE Typed'
    BY <1>3, WheelAssumption DEF Tick, Typed, Wheels
<1>4. ASSUME Cascade PROVE Typed'
    <2>1. Wheel(time_wheel')
        <3> DEFINE s == <<wheel_index, MovedIndex>>
                   head == FindHead(expiration[Head(time_wheel[s])], last_ms)
        <3>1. s \in Slots
            BY SlotsOfTurn
        <3>2. \/ UNCHANGED time_wheel
              \/ head \in Slots /\ MoveTimerList(s, head)
            BY <1>4, CascadeCases
        <3> HIDE DEF s, head
        <3>3. CASE UNCHANGED time_wheel
            BY <3>3 DEF Typed
        <3>4. CASE head \in Slots /\ MoveTimerList(s, head)
            BY <3>1, <3>4, Moved DEF Typed
        <3> QED
            BY <3>2, <3>3, <3>4
    <2>2. /\ pc' \in {"slot", "cascade", "aborted"}
          /\ wheel_index' = wheel_index
             \/ (wheel_index' = wheel_index + 1 /\ wheel_index # WheelNum - 1)
        BY <1>4, CascadeCases
    <2>3. wheel_index' \in Wheels
        BY <2>2, WheelAssumption DEF Typed, Wheels
    <2> QED
        BY <1>4, <2>1, <2>2, <2>3 DEF Cascade, Typed
<1>5. ASSUME Run PROVE Typed'
    <2>1. Wheel(time_wheel') /\ firing' \in Timers /\ pc' \in {"tick", "callback"}
        BY <1>5, RunCases DEF Typed
    <2> QED
        BY <1>5, <2>1 DEF Run, Typed
<1>6. ASSUME NEW t \in Timers, Stop(t) PROVE Typed'
    <2>1. Wheel(time_wheel')
        BY <1>6, Deleted DEF Stop, Typed
    <2> QED
        BY <1>6, <2>1 DEF Stop, Typed
<1>7. ASSUME NEW t \in Timers, NEW ms \in Delays, Start(t, ms) PROVE Typed'
    <2>1. ms \in Nat /\ now + ms \in Nat
        BY WheelAssumption DEF Typed
    <2>2. Wheel(time_wheel')
        BY <1>7, <2>1, Added DEF Start, Typed
    <2>3. expiration' \in [Timers -> Nat]
        BY <1>7, <2>1 DEF Start, Typed
    <2> QED
        BY <1>7, <2>2, <2>3 DEF Start, Typed
<1>8. ASSUME NEW ms \in Periods, Return(ms) PROVE Typed'
    <2>1. ms \in Nat /\ firing \in Timers /\ expiration[firing] + ms \in Nat
        BY WheelAssumption DEF Typed
    <2>2. Wheel(time_wheel') /\ expiration' \in [Timers -> Nat]
        <3>1. CASE ms > 0
            <4>1. /\ expiration' = [expiration EXCEPT ![firing] = @ + ms]
                  /\ time_wheel' = AddTimer(firing, expiration'[firing])
                BY <1>8, <3>1 DEF Return
            <4>2. expiration' \in [Timers -> Nat] /\ expiration'[firing] \in Nat
                BY <2>1, <4>1 DEF Typed
            <4> QED
                BY <2>1, <4>1, <4>2, Added DEF Typed
        <3>2. CASE ~(ms > 0)
            BY <1>8, <3>2 DEF Return, Typed
        <3> QED
            BY <3>1, <3>2
    <2> QED
        BY <1>8, <2>2 DEF Return, Typed
<1>9. ASSUME UNCHANGED vars PROVE Typed'
    BY <1>9 DEF vars, Typed
<1> QED
    BY <1>1, <1>2, <1>3, <1>4, <1>5, <1>6, <1>7, <1>8, <1>9 DEF Next

\* The wheel is always well typed.
LEMMA AlwaysTyped == Spec => []Typed
BY InitTyped, NextTyped, PTL DEF Spec

\* Every variable has its type, the wheel is never ahead of the clock, and a
\* timer is linked at most once, whatever is started, stopped or returned.
THEOREM WheelTypeCorrect == Spec => []TypeOK
BY AlwaysTyped, TypedIsTypeOK, PTL

-----------------------------------------------------------------------------
(* When the wheel comes to a slot.                                         *)

\* A timer that expires at e, in slot c of wheel 0, runs in the round that
\* begins at lo, less than a round before and at most a round after e.
Due(lo, e, c) ==
    \E ms \in Nat : /\ ms % W = c /\ lo <= ms /\ ms < lo + W
                    /\ e < ms + W /\ ms <= e + W

\* A timer that expires at e, in slot c of wheel 1, comes down at the round of
\* wheel 0 in which it expires, the first such round of the slot at or after
\* `from'.
Coming(from, e, c) ==
    \E k \in Nat : /\ k % W = c /\ W * k <= e /\ e < W * k + W
                   /\ from <= W * k /\ W * k < from + W * W

\* The span of the first two wheels.
LEMMA Square == W * W \in Nat /\ W <= W * W
BY WheelSizeType

\* A timer AddTimer links on the first wheel is due within one round.
LEMMA DueFromStart ==
    ASSUME NEW last \in Nat, NEW e \in Nat, last <= e, e < last + W
    PROVE  Due(last, e, e % W) /\ Due(last + 1, e, e % W)
<1>1. Due(last, e, e % W)
    <2>1. e < e + W /\ e <= e + W
        BY WheelSizeType
    <2> QED
        BY <2>1 DEF Due
<1>2. CASE e = last
    <2>1. (e + W) % W = e % W
        BY NextRound
    <2>2. e + W \in Nat /\ last + 1 <= e + W /\ e + W < last + 1 + W
          /\ e < (e + W) + W /\ e + W <= e + W
        BY <1>2, WheelSizeType
    <2> QED
        BY <1>1, <2>1, <2>2 DEF Due
<1>3. CASE e # last
    <2>1. last + 1 <= e /\ e < last + 1 + W /\ e < e + W /\ e <= e + W
        BY <1>3, WheelSizeType
    <2> QED
        BY <1>1, <2>1 DEF Due
<1> QED
    BY <1>2, <1>3

\* A timer whose slot is not run now is still due a millisecond later.
LEMMA DueLater ==
    ASSUME NEW last \in Nat, NEW e \in Nat, NEW c, Due(last, e, c), c # last % W
    PROVE  Due(last + 1, e, c)
<1>1. PICK ms \in Nat : ms % W = c /\ last <= ms /\ ms < last + W
                        /\ e < ms + W /\ ms <= e + W
    BY DEF Due
<1>2. ms # last
    BY <1>1
<1>3. last + 1 <= ms /\ ms < last + 1 + W
    BY <1>1, <1>2, WheelSizeType
<1> QED
    BY <1>1, <1>3 DEF Due

\* A timer in the slot run now is at most one round off its time.
LEMMA DueNow ==
    ASSUME NEW last \in Nat, NEW e \in Nat, Due(last, e, last % W)
    PROVE  e < last + W /\ last <= e + W
<1>1. PICK ms \in Nat : ms % W = last % W /\ last <= ms /\ ms < last + W
                        /\ e < ms + W /\ ms <= e + W
    BY DEF Due
<1>2. last < ms + W
    BY <1>1, WheelSizeType
<1>3. ms = last
    BY <1>1, <1>2, SameRound
<1> QED
    BY <1>1, <1>3

\* A timer that is due is at most one round late.
LEMMA DueBound ==
    ASSUME NEW lo \in Nat, NEW e \in Nat, NEW c, Due(lo, e, c)
    PROVE  lo <= e + W
BY WheelSizeType DEF Due

\* A timer that Cascade moves to the first wheel is due within one round.
LEMMA DueMoved ==
    ASSUME NEW last \in Nat, NEW e \in Nat, NEW f \in Nat,
           last <= e, e < last + W, last <= f, f < last + W
    PROVE  Due(last, e, f % W)
<1>1. e < f + W /\ f <= e + W
    BY WheelSizeType
<1> QED
    BY <1>1 DEF Due

\* A timer AddTimer links on the second wheel comes round before its time.
LEMMA ComingFromStart ==
    ASSUME NEW last \in Nat, NEW e \in Nat, last + W <= e, e < last + W * W
    PROVE  Coming(last + 1, e, (e \div W) % W)
<1>1. PICK k \in Nat, r \in 0..(W - 1) : k = e \div W /\ e = W * k + r
    BY Division
<1>2. PICK x \in Nat, z \in Nat : x = W * k /\ z = W * W
    BY Square, WheelSizeType
<1>3. x <= e /\ e < x + W /\ last + 1 <= x /\ x < last + 1 + z
    BY <1>1, <1>2, WheelSizeType
<1> QED
    BY <1>1, <1>2, <1>3 DEF Coming

\* A timer on the second wheel stays ahead of the hand between cascades.
LEMMA ComingLater ==
    ASSUME NEW from \in Nat, NEW e \in Nat, NEW c, Coming(from, e, c), from % W # 0
    PROVE  Coming(from + 1, e, c)
<1>1. PICK k \in Nat : k % W = c /\ W * k <= e /\ e < W * k + W
                       /\ from <= W * k /\ W * k < from + W * W
    BY DEF Coming
<1>2. PICK x \in Nat, z \in Nat : x = W * k /\ z = W * W
    BY Square, WheelSizeType
<1>3. x % W = 0
    <2>1. 0 \in 0..(W - 1) /\ W * k + 0 = x
        BY <1>2, WheelSizeType
    <2>2. (W * k + 0) % W = 0
        BY <2>1, Multiple
    <2> QED
        BY <2>1, <2>2
<1>4. from # x
    BY <1>3
<1>5. from + 1 <= x /\ x < from + 1 + z
    BY <1>1, <1>2, <1>4
<1> QED
    BY <1>1, <1>2, <1>5 DEF Coming

\* At the start of a round the slot of wheel 1 that comes down has the timers
\* that expire in the round, and no other slot has one.
LEMMA ComingDown ==
    ASSUME NEW last \in Nat, NEW e \in Nat, NEW c, last % W = 0, Coming(last, e, c)
    PROVE  /\ c = (last \div W) % W => last <= e /\ e < last + W
           /\ c # (last \div W) % W => Coming(last + 1, e, c)
<1>1. PICK k \in Nat : k % W = c /\ W * k <= e /\ e < W * k + W
                       /\ last <= W * k /\ W * k < last + W * W
    BY DEF Coming
<1>2. PICK l \in Nat : l = last \div W /\ last = W * l
    BY Division, WheelSizeType
<1>3. PICK x \in Nat, y \in Nat, z \in Nat : x = W * k /\ y = W * l /\ z = W * W
    BY Square, WheelSizeType
<1>4. ASSUME c = l % W PROVE k = l
    <2>1. k < l => x + W <= y
        BY <1>3, Apart
    <2>2. ~(k < l)
        BY <1>1, <1>2, <1>3, <2>1, WheelSizeType
    <2>3. l + W \in Nat /\ W * (l + W) = y + z
        BY <1>3, WheelSizeType
    <2>4. l + W < k => y + z + W <= x
        BY <1>3, <2>3, Apart
    <2>5. k # l + W
        BY <1>1, <1>2, <1>3, <2>3
    <2>6. k < l + W
        BY <1>1, <1>2, <1>3, <2>4, <2>5, WheelSizeType
    <2>7. l < k + W
        BY <2>2, WheelSizeType
    <2> QED
        BY <1>1, <1>4, <2>6, <2>7, SameRound
<1>5. c = l % W => last <= e /\ e < last + W
    BY <1>1, <1>2, <1>4, Zenon
<1>6. ASSUME c # l % W PROVE Coming(last + 1, e, c)
    <2>1. k # l
        BY <1>1, <1>6
    <2>2. k < l => x + W <= y
        BY <1>3, Apart
    <2>3. l < k => y + W <= x
        BY <1>3, Apart
    <2>4. last + 1 <= x /\ x < last + 1 + z
        BY <1>1, <1>2, <1>3, <2>1, <2>2, <2>3, WheelSizeType
    <2> QED
        BY <1>1, <1>3, <2>4 DEF Coming
<1> QED
    BY <1>2, <1>5, <1>6

\* A timer on the second wheel is not late.
LEMMA ComingBound ==
    ASSUME NEW from \in Nat, NEW e \in Nat, NEW c, Coming(from, e, c)
    PROVE  from <= e
<1>1. PICK k \in Nat : W * k <= e /\ from <= W * k
    BY DEF Coming
<1>2. PICK x \in Nat : x = W * k
    BY WheelSizeType
<1> QED
    BY <1>1, <1>2

-----------------------------------------------------------------------------
(* Timers that never go beyond wheel 1.                                    *)

\* No timer is started, or started again by its callback, for more than a round
\* of wheel 1 from where the wheel is.
Near ==
    /\ \A d \in Delays : d + MaxLag < W * W
    /\ \A p \in Periods : p + W <= W * W
    /\ \A d \in Delays, p \in Periods : d + MaxLag + p < W * W

\* The round of wheel 0 that is under way, or the next one.
Lo == IF pc \in {"cascade", "slot", "callback"} THEN last_ms ELSE last_ms + 1

\* The slot of wheel 1 for this round has yet to come down, or has.
From == IF pc = "cascade" /\ wheel_index = 1 THEN last_ms ELSE last_ms + 1

\* Slot c of wheel i is one for a timer that expires at e.
Fits(i, c, lo, from, e) ==
    /\ i \in {0, 1}
    /\ i = 0 => Due(lo, e, c)
    /\ i = 1 => Coming(from, e, c)

Placed ==
    \A i \in Wheels, c \in 0..(WheelSize - 1) : \A t \in On(time_wheel, <<i, c>>) :
        Fits(i, c, Lo, From, expiration[t])

\* The timer whose callback runs can be started again.
Again ==
    pc = "callback" =>
        /\ \A p \in Periods : expiration[firing] + p < last_ms + W * W
        /\ \A s \in Slots : firing \in On(time_wheel, s) => last_ms <= expiration[firing]

NearInv ==
    /\ Typed /\ Placed /\ Again
    /\ pc = "cascade" => wheel_index >= 1 /\ last_ms % W = 0
    /\ now <= last_ms + MaxLag
    /\ pc # "aborted"

\* An empty wheel satisfies the invariant.
LEMMA InitNear == Init => NearInv
<1> SUFFICES ASSUME Init PROVE NearInv
    OBVIOUS
<1>1. Typed
    BY InitTyped
<1>2. Placed
    <2>1. \A s \in Slots : time_wheel[s] = <<>>
        BY DEF Init
    <2>2. \A s \in Slots : On(time_wheel, s) = {}
        BY <2>1, ListEmpty DEF On
    <2> QED
        BY <2>2, SlotType DEF Placed
<1>3. pc = "idle" /\ now <= last_ms + MaxLag
    <2>1. pc = "idle" /\ now = last_ms
        BY DEF Init
    <2> QED
        BY <1>1, <2>1, WheelAssumption DEF Typed
<1> QED
    BY <1>1, <1>2, <1>3 DEF NearInv, Again

\* The slot FindHead gives to an expiration ahead of the wheel.
LEMMA Placing ==
    ASSUME NEW last \in Nat, NEW ms \in Nat, last <= ms, ms < last + W * W
    PROVE  /\ FindHead(ms, last) \in Slots
           /\ \A i \in Wheels, c \in 0..(WheelSize - 1) :
                 <<i, c>> = FindHead(ms, last) =>
                    /\ Fits(i, c, last, last + 1, ms)
                    /\ Fits(i, c, last + 1, last + 1, ms)
<1>1. FindHead(ms, last) = IF ms < last + W THEN <<0, ms % W>>
                           ELSE <<1, (ms \div W) % W>>
    BY FindHeadNear
<1>2. ms % W \in 0..(WheelSize - 1) /\ (ms \div W) % W \in 0..(WheelSize - 1)
    BY Division DEF W
<1>3. 0 \in Wheels /\ 1 \in Wheels
    BY WheelAssumption DEF Wheels
<1>4. <<0, ms % W>> \in Slots /\ <<1, (ms \div W) % W>> \in Slots
    BY <1>2, <1>3, SlotType
<1>5. CASE ms < last + W
    <2>1. Due(last, ms, ms % W) /\ Due(last + 1, ms, ms % W)
        BY <1>5, DueFromStart
    <2>2. PICK r : r = ms % W
        OBVIOUS
    <2>3. FindHead(ms, last) = <<0, r>> /\ FindHead(ms, last) \in Slots
        BY <1>1, <1>4, <1>5, <2>2
    <2>4. Fits(0, r, last, last + 1, ms) /\ Fits(0, r, last + 1, last + 1, ms)
        BY <2>1, <2>2 DEF Fits
    <2> QED
        BY <2>3, <2>4
<1>6. CASE ~(ms < last + W)
    <2>1. last + W <= ms
        BY <1>6, WheelSizeType
    <2>2. Coming(last + 1, ms, (ms \div W) % W)
        BY <2>1, ComingFromStart
    <2>3. PICK r : r = (ms \div W) % W
        OBVIOUS
    <2>4. FindHead(ms, last) = <<1, r>> /\ FindHead(ms, last) \in Slots
        BY <1>1, <1>4, <1>6, <2>3
    <2>5. Fits(1, r, last, last + 1, ms) /\ Fits(1, r, last + 1, last + 1, ms)
        BY <2>2, <2>3 DEF Fits
    <2> QED
        BY <2>4, <2>5
<1> QED
    BY <1>5, <1>6

\* Where the wheel stays, timers stay placed; a timer that is linked is placed.
LEMMA StillPlaced ==
    ASSUME NearInv, UNCHANGED last_ms, Lo' = Lo, From' = From,
           \A s \in Slots : \A x : x \in On(time_wheel', s) =>
              \/ x \in On(time_wheel, s) /\ expiration'[x] = expiration[x]
              \/ \A i \in Wheels, c \in 0..(WheelSize - 1) : s = <<i, c>> =>
                    Fits(i, c, Lo, From, expiration'[x])
    PROVE  Placed'
<1> SUFFICES ASSUME NEW i \in Wheels, NEW c \in 0..(WheelSize - 1),
                    NEW t \in On(time_wheel', <<i, c>>)
             PROVE  Fits(i, c, Lo, From, expiration'[t])
    BY DEF Placed, Fits
<1>1. <<i, c>> \in Slots
    BY SlotType
<1> QED
    BY <1>1, Zenon DEF NearInv, Placed

\* Time passing moves no timer.
LEMMA ClockNear == NearInv /\ Clock => NearInv'
<1> SUFFICES ASSUME NearInv, Clock PROVE NearInv'
    OBVIOUS
<1>1. Typed'
    BY NextTyped DEF NearInv, Next
<1>2. UNCHANGED <<last_ms, time_wheel, expiration, pc, wheel_index, firing>>
    BY DEF Clock
<1>3. Placed' /\ Again'
    BY <1>2 DEF NearInv, Placed, Again, Lo, From
<1>4. (now <= last_ms + MaxLag)'
    BY WheelAssumption DEF Clock, NearInv, Typed
<1> QED
    BY <1>1, <1>2, <1>3, <1>4 DEF NearInv

\* Reading the clock moves no timer.
LEMMA TurnWheelNear == NearInv /\ TurnWheel => NearInv'
<1> SUFFICES ASSUME NearInv, TurnWheel PROVE NearInv'
    OBVIOUS
<1>1. Typed'
    BY NextTyped DEF NearInv, Next
<1>2. /\ UNCHANGED <<now, last_ms, time_wheel, expiration, wheel_index, firing>>
      /\ pc = "idle" /\ pc' = "tick"
    BY DEF TurnWheel
<1>3. Lo' = Lo /\ From' = From
    BY <1>2 DEF Lo, From
<1>4. Placed'
    BY <1>2, <1>3, StillPlaced
<1> QED
    BY <1>1, <1>2, <1>4 DEF NearInv, Again

\* One millisecond further, no timer that was due is left behind.
LEMMA TickNear == NearInv /\ Tick => NearInv'
<1> SUFFICES ASSUME NearInv, Tick PROVE NearInv'
    OBVIOUS
<1>1. Typed'
    BY NextTyped DEF NearInv, Next
<1>2. pc = "tick" /\ UNCHANGED <<now, time_wheel, expiration, target, firing>>
    BY DEF Tick
<1>3. CASE last_ms < target
    <2>1. /\ last_ms' = last_ms + 1 /\ wheel_index' = 1
          /\ pc' = IF CalcTime(last_ms', 0) = 0 THEN "cascade" ELSE "slot"
        BY <1>3 DEF Tick
    <2>2. last_ms \in Nat /\ last_ms' \in Nat
        BY <1>1 DEF NearInv, Typed
    <2>3. CalcTime(last_ms', 0) = last_ms' % W
        BY <2>2, CalcTimeNear
    <2>4. Lo = last_ms + 1 /\ Lo' = last_ms + 1 /\ From = last_ms + 1
        BY <1>2, <2>1 DEF Lo, From
    <2>5. From' = IF (last_ms + 1) % W = 0 THEN last_ms + 1 ELSE (last_ms + 1) + 1
        BY <2>1, <2>3 DEF From
    <2>6. Placed'
        <3> SUFFICES ASSUME NEW i \in Wheels, NEW c \in 0..(WheelSize - 1),
                            NEW t \in On(time_wheel, <<i, c>>)
                     PROVE  Fits(i, c, last_ms + 1, From', expiration[t])
            BY <1>2, <2>1, <2>4 DEF Placed
        <3>1. Fits(i, c, last_ms + 1, last_ms + 1, expiration[t])
            BY <2>4 DEF NearInv, Placed
        <3>2. <<i, c>> \in Slots
            BY SlotType
        <3>3. expiration[t] \in Nat
            BY <3>2, WheelLists DEF NearInv, Typed
        <3>4. i = 1 => Coming(From', expiration[t], c)
            <4> HAVE i = 1
            <4>1. Coming(last_ms + 1, expiration[t], c) /\ last_ms + 1 \in Nat
                BY <2>2, <3>1 DEF Fits
            <4>2. (last_ms + 1) % W # 0 => Coming((last_ms + 1) + 1, expiration[t], c)
                BY <3>3, <4>1, ComingLater
            <4> QED
                BY <2>5, <4>1, <4>2
        <3> QED
            BY <3>1, <3>4 DEF Fits
    <2>7. (now <= last_ms + MaxLag)'
        BY <1>2, <2>1, WheelAssumption DEF NearInv, Typed
    <2>8. pc' = "cascade" => wheel_index' >= 1 /\ last_ms' % W = 0
        BY <2>1, <2>3
    <2>9. pc' # "callback" /\ pc' # "aborted"
        BY <2>1
    <2> QED
        BY <1>1, <2>6, <2>7, <2>8, <2>9 DEF NearInv, Again
<1>4. CASE ~(last_ms < target)
    <2>1. pc' = "idle" /\ UNCHANGED <<last_ms, wheel_index>>
        BY <1>4 DEF Tick
    <2>2. Lo' = Lo /\ From' = From
        BY <1>2, <2>1 DEF Lo, From
    <2>3. Placed'
        BY <1>2, <2>1, <2>2, StillPlaced
    <2> QED
        BY <1>1, <1>2, <2>1, <2>3 DEF NearInv, Again
<1> QED
    BY <1>3, <1>4

\* At the start of a round the first timer of the slot of wheel 1 that comes down
\* expires in this round, and so do the others.
LEMMA CascadeDown ==
    ASSUME NearInv, pc = "cascade", wheel_index = 1,
           NEW t \in On(time_wheel, <<1, MovedIndex>>)
    PROVE  t \in Timers /\ expiration[t] \in Nat
           /\ last_ms <= expiration[t] /\ expiration[t] < last_ms + W
<1>1. last_ms \in Nat /\ last_ms % W = 0 /\ 1 \in Wheels
    BY DEF NearInv, Typed
<1>2. MovedIndex = (last_ms \div W) % W
    BY <1>1, CalcTimeNear DEF MovedIndex
<1>3. MovedIndex \in 0..(WheelSize - 1)
    BY <1>1, CalcTimeType DEF MovedIndex
<1>4. t \in Timers /\ expiration[t] \in Nat
    BY <1>1, <1>3, SlotType, WheelLists DEF NearInv, Typed
<1>5. Coming(last_ms, expiration[t], MovedIndex)
    BY <1>1, <1>3 DEF NearInv, Placed, Fits, From
<1>6. last_ms <= expiration[t] /\ expiration[t] < last_ms + W
    BY <1>1, <1>2, <1>4, <1>5, ComingDown
<1> QED
    BY <1>4, <1>6

\* Every wheel coarser than wheel 1 is empty, and the list of wheel 1 that comes
\* down fits in the slot of its first timer.
LEMMA CascadeMoves ==
    ASSUME NearInv, Cascade
    PROVE  \/ /\ UNCHANGED time_wheel
              /\ \A x : x \notin On(time_wheel, <<wheel_index, MovedIndex>>)
           \/ /\ wheel_index = 1
              /\ \E f \in Nat :
                    /\ last_ms <= f /\ f < last_ms + W
                    /\ \A s \in Slots : \A x :
                          x \in On(time_wheel', s) <=>
                             \/ x \in On(time_wheel, s) /\ s # <<1, MovedIndex>>
                             \/ x \in On(time_wheel, <<1, MovedIndex>>) /\ s = <<0, f % W>>
<1> DEFINE s == <<wheel_index, MovedIndex>>
           t == Head(time_wheel[s])
           head == FindHead(expiration[t], last_ms)
<1>1. s \in Slots /\ pc = "cascade" /\ wheel_index \in Wheels /\ wheel_index >= 1
    BY SlotsOfTurn, Zenon DEF NearInv, Cascade, Typed
<1>2. \/ time_wheel[s] = <<>> /\ UNCHANGED time_wheel
      \/ t \in On(time_wheel, s) /\ head \in Slots /\ MoveTimerList(s, head)
      \/ t \in On(time_wheel, s) /\ head = nullptr
    BY CascadeCases DEF NearInv
<1>3. CASE time_wheel[s] = <<>> /\ UNCHANGED time_wheel
    BY <1>3, ListEmpty DEF On
<1>4. CASE t \in On(time_wheel, s)
    <2> HIDE DEF t
    <2>1. wheel_index = 1
        <3>1. MovedIndex \in 0..(WheelSize - 1)
            BY CalcTimeType DEF MovedIndex, NearInv, Typed
        <3>2. wheel_index \in {0, 1}
            BY <1>1, <1>4, <3>1 DEF NearInv, Placed, Fits
        <3> QED
            BY <1>1, <3>2
    <2>2. PICK f \in Nat : f = expiration[t] /\ last_ms <= f /\ f < last_ms + W
        BY <1>1, <1>4, <2>1, CascadeDown
    <2>3. last_ms \in Nat /\ f < last_ms + W * W
        <3>1. last_ms \in Nat
            BY DEF NearInv, Typed
        <3>2. PICK z \in Nat : z = W * W /\ W <= z
            BY Square
        <3> QED
            BY <2>2, <3>1, <3>2, WheelSizeType
    <2>4. head = <<0, f % W>>
        BY <2>2, <2>3, FindHeadNear
    <2>5. head \in Slots
        BY <2>2, <2>3, Placing
    <2>6. head # nullptr
        BY <2>4 DEF nullptr
    <2> HIDE DEF s, head
    <2>7. MoveTimerList(s, head)
        BY <1>2, <1>4, <2>6, ListEmpty DEF On
    <2>8. \A r \in Slots : \A x :
             x \in On(time_wheel', r) <=> \/ x \in On(time_wheel, r) /\ r # s
                                          \/ x \in On(time_wheel, s) /\ r = head
        <3>1. Wheel(time_wheel)
            BY DEF NearInv, Typed
        <3> QED
            BY <1>1, <2>5, <2>7, <3>1, Moved
    <2>9. s = <<1, MovedIndex>>
        BY <2>1 DEF s
    <2> QED
        BY <2>1, <2>2, <2>4, <2>8, <2>9
<1> QED
    BY <1>2, <1>3, <1>4, Zenon

\* Cascade brings each timer to the first wheel within a round of its time.
LEMMA CascadeNear == NearInv /\ Cascade => NearInv'
<1> SUFFICES ASSUME NearInv, Cascade PROVE NearInv'
    OBVIOUS
<1>1. Typed'
    BY NextTyped DEF NearInv, Next
<1>2. pc = "cascade" /\ UNCHANGED <<now, last_ms, expiration, target, firing>>
    BY DEF Cascade
<1>3. last_ms \in Nat /\ last_ms % W = 0 /\ wheel_index \in Nat /\ wheel_index >= 1
    BY <1>2, WheelAssumption DEF NearInv, Typed, Wheels
<1>4. MovedIndex = (last_ms \div W) % W /\ MovedIndex \in 0..(WheelSize - 1)
    BY <1>3, CalcTimeNear, CalcTimeType DEF MovedIndex
<1>5. pc' \in {"slot", "cascade"}
    <2> DEFINE s == <<wheel_index, MovedIndex>>
               t == Head(time_wheel[s])
               head == FindHead(expiration[t], last_ms)
    <2>1. \/ pc' \in {"slot", "cascade"}
          \/ t \in On(time_wheel, s) /\ head = nullptr /\ UNCHANGED time_wheel
        BY CascadeCases DEF NearInv
    <2>2. ASSUME t \in On(time_wheel, s), head = nullptr PROVE FALSE
        <3> HIDE DEF t
        <3>1. wheel_index \in {0, 1}
            BY <1>4, <2>2 DEF NearInv, Typed, Placed, Fits
        <3>2. wheel_index = 1
            BY <1>3, <3>1
        <3>3. expiration[t] \in Nat /\ last_ms <= expiration[t] /\ expiration[t] < last_ms + W
            BY <1>2, <2>2, <3>2, CascadeDown
        <3>4. PICK z \in Nat : z = W * W /\ W <= z
            BY Square
        <3>5. expiration[t] < last_ms + W * W
            BY <1>3, <3>3, <3>4, WheelSizeType
        <3>6. head \in Slots
            BY <1>3, <3>3, <3>5, Placing
        <3> QED
            BY <2>2, <3>6, WheelAssumption DEF Slots, Wheels, nullptr
    <2> QED
        BY <2>1, <2>2
<1>6. wheel_index' \in Nat /\ wheel_index' >= 1 /\ (pc' = "cascade" => wheel_index' # 1)
    <2>1. \/ pc' = "slot" /\ wheel_index' = wheel_index
          \/ pc' = "cascade" /\ wheel_index' = wheel_index + 1
        BY <1>5, CascadeCases DEF NearInv
    <2> QED
        BY <1>3, <2>1
<1>7. Lo = last_ms /\ Lo' = last_ms /\ From' = last_ms + 1
    BY <1>2, <1>5, <1>6 DEF Lo, From
<1>8. Placed'
    <2> SUFFICES ASSUME NEW i \in Wheels, NEW c \in 0..(WheelSize - 1),
                        NEW t \in On(time_wheel', <<i, c>>)
                 PROVE  Fits(i, c, last_ms, last_ms + 1, expiration[t])
        BY <1>2, <1>7 DEF Placed
    <2>1. <<i, c>> \in Slots
        BY SlotType
    <2>2. ASSUME t \in On(time_wheel, <<i, c>>), <<i, c>> # <<wheel_index, MovedIndex>>
          PROVE  Fits(i, c, last_ms, last_ms + 1, expiration[t])
        <3>1. Fits(i, c, last_ms, From, expiration[t])
            BY <1>7, <2>2 DEF NearInv, Placed
        <3>2. expiration[t] \in Nat
            BY <2>1, <2>2, WheelLists DEF NearInv, Typed
        <3>3. CASE wheel_index = 1
            <4>1. From = last_ms
                BY <1>2, <3>3 DEF From
            <4>2. ASSUME i = 1 PROVE Coming(last_ms + 1, expiration[t], c)
                <5>1. c # MovedIndex
                    BY <2>2, <3>3, <4>2
                <5>2. Coming(last_ms, expiration[t], c)
                    BY <3>1, <4>1, <4>2 DEF Fits
                <5> QED
                    BY <1>3, <1>4, <3>2, <5>1, <5>2, ComingDown
            <4> QED
                BY <3>1, <4>2 DEF Fits
        <3>4. CASE wheel_index # 1
            <4>1. From = last_ms + 1
                BY <3>4 DEF From
            <4> QED
                BY <3>1, <4>1
        <3> QED
            BY <3>3, <3>4
    <2>3. CASE /\ UNCHANGED time_wheel
               /\ \A x : x \notin On(time_wheel, <<wheel_index, MovedIndex>>)
        BY <2>2, <2>3
    <2>4. CASE /\ wheel_index = 1
               /\ \E f \in Nat :
                    /\ last_ms <= f /\ f < last_ms + W
                    /\ \A s \in Slots : \A x :
                          x \in On(time_wheel', s) <=>
                             \/ x \in On(time_wheel, s) /\ s # <<1, MovedIndex>>
                             \/ x \in On(time_wheel, <<1, MovedIndex>>) /\ s = <<0, f % W>>
        <3>1. PICK f \in Nat :
                    /\ last_ms <= f /\ f < last_ms + W
                    /\ \A s \in Slots : \A x :
                          x \in On(time_wheel', s) <=>
                             \/ x \in On(time_wheel, s) /\ s # <<1, MovedIndex>>
                             \/ x \in On(time_wheel, <<1, MovedIndex>>) /\ s = <<0, f % W>>
            BY <2>4
        <3>2. CASE t \in On(time_wheel, <<i, c>>) /\ <<i, c>> # <<1, MovedIndex>>
            BY <2>2, <2>4, <3>2
        <3>3. CASE t \in On(time_wheel, <<1, MovedIndex>>) /\ <<i, c>> = <<0, f % W>>
            <4>1. i = 0 /\ c = f % W
                BY <3>3
            <4>2. expiration[t] \in Nat /\ last_ms <= expiration[t] /\ expiration[t] < last_ms + W
                BY <1>2, <2>4, <3>3, CascadeDown
            <4>3. Due(last_ms, expiration[t], f % W)
                BY <1>3, <3>1, <4>2, DueMoved
            <4> QED
                BY <4>1, <4>3 DEF Fits
        <3> QED
            BY <2>1, <3>1, <3>2, <3>3
    <2> QED
        BY <2>3, <2>4, CascadeMoves
<1> QED
    BY <1>1, <1>2, <1>3, <1>5, <1>6, <1>8 DEF NearInv, Again

\* A timer of the slot that runs is near its expiration.
LEMMA RunIsNear ==
    ASSUME NearInv, pc = "slot", NEW t \in On(time_wheel, <<0, CalcTime(last_ms, 0)>>)
    PROVE  t \in Timers /\ expiration[t] \in Nat
           /\ expiration[t] < last_ms + W /\ last_ms <= expiration[t] + W
<1>1. last_ms \in Nat /\ 0 \in Wheels
    BY WheelAssumption DEF NearInv, Typed, Wheels
<1>2. CalcTime(last_ms, 0) = last_ms % W /\ CalcTime(last_ms, 0) \in 0..(WheelSize - 1)
    BY <1>1, CalcTimeNear, CalcTimeType
<1>3. t \in Timers /\ expiration[t] \in Nat
    BY <1>1, <1>2, SlotType, WheelLists DEF NearInv, Typed
<1>4. Due(last_ms, expiration[t], last_ms % W)
    <2>1. Lo = last_ms
        BY DEF Lo
    <2> QED
        BY <1>1, <1>2, <2>1 DEF NearInv, Placed, Fits
<1> QED
    BY <1>1, <1>3, <1>4, DueNow

\* Running a timer takes it off the wheel no more than a round off its time.
LEMMA RunNear == ASSUME Near PROVE NearInv /\ Run => NearInv'
<1> SUFFICES ASSUME NearInv, Run PROVE NearInv'
    OBVIOUS
<1> DEFINE s == <<0, CalcTime(last_ms, 0)>>
<1>1. Typed'
    BY NextTyped DEF NearInv, Next
<1>2. pc = "slot" /\ UNCHANGED <<now, last_ms, expiration, target, wheel_index>>
    BY DEF Run
<1>3. /\ s \in Slots
      /\ \/ /\ time_wheel[s] = <<>> /\ pc' = "tick"
            /\ UNCHANGED <<time_wheel, firing>>
         \/ /\ pc' = "callback"
            /\ firing' \in On(time_wheel, s) /\ firing' \in Timers
            /\ \A r \in Slots : \A x :
                  x \in On(time_wheel', r) <=> x \in On(time_wheel, r) /\ x # firing'
    BY RunCases DEF NearInv
<1>4. last_ms \in Nat /\ 0 \in Wheels
    BY WheelAssumption DEF NearInv, Typed, Wheels
<1>5. CalcTime(last_ms, 0) = last_ms % W
    BY <1>4, CalcTimeNear
<1>6. CASE time_wheel[s] = <<>> /\ pc' = "tick" /\ UNCHANGED <<time_wheel, firing>>
    <2>1. Lo = last_ms /\ Lo' = last_ms + 1 /\ From = last_ms + 1 /\ From' = last_ms + 1
        BY <1>2, <1>6 DEF Lo, From
    <2>2. \A x : x \notin On(time_wheel, s)
        BY <1>6, ListEmpty DEF On
    <2>3. Placed'
        <3> SUFFICES ASSUME NEW i \in Wheels, NEW c \in 0..(WheelSize - 1),
                            NEW t \in On(time_wheel, <<i, c>>)
                     PROVE  Fits(i, c, last_ms + 1, last_ms + 1, expiration[t])
            BY <1>2, <1>6, <2>1 DEF Placed
        <3>1. Fits(i, c, last_ms, last_ms + 1, expiration[t])
            BY <2>1 DEF NearInv, Placed
        <3>2. expiration[t] \in Nat
            BY SlotType, WheelLists DEF NearInv, Typed
        <3>3. ASSUME i = 0 PROVE Due(last_ms + 1, expiration[t], c)
            <4>1. c # last_ms % W
                BY <1>5, <2>2, <3>3
            <4>2. Due(last_ms, expiration[t], c)
                BY <3>1, <3>3 DEF Fits
            <4> QED
                BY <1>4, <3>2, <4>1, <4>2, DueLater
        <3> QED
            BY <3>1, <3>3 DEF Fits
    <2> QED
        BY <1>1, <1>2, <1>6, <2>3 DEF NearInv, Again
<1>7. CASE /\ pc' = "callback"
           /\ firing' \in On(time_wheel, s) /\ firing' \in Timers
           /\ \A r \in Slots : \A x :
                 x \in On(time_wheel', r) <=> x \in On(time_wheel, r) /\ x # firing'
    <2>1. Lo' = Lo /\ From' = From
        BY <1>2, <1>7 DEF Lo, From
    <2>2. Placed'
        BY <1>2, <1>7, <2>1, StillPlaced
    <2>3. expiration[firing'] \in Nat /\ expiration[firing'] < last_ms + W
        BY <1>2, <1>7, RunIsNear
    <2>4. Again'
        <3>1. ASSUME NEW p \in Periods PROVE expiration[firing'] + p < last_ms + W * W
            <4>1. PICK z \in Nat : z = W * W /\ p + W <= z /\ p \in Nat
                BY Square, WheelAssumption DEF Near
            <4> QED
                BY <1>4, <2>3, <4>1, WheelSizeType
        <3>2. \A r \in Slots : firing' \notin On(time_wheel', r)
            BY <1>7
        <3> QED
            BY <1>2, <3>1, <3>2 DEF Again
    <2> QED
        BY <1>1, <1>2, <1>7, <2>2, <2>4 DEF NearInv
<1> QED
    BY <1>3, <1>6, <1>7

\* Stop leaves the other timers where they are.
LEMMA StopNear == ASSUME NEW t \in Timers PROVE NearInv /\ Stop(t) => NearInv'
<1> SUFFICES ASSUME NearInv, Stop(t) PROVE NearInv'
    OBVIOUS
<1>1. Typed'
    BY NextTyped DEF NearInv, Next
<1>2. UNCHANGED <<now, last_ms, expiration, pc, target, wheel_index, firing>>
    BY DEF Stop
<1>3. \A s \in Slots : \A x : x \in On(time_wheel', s) => x \in On(time_wheel, s)
    BY Deleted DEF Stop, NearInv, Typed
<1>4. Lo' = Lo /\ From' = From
    BY <1>2 DEF Lo, From
<1>5. Placed'
    BY <1>2, <1>3, <1>4, StillPlaced
<1>6. Again'
    BY <1>2, <1>3 DEF NearInv, Again
<1> QED
    BY <1>1, <1>2, <1>5, <1>6 DEF NearInv

\* Where Start puts a timer.
LEMMA StartPlaces ==
    ASSUME Near, NearInv, NEW t \in Timers, NEW ms \in Delays, Start(t, ms)
    PROVE  /\ now + ms \in Nat /\ last_ms \in Nat
           /\ last_ms <= now + ms /\ now + ms < last_ms + W * W
           /\ FindHead(now + ms, last_ms) \in Slots
           /\ \A s \in Slots : \A x :
                 x \in On(time_wheel', s) <=> \/ x \in On(time_wheel, s) /\ x # t
                                              \/ x = t /\ s = FindHead(now + ms, last_ms)
<1>1. now \in Nat /\ last_ms \in Nat /\ last_ms <= now /\ now <= last_ms + MaxLag
    BY DEF NearInv, Typed
<1>2. PICK z \in Nat : z = W * W /\ ms \in Nat /\ MaxLag \in Nat /\ ms + MaxLag < z
    BY Square, WheelAssumption DEF Near
<1>3. now + ms \in Nat /\ last_ms <= now + ms /\ now + ms < last_ms + W * W
    BY <1>1, <1>2
<1>4. FindHead(now + ms, last_ms) \in Slots
    BY <1>1, <1>3, Placing
<1>5. \A s \in Slots : \A x :
         x \in On(time_wheel', s) <=> \/ x \in On(time_wheel, s) /\ x # t
                                      \/ x = t /\ s = FindHead(now + ms, last_ms)
    BY <1>1, <1>3, Added DEF Start, NearInv, Typed
<1> QED
    BY <1>1, <1>3, <1>4, <1>5

\* A near timer is linked where the hand passes before its time.
LEMMA StartNear ==
    ASSUME Near, NEW t \in Timers, NEW ms \in Delays
    PROVE  NearInv /\ Start(t, ms) => NearInv'
<1> SUFFICES ASSUME NearInv, Start(t, ms) PROVE NearInv'
    OBVIOUS
<1> DEFINE e == now + ms
           h == FindHead(e, last_ms)
<1>1. Typed'
    BY NextTyped DEF NearInv, Next
<1>2. /\ Outside /\ expiration' = [expiration EXCEPT ![t] = e]
      /\ UNCHANGED <<now, last_ms, pc, target, wheel_index, firing>>
    BY DEF Start
<1>3. expiration'[t] = e /\ \A x \in Timers : x # t => expiration'[x] = expiration[x]
    BY <1>2 DEF NearInv, Typed
<1>4. /\ e \in Nat /\ last_ms \in Nat /\ last_ms <= e /\ e < last_ms + W * W
      /\ h \in Slots
      /\ \A s \in Slots : \A x :
            x \in On(time_wheel', s) <=> (x \in On(time_wheel, s) /\ x # t) \/ (x = t /\ s = h)
    BY StartPlaces
<1>5. Lo' = Lo /\ From' = From /\ From = last_ms + 1 /\ Lo \in {last_ms, last_ms + 1}
    BY <1>2 DEF Lo, From, Outside
<1>6. \A i \in Wheels, c \in 0..(WheelSize - 1) : <<i, c>> = h => Fits(i, c, Lo, From, e)
    <2>1. \A i \in Wheels, c \in 0..(WheelSize - 1) : <<i, c>> = h =>
             Fits(i, c, last_ms, last_ms + 1, e) /\ Fits(i, c, last_ms + 1, last_ms + 1, e)
        BY <1>4, Placing
    <2> QED
        BY <1>5, <2>1
<1> HIDE DEF e, h
<1>7. Placed'
    <2>1. ASSUME NEW s \in Slots, NEW x, x \in On(time_wheel', s)
          PROVE  \/ x \in On(time_wheel, s) /\ expiration'[x] = expiration[x]
                 \/ \A i \in Wheels, c \in 0..(WheelSize - 1) : s = <<i, c>> =>
                       Fits(i, c, Lo, From, expiration'[x])
        <3>1. CASE x = t /\ s = h
            BY <1>3, <1>6, <3>1, Zenon
        <3>2. CASE x \in On(time_wheel, s) /\ x # t
            <4>1. x \in Timers
                BY <3>2, WheelLists DEF NearInv, Typed
            <4> QED
                BY <1>3, <3>2, <4>1
        <3> QED
            BY <1>4, <2>1, <3>1, <3>2, Zenon
    <2> QED
        BY <1>2, <1>5, <2>1, StillPlaced
<1>8. Again'
    <2> SUFFICES ASSUME pc = "callback"
                 PROVE  /\ \A p \in Periods : expiration'[firing] + p < last_ms + W * W
                        /\ \A s \in Slots : firing \in On(time_wheel', s) =>
                              last_ms <= expiration'[firing]
        BY <1>2 DEF Again
    <2>1. CASE firing = t
        <3>1. ASSUME NEW p \in Periods PROVE e + p < last_ms + W * W
            <4>1. PICK z \in Nat : z = W * W /\ ms + MaxLag + p < z
                BY Square DEF Near
            <4>2. p \in Nat /\ ms \in Nat /\ MaxLag \in Nat
                BY WheelAssumption
            <4>3. now <= last_ms + MaxLag /\ now \in Nat
                BY DEF NearInv, Typed
            <4> QED
                BY <1>4, <4>1, <4>2, <4>3 DEF e
        <3> QED
            BY <1>3, <1>4, <2>1, <3>1
    <2>2. CASE firing # t
        <3>1. firing \in Timers
            BY DEF NearInv, Typed
        <3>2. expiration'[firing] = expiration[firing]
            BY <1>3, <2>2, <3>1
        <3>3. \A s \in Slots : firing \in On(time_wheel', s) => firing \in On(time_wheel, s)
            BY <1>4, <2>2
        <3> QED
            BY <3>2, <3>3 DEF NearInv, Again
    <2> QED
        BY <2>1, <2>2
<1> QED
    BY <1>1, <1>2, <1>7, <1>8 DEF NearInv, Outside

\* Where Return puts the timer that ran: in the slot of its expiration, unless
\* that is past; then it was not linked.
LEMMA ReturnPlaces ==
    ASSUME NearInv, NEW ms \in Periods, Return(ms), ms > 0
    PROVE  LET e == expiration[firing] + ms
           IN  /\ e \in Nat /\ last_ms \in Nat /\ e < last_ms + W * W
               /\ expiration'[firing] = e
               /\ \A x \in Timers : x # firing => expiration'[x] = expiration[x]
               /\ \A s \in Slots : \A x :
                     x \in On(time_wheel', s) <=>
                        \/ x \in On(time_wheel, s) /\ x # firing
                        \/ x = firing /\ s = FindHead(e, last_ms)
               /\ \A s \in Slots : firing \in On(time_wheel, s) => last_ms <= e
<1> DEFINE e == expiration[firing] + ms
<1>1. /\ pc = "callback" /\ expiration' = [expiration EXCEPT ![firing] = @ + ms]
      /\ time_wheel' = AddTimer(firing, expiration'[firing])
    BY DEF Return
<1>2. ms \in Nat /\ firing \in Timers /\ expiration \in [Timers -> Nat] /\ last_ms \in Nat
    BY WheelAssumption DEF NearInv, Typed
<1>3. /\ expiration'[firing] = e /\ e \in Nat
      /\ \A x \in Timers : x # firing => expiration'[x] = expiration[x]
    BY <1>1, <1>2
<1>4. /\ e < last_ms + W * W
      /\ \A s \in Slots : firing \in On(time_wheel, s) => last_ms <= expiration[firing]
    BY <1>1 DEF NearInv, Again
<1>5. \A s \in Slots : firing \in On(time_wheel, s) => last_ms <= e
    <2>1. expiration[firing] \in Nat
        BY <1>2
    <2> QED
        BY <1>2, <1>4, <2>1
<1> HIDE DEF e
<1>6. time_wheel' = AddTimer(firing, e)
    BY <1>1, <1>3
<1>7. \A s \in Slots : \A x :
         x \in On(time_wheel', s) <=> \/ x \in On(time_wheel, s) /\ x # firing
                                      \/ x = firing /\ s = FindHead(e, last_ms)
    BY <1>2, <1>3, <1>6, Added DEF NearInv, Typed
<1> QED
    BY <1>2, <1>3, <1>4, <1>5, <1>7 DEF e

\* FindHead has no slot for a time already past.
LEMMA FindHeadPast ==
    ASSUME NEW ms \in Nat, NEW last \in Nat, ms < last
    PROVE  FindHead(ms, last) \notin Slots
<1>1. FindHead(ms, last) = nullptr
    BY DEF FindHead
<1> QED
    BY <1>1, WheelAssumption DEF Slots, Wheels, nullptr

\* A periodic timer that restarts is linked ahead of the hand.
LEMMA ReturnNear == ASSUME NEW ms \in Periods PROVE NearInv /\ Return(ms) => NearInv'
<1> SUFFICES ASSUME NearInv, Return(ms) PROVE NearInv'
    OBVIOUS
<1>1. Typed'
    BY NextTyped DEF NearInv, Next
<1>2. /\ pc = "callback" /\ pc' = "slot"
      /\ UNCHANGED <<now, last_ms, target, wheel_index, firing>>
    BY DEF Return
<1>3. Lo' = Lo /\ From' = From /\ From = last_ms + 1 /\ Lo = last_ms
    BY <1>2 DEF Lo, From
<1>4. Placed'
    <2>1. CASE ms > 0
        <3> DEFINE e == expiration[firing] + ms
                   h == FindHead(e, last_ms)
        <3>1. /\ e \in Nat /\ last_ms \in Nat /\ e < last_ms + W * W
              /\ expiration'[firing] = e
              /\ \A x \in Timers : x # firing => expiration'[x] = expiration[x]
              /\ \A s \in Slots : \A x :
                    x \in On(time_wheel', s) <=>
                       (x \in On(time_wheel, s) /\ x # firing) \/ (x = firing /\ s = h)
            BY <2>1, ReturnPlaces
        <3>2. h \in Slots => \A i \in Wheels, c \in 0..(WheelSize - 1) :
                 <<i, c>> = h => Fits(i, c, Lo, From, e)
            <4> HAVE h \in Slots
            <4>1. last_ms <= e
                <5>1. e < last_ms \/ last_ms <= e
                    <6>1. e \in Nat /\ last_ms \in Nat
                        BY <3>1, Zenon
                    <6> HIDE DEF e
                    <6> QED
                        BY <6>1
                <5> SUFFICES ASSUME e < last_ms PROVE h \notin Slots
                    BY <5>1, Zenon
                <5> HIDE DEF e
                <5> QED
                    BY <3>1, FindHeadPast
            <4>2. \A i \in Wheels, c \in 0..(WheelSize - 1) :
                     <<i, c>> = h => Fits(i, c, last_ms, last_ms + 1, e)
                BY <3>1, <4>1, Placing, Zenon
            <4> QED
                BY <1>3, <4>2
        <3> HIDE DEF e, h
        <3>3. ASSUME NEW s \in Slots, NEW x, x \in On(time_wheel', s)
              PROVE  \/ x \in On(time_wheel, s) /\ expiration'[x] = expiration[x]
                     \/ \A i \in Wheels, c \in 0..(WheelSize - 1) : s = <<i, c>> =>
                           Fits(i, c, Lo, From, expiration'[x])
            <4>1. CASE x = firing /\ s = h
                BY <3>1, <3>2, <4>1
            <4>2. CASE x \in On(time_wheel, s) /\ x # firing
                <5>1. x \in Timers
                    BY <4>2, WheelLists DEF NearInv, Typed
                <5> QED
                    BY <3>1, <4>2, <5>1
            <4> QED
                BY <3>1, <3>3, <4>1, <4>2, Zenon
        <3> QED
            BY <1>2, <1>3, <3>3, StillPlaced
    <2>2. CASE ~(ms > 0)
        <3>1. UNCHANGED <<expiration, time_wheel>>
            BY <2>2 DEF Return
        <3> QED
            BY <1>2, <1>3, <3>1, StillPlaced
    <2> QED
        BY <2>1, <2>2
<1> QED
    BY <1>1, <1>2, <1>4, Zenon DEF NearInv, Again

\* Every step keeps the invariant when the delays and periods are near.
LEMMA NextNear == ASSUME Near PROVE NearInv /\ [Next]_vars => NearInv'
<1> SUFFICES ASSUME NearInv, [Next]_vars PROVE NearInv'
    OBVIOUS
<1>1. ASSUME UNCHANGED vars PROVE NearInv'
    BY <1>1, NextTyped DEF vars, NearInv, Placed, Again, Lo, From
<1> QED
    BY <1>1, ClockNear, TurnWheelNear, TickNear, CascadeNear, RunNear, StopNear,
       StartNear, ReturnNear DEF Next

\* With near delays and periods the invariant always holds.
LEMMA AlwaysNear == ASSUME Near PROVE Spec => []NearInv
BY InitNear, NextNear, PTL DEF Spec

\* While no timer goes beyond wheel 1, the assertion of MoveTimerList holds: the
\* first timer of a list that comes down has not expired.
THEOREM MoveNeverAborts == ASSUME Near PROVE Spec => []MoveAssertion
<1>1. NearInv => MoveAssertion
    BY DEF NearInv, MoveAssertion
<1> QED
    BY <1>1, AlwaysNear, PTL

\* While no timer goes beyond wheel 1, TurnWheel leaves no linked timer behind:
\* it reaches each at most one round of wheel 0 after its expiration.
THEOREM TimersNeverOverdue == ASSUME Near PROVE Spec => []NotOverdue
<1>1. ASSUME NearInv PROVE NotOverdue
    <2> SUFFICES ASSUME NEW t \in Timers, NEW s \in Slots, t \in Range(time_wheel[s])
                 PROVE  last_ms <= expiration[t] + WheelSize
        BY DEF NotOverdue, Linked
    <2>1. PICK i \in Wheels, c \in 0..(WheelSize - 1) : s = <<i, c>>
        BY DEF Slots
    <2>2. t \in On(time_wheel, <<i, c>>)
        BY <2>1 DEF On
    <2>3. Fits(i, c, Lo, From, expiration[t])
        BY <1>1, <2>2 DEF NearInv, Placed
    <2>4. last_ms \in Nat /\ expiration[t] \in Nat
        BY <1>1 DEF NearInv, Typed
    <2>5. Lo \in {last_ms, last_ms + 1} /\ From \in {last_ms, last_ms + 1}
        BY DEF Lo, From
    <2>6. CASE i = 0
        <3>1. Due(Lo, expiration[t], c) /\ Lo \in Nat
            BY <2>3, <2>4, <2>5, <2>6 DEF Fits
        <3>2. Lo <= expiration[t] + W
            BY <2>4, <3>1, DueBound
        <3> QED
            BY <2>4, <2>5, <3>2, WheelSizeType DEF W
    <2>7. CASE i = 1
        <3>1. Coming(From, expiration[t], c) /\ From \in Nat
            BY <2>3, <2>4, <2>5, <2>7 DEF Fits
        <3>2. From <= expiration[t]
            BY <2>4, <3>1, ComingBound
        <3> QED
            BY <2>4, <2>5, <3>2, WheelSizeType DEF W
    <2> QED
        BY <2>3, <2>6, <2>7 DEF Fits
<1> QED
    BY <1>1, AlwaysNear, PTL

\* While no timer goes beyond wheel 1, TurnWheel runs a timer within one round
\* of wheel 0 of its expiration, before or after.
THEOREM TimersRunNear == ASSUME Near PROVE Spec => RunsNear
<1> DEFINE A == \A t \in Timers : Run /\ pc' = "callback" /\ firing' = t =>
                   /\ expiration[t] - WheelSize < last_ms
                   /\ last_ms <= expiration[t] + WheelSize
<1>1. ASSUME NearInv PROVE A
    <2> SUFFICES ASSUME NEW t \in Timers, Run, pc' = "callback", firing' = t
                 PROVE  /\ expiration[t] - WheelSize < last_ms
                        /\ last_ms <= expiration[t] + WheelSize
        OBVIOUS
    <2>1. firing' \in On(time_wheel, <<0, CalcTime(last_ms, 0)>>) /\ pc = "slot"
        BY <1>1, RunCases DEF NearInv, Run
    <2>2. expiration[t] \in Nat /\ expiration[t] < last_ms + W /\ last_ms <= expiration[t] + W
        BY <1>1, <2>1, RunIsNear
    <2>3. last_ms \in Nat
        BY <1>1 DEF NearInv, Typed
    <2> QED
        BY <2>2, <2>3, WheelSizeType DEF W
<1> HIDE DEF A
<1>2. Spec => [][A]_vars
    BY <1>1, AlwaysNear, PTL
<1> QED
    BY <1>2 DEF RunsNear, A

\* While no timer goes beyond wheel 1, a timer that is started is linked, and it
\* stays linked until it is stopped or runs: MoveTimerList loses none.
THEOREM TimersStayLinked == ASSUME Near PROVE Spec => StaysLinked
<1> DEFINE A == \A t \in Timers :
                   /\ (\E ms \in Delays : Start(t, ms)) => Linked(t)'
                   /\ Linked(t) /\ ~Linked(t)' =>
                         Stop(t) \/ (Run /\ pc' = "callback" /\ firing' = t)
<1>1. ASSUME NEW t \in Timers
      PROVE  /\ Linked(t) <=> \E s \in Slots : t \in On(time_wheel, s)
             /\ Linked(t)' <=> \E s \in Slots : t \in On(time_wheel', s)
    BY DEF Linked, On
<1>2. ASSUME NearInv, NEW t \in Timers, NEW ms \in Delays, Start(t, ms) PROVE Linked(t)'
    <2>1. /\ FindHead(now + ms, last_ms) \in Slots
          /\ \A s \in Slots : \A x :
                x \in On(time_wheel', s) <=> \/ x \in On(time_wheel, s) /\ x # t
                                             \/ x = t /\ s = FindHead(now + ms, last_ms)
        BY <1>2, StartPlaces
    <2>2. t \in On(time_wheel', FindHead(now + ms, last_ms))
        BY <2>1, Zenon
    <2> QED
        BY <1>1, <2>1, <2>2, Zenon
<1>3. ASSUME NearInv, [Next]_vars, NEW t \in Timers, NEW s \in Slots, t \in On(time_wheel, s),
             ~Linked(t)'
      PROVE  Stop(t) \/ (Run /\ pc' = "callback" /\ firing' = t)
    <2>1. UNCHANGED time_wheel => Linked(t)'
        BY <1>1, <1>3
    <2>2. CASE Clock \/ TurnWheel \/ Tick \/ UNCHANGED vars
        BY <1>3, <2>1, <2>2 DEF Clock, TurnWheel, Tick, vars
    <2>3. CASE Cascade
        <3>1. CASE UNCHANGED time_wheel
            BY <1>3, <2>1, <3>1
        <3>2. ASSUME NEW f \in Nat,
                     \A r \in Slots : \A x :
                        x \in On(time_wheel', r) <=>
                           \/ x \in On(time_wheel, r) /\ r # <<1, MovedIndex>>
                           \/ x \in On(time_wheel, <<1, MovedIndex>>) /\ r = <<0, f % W>>
              PROVE  Linked(t)'
            <4>1. 0 \in Wheels /\ f % W \in 0..(WheelSize - 1)
                BY WheelAssumption, Division DEF Wheels, W
            <4>2. <<0, f % W>> \in Slots
                BY <4>1, SlotType
            <4>3. t \in On(time_wheel', s) \/ t \in On(time_wheel', <<0, f % W>>)
                BY <1>3, <3>2, <4>2
            <4> QED
                BY <1>1, <4>2, <4>3
        <3> QED
            BY <1>3, <2>3, <3>1, <3>2, CascadeMoves
    <2>4. CASE Run
        <3>1. \/ UNCHANGED time_wheel
              \/ /\ pc' = "callback"
                 /\ \A r \in Slots : \A x :
                       x \in On(time_wheel', r) <=> x \in On(time_wheel, r) /\ x # firing'
            BY <1>3, <2>4, RunCases DEF NearInv
        <3> QED
            BY <1>1, <1>3, <2>1, <2>4, <3>1
    <2>5. ASSUME NEW u \in Timers, Stop(u) PROVE Stop(t)
        <3>1. \A r \in Slots : \A x : x \in On(time_wheel', r) <=> x \in On(time_wheel, r) /\ x # u
            BY <1>3, <2>5, Deleted DEF Stop, NearInv, Typed
        <3>2. u = t
            BY <1>1, <1>3, <3>1
        <3> QED
            BY <2>5, <3>2
    <2>6. ASSUME NEW u \in Timers, NEW ms \in Delays, Start(u, ms) PROVE FALSE
        <3>1. CASE u = t
            BY <1>2, <1>3, <2>6, <3>1
        <3>2. CASE u # t
            <4>1. \A r \in Slots : \A x : x \in On(time_wheel, r) /\ x # u => x \in On(time_wheel', r)
                BY <1>3, <2>6, StartPlaces
            <4> QED
                BY <1>1, <1>3, <3>2, <4>1
        <3> QED
            BY <3>1, <3>2
    <2>7. ASSUME NEW ms \in Periods, Return(ms) PROVE FALSE
        <3>1. CASE ms > 0
            <4> DEFINE e == expiration[firing] + ms
                       h == FindHead(e, last_ms)
            <4>1. /\ e \in Nat /\ last_ms \in Nat /\ e < last_ms + W * W
                  /\ \A r \in Slots : \A x :
                        x \in On(time_wheel', r) <=>
                           (x \in On(time_wheel, r) /\ x # firing) \/ (x = firing /\ r = h)
                  /\ \A r \in Slots : firing \in On(time_wheel, r) => last_ms <= e
                BY <1>3, <2>7, <3>1, ReturnPlaces, Zenon
            <4>2. t = firing => h \in Slots
                <5> HAVE t = firing
                <5>1. last_ms <= e
                    BY <1>3, <4>1
                <5> QED
                    BY <4>1, <5>1, Placing
            <4> HIDE DEF e, h
            <4> QED
                BY <1>1, <1>3, <4>1, <4>2
        <3>2. CASE ~(ms > 0)
            BY <1>3, <2>1, <2>7, <3>2 DEF Return
        <3> QED
            BY <3>1, <3>2
    <2> QED
        BY <1>3, <2>2, <2>3, <2>4, <2>5, <2>6, <2>7 DEF Next
<1>4. NearInv /\ [Next]_vars => A
    BY <1>1, <1>2, <1>3
<1> HIDE DEF A
<1>5. Spec => [][A]_vars
    BY <1>4, AlwaysNear, PTL DEF Spec
<1> QED
    BY <1>5 DEF StaysLinked, A
=============================================================================
