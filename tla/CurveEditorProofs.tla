------------------------- MODULE CurveEditorProofs -------------------------
(***************************************************************************)
(* Proofs about CurveEditor and the splines of Spline, for any number of   *)
(* channels, size of the grid, presets, places of the mouse and bounds:    *)
(* its types; what breaks the page; when points stay in order; that the    *)
(* spline of points in order that never fall never falls and goes through  *)
(* them; and that the ramps of page and program agree.                     *)
(***************************************************************************)
EXTENDS CurveEditor, SequenceLemmas

----------------------------------------------------------------------------
(* Control points. *)

\* A point that may be a control point.
LEMMA PointOf ==
    ASSUME NEW x \in Int, NEW y \in 0 .. MaxVal
    PROVE  /\ Point(x, y) \in ControlPoints
           /\ Point(x, y).x = x /\ Point(x, y).y = y
BY DEF Point, ControlPoints

\* The places of the points of a channel.
LEMMA PlacesOf ==
    ASSUME NEW p \in Seq(ControlPoints)
    PROVE  /\ Len(p) \in Nat
           /\ \A i \in 1 .. Len(p) : p[i] \in ControlPoints /\ p[i].x \in Int /\ p[i].y \in 0 .. MaxVal
<1>1. \A i \in 1 .. Len(p) : p[i] \in ControlPoints
  BY ElementOfSeq
<1>2. Len(p) \in Nat
  BY LenProperties
<1> QED
  BY <1>1, <1>2 DEF ControlPoints

----------------------------------------------------------------------------
(* The spline: whatever order the points are in, there is nothing to divide by zero *)
(* for, and every value of a ramp is one of 16 bits.                                *)

\* A fraction, with a positive denominator.
IsFraction(v) == v.num \in Int /\ v.den \in Int /\ v.den > 0

\* Fraction makes one of any number that can be divided by.
LEMMA FractionOf ==
    ASSUME NEW n \in Int, NEW d \in Int, d # 0
    PROVE  IsFraction(Fraction(n, d))
BY DEF IsFraction, Fraction

\* Signs of products.
LEMMA Products ==
    ASSUME NEW a \in Int, NEW b \in Int
    PROVE  /\ a * b \in Int
           /\ a > 0 /\ b > 0 => a * b > 0
           /\ a < 0 /\ b > 0 => a * b < 0
           /\ a * b > 0 => (a > 0 /\ b > 0) \/ (a < 0 /\ b < 0)
OBVIOUS

\* The slope of a segment.
LEMMA SlopeOf ==
    ASSUME NEW p \in Seq(ControlPoints), NEW k \in 1 .. Len(p) - 1
    PROVE  IsFraction(Slope(p, k))
<1>1. p[k] \in ControlPoints /\ p[k + 1] \in ControlPoints
  <2>1. Len(p) \in Nat /\ k \in 1 .. Len(p) /\ k + 1 \in 1 .. Len(p)
    BY LenProperties
  <2> QED
    BY <2>1, ElementOfSeq
<1>2. /\ p[k].x \in Int /\ p[k].y \in Int
      /\ p[k + 1].x \in Int /\ p[k + 1].y \in Int
  BY <1>1, MaxValAssumption DEF ControlPoints
<1> DEFINE dx == p[k + 1].x - p[k].x
           dy == p[k + 1].y - p[k].y
<1>3. dx \in Int /\ dy \in Int
  BY <1>2
<1>4. Slope(p, k) = IF dx > 0 THEN Fraction(dy, dx) ELSE Fraction(0, 1)
  BY DEF Slope
<1> HIDE DEF dx, dy
<1>5. dx > 0 => IsFraction(Fraction(dy, dx))
  BY <1>3, FractionOf
<1>6. IsFraction(Fraction(0, 1))
  BY FractionOf
<1> QED
  BY <1>4, <1>5, <1>6

\* The weighted harmonic mean of two slopes with the same sign.
LEMMA MeanOf ==
    ASSUME NEW a, NEW b, IsFraction(a), IsFraction(b), a.num * b.num > 0
    PROVE  IsFraction(Fraction(3 * (a.den + b.den) * a.num * b.num,
                               (a.den + 2 * b.den) * b.num * a.den
                                 + (2 * a.den + b.den) * a.num * b.den))
<1> DEFINE an == a.num  ad == a.den  bn == b.num  bd == b.den
<1>1. an \in Int /\ bn \in Int /\ ad \in Int /\ bd \in Int /\ ad > 0 /\ bd > 0 /\ an * bn > 0
  BY DEF IsFraction
<1> HIDE DEF an, ad, bn, bd
<1> DEFINE u == ad + 2 * bd
           v == 2 * ad + bd
<1>2. u \in Int /\ v \in Int /\ u > 0 /\ v > 0
  BY <1>1
<1> HIDE DEF u, v
<1>3. (an > 0 /\ bn > 0) \/ (an < 0 /\ bn < 0)
  BY <1>1, Products
<1> DEFINE s == u * bn  t == v * an
<1>4. s \in Int /\ t \in Int /\ ((s > 0 /\ t > 0) \/ (s < 0 /\ t < 0))
  BY <1>1, <1>2, <1>3
<1> HIDE DEF s, t
<1> DEFINE l == s * ad  r == t * bd
<1>5. l \in Int /\ r \in Int /\ ((l > 0 /\ r > 0) \/ (l < 0 /\ r < 0))
  BY <1>1, <1>4, Products
<1> HIDE DEF l, r
<1>6. l + r \in Int /\ l + r # 0
  BY <1>5
<1> DEFINE n == 3 * (ad + bd) * an * bn
<1>7. n \in Int
  BY <1>1
<1> HIDE DEF n
<1>8. IsFraction(Fraction(n, l + r))
  BY <1>6, <1>7, FractionOf
<1> QED
  BY <1>8 DEF n, l, r, s, t, u, v, an, ad, bn, bd

\* The tangent at a point.
LEMMA TangentOf ==
    ASSUME NEW p \in Seq(ControlPoints), Len(p) > 1, NEW k \in 1 .. Len(p)
    PROVE  IsFraction(Tangent(p, k))
<1>0. Len(p) \in Nat
  BY LenProperties
<1>1. CASE k = 1
  <2>1. 1 \in 1 .. Len(p) - 1
    BY <1>0
  <2>2. 1 # Len(p)
    <3> DEFINE n == Len(p)
    <3>1. n \in Nat /\ n > 1
      BY <1>0
    <3> HIDE DEF n
    <3>2. 1 # n
      BY <3>1
    <3> QED
      BY <3>2, Zenon DEF n
  <2>3. Tangent(p, 1) = Slope(p, 1)
    BY <2>2 DEF Tangent
  <2> QED
    BY <1>1, <2>1, <2>3, SlopeOf
<1>2. CASE k # 1 /\ k = Len(p)
  <2>1. k - 1 \in 1 .. Len(p) - 1
    BY <1>0, <1>2
  <2>2. Tangent(p, k) = Slope(p, k - 1)
    BY <1>2 DEF Tangent
  <2> QED
    BY <2>1, <2>2, SlopeOf
<1>3. CASE k # 1 /\ k # Len(p)
  <2> DEFINE a == Slope(p, k - 1)
             b == Slope(p, k)
  <2>1. k - 1 \in 1 .. Len(p) - 1 /\ k \in 1 .. Len(p) - 1
    BY <1>0, <1>3
  <2>2. IsFraction(a) /\ IsFraction(b)
    BY <2>1, SlopeOf
  <2>3. Tangent(p, k) =
            IF a.num * b.num <= 0 THEN Fraction(0, 1)
            ELSE Fraction(3 * (a.den + b.den) * a.num * b.num,
                          (a.den + 2 * b.den) * b.num * a.den
                            + (2 * a.den + b.den) * a.num * b.den)
    BY <1>3 DEF Tangent
  <2> HIDE DEF a, b
  <2>4. CASE a.num * b.num <= 0
    BY <2>3, <2>4, FractionOf
  <2>5. CASE ~(a.num * b.num <= 0)
    <3>1. a.num * b.num > 0
      BY <2>2, <2>5 DEF IsFraction
    <3> QED
      BY <2>2, <2>3, <2>5, <3>1, MeanOf
  <2> QED
    BY <2>4, <2>5
<1> QED
  BY <1>1, <1>2, <1>3

\* The segment found for an x between the first point and the last has it inside and is
\* not empty, in whatever order the points between them are.
LEMMA SegmentOf ==
    ASSUME NEW p \in Seq(ControlPoints), Len(p) > 0, NEW x \in Int,
           p[1].x < x, x < p[Len(p)].x
    PROVE  /\ Len(p) > 1
           /\ Segment(p, x) \in 1 .. Len(p) - 1
           /\ p[Segment(p, x)].x < x
           /\ x <= p[Segment(p, x) + 1].x
<1> DEFINE n == Len(p)
           at(i) == p[i].x
           Found(s) == /\ s = n - 1 \/ x <= at(s + 1)
                       /\ \A q \in 1 .. s - 1 : x > at(q + 1)
           T == {s \in 1 .. n - 1 : s = n - 1 \/ x <= at(s + 1)}
<1>1. n \in Nat /\ \A i \in 1 .. n : at(i) \in Int
  <2>1. \A i \in 1 .. n : p[i] \in ControlPoints
    BY ElementOfSeq
  <2>2. \A i \in 1 .. n : at(i) \in Int
    BY <2>1 DEF ControlPoints
  <2>3. n \in Nat
    BY LenProperties
  <2> QED
    BY <2>2, <2>3
<1>2. n # 1 /\ n > 0 /\ at(1) < x /\ x < at(n)
  BY <1>1
<1>3. Segment(p, x) = CHOOSE s \in 1 .. n - 1 : Found(s)
  BY DEF Segment
<1> HIDE DEF n, at
<1>4. n > 1 /\ n - 1 \in T /\ T \subseteq Nat
  BY <1>1, <1>2
<1>5. PICK m \in T : \A k \in T : m <= k
  BY <1>4, LeastMember
<1>6. Found(m) /\ m \in 1 .. n - 1
  <2>1. ASSUME NEW q \in 1 .. m - 1 PROVE x > at(q + 1)
    <3>1. q \in 1 .. n - 1 /\ q \notin T /\ q + 1 \in 1 .. n
      BY <1>1, <1>5
    <3> QED
      BY <1>1, <3>1
  <2> QED
    BY <2>1
<1> DEFINE s == CHOOSE s \in 1 .. n - 1 : Found(s)
<1>7. s \in 1 .. n - 1 /\ Found(s)
  BY <1>6
<1> HIDE DEF s
<1>8. x <= at(s + 1)
  BY <1>1, <1>2, <1>7
<1>9. at(s) < x
  <2>1. CASE s = 1
    BY <1>2, <2>1
  <2>2. CASE s # 1
    <3>1. s - 1 \in 1 .. s - 1 /\ (s - 1) + 1 = s
      BY <1>7, <2>2
    <3>2. x > at((s - 1) + 1)
      BY <1>7, <3>1
    <3>3. s \in 1 .. n
      BY <1>1, <1>7
    <3> QED
      BY <1>1, <3>1, <3>2, <3>3
  <2> QED
    BY <2>1, <2>2
<1> QED
  BY <1>3, <1>4, <1>7, <1>8, <1>9 DEF s, n, at

\* The value of the spline: a fraction.
LEMMA HermiteOf ==
    ASSUME NEW p \in Seq(ControlPoints), Len(p) > 0, NEW x \in Int,
           p[1].x < x, x < p[Len(p)].x
    PROVE  IsFraction(Hermite(p, x))
<1> DEFINE s  == Segment(p, x)
           h  == p[s + 1].x - p[s].x
           u  == x - p[s].x
           ys == p[s].y
           yt == p[s + 1].y
           d0 == Tangent(p, s)
           d1 == Tangent(p, s + 1)
<1>1. /\ Len(p) > 1 /\ s \in 1 .. Len(p) - 1
      /\ p[s].x < x /\ x <= p[s + 1].x
  BY SegmentOf
<1>2. s \in 1 .. Len(p) /\ s + 1 \in 1 .. Len(p)
  BY <1>1, LenProperties
<1>3. p[s] \in ControlPoints /\ p[s + 1] \in ControlPoints
  BY <1>2, ElementOfSeq
<1> HIDE DEF s
<1>4. h \in Int /\ h > 0 /\ u \in Int /\ ys \in Int /\ yt \in Int
  <2>1. /\ p[s].x \in Int /\ p[s + 1].x \in Int
        /\ p[s].y \in 0 .. MaxVal /\ p[s + 1].y \in 0 .. MaxVal
    BY <1>3 DEF ControlPoints
  <2>2. ys \in Int /\ yt \in Int
    BY <2>1, MaxValAssumption
  <2> QED
    BY <1>1, <2>1, <2>2
<1>5. IsFraction(d0) /\ IsFraction(d1)
  BY <1>1, <1>2, TangentOf
<1>6. Hermite(p, x) =
        Fraction(((2*u*u*u - 3*u*u*h + h*h*h) * ys + (3*u*u*h - 2*u*u*u) * yt) * d0.den * d1.den
                   + (u*u*u - 2*u*u*h + u*h*h) * h * d0.num * d1.den
                   + (u*u*u - u*u*h) * h * d1.num * d0.den,
                 h*h*h * d0.den * d1.den)
  BY DEF Hermite, s
<1> DEFINE e0 == d0.den  e1 == d1.den  n0 == d0.num  n1 == d1.num
<1>7. e0 \in Int /\ e1 \in Int /\ n0 \in Int /\ n1 \in Int /\ e0 > 0 /\ e1 > 0
  BY <1>5 DEF IsFraction
<1> HIDE DEF h, u, ys, yt, d0, d1, e0, e1, n0, n1
<1> DEFINE uu == u * u
           uuu == uu * u
           hh == h * h
           hhh == hh * h
<1>8. uu \in Int /\ uuu \in Int /\ hh \in Int /\ hh > 0
  BY <1>4, Products
<1> HIDE DEF uu
<1>9. hhh \in Int /\ hhh > 0
  <2> HIDE DEF hh
  <2> QED
    BY <1>4, <1>8, Products
<1> DEFINE den0 == hhh * e0
           den == den0 * e1
<1>10. den \in Int /\ den # 0
  <2> HIDE DEF hhh
  <2>1. den0 \in Int /\ den0 > 0
    BY <1>7, <1>9, Products
  <2> HIDE DEF den0
  <2> QED
    BY <1>7, <2>1, Products
<1> DEFINE num == ((2*u*u*u - 3*u*u*h + h*h*h) * ys + (3*u*u*h - 2*u*u*u) * yt) * e0 * e1
                    + (u*u*u - 2*u*u*h + u*h*h) * h * n0 * e1
                    + (u*u*u - u*u*h) * h * n1 * e0
<1>11. num \in Int
  <2>1. ((2*u*u*u - 3*u*u*h + h*h*h) * ys + (3*u*u*h - 2*u*u*u) * yt) * e0 * e1 \in Int
    BY <1>4, <1>7
  <2>2. (u*u*u - 2*u*u*h + u*h*h) * h * n0 * e1 \in Int
    BY <1>4, <1>7
  <2>3. (u*u*u - u*u*h) * h * n1 * e0 \in Int
    BY <1>4, <1>7
  <2> QED
    BY <2>1, <2>2, <2>3
<1> HIDE DEF num, den
<1>12. IsFraction(Fraction(num, den))
  BY <1>10, <1>11, FractionOf
<1> QED
  BY <1>6, <1>12 DEF num, den, den0, hhh, hh, e0, e1, n0, n1

\* Rounding gives a number, clamping one of 16 bits.
LEMMA RoundedOf == ASSUME NEW v, IsFraction(v) PROVE Rounded(v) \in Int
<1> DEFINE n == 2 * v.num + v.den  d == 2 * v.den
<1>1. n \in Int /\ d \in Int /\ d > 0
  BY DEF IsFraction
<1> HIDE DEF n, d
<1>2. n \div d \in Int
  BY <1>1
<1> QED
  BY <1>2 DEF Rounded, n, d

LEMMA ClampOf == ASSUME NEW v \in Int PROVE Clamp(v) \in 0 .. MaxVal
BY MaxValAssumption DEF Clamp

\* The values before the last loop.
LEMMA CurveOf ==
    ASSUME NEW p \in Seq(ControlPoints), Len(p) > 0
    PROVE  Curve(p) \in [Inputs -> 0 .. MaxVal]
<1> DEFINE n == Len(p)
           at(x) == IF x <= p[1].x THEN p[1].y
                    ELSE IF x >= p[n].x THEN p[n].y
                    ELSE Clamp(Rounded(Hermite(p, x)))
<1>1. p[1] \in ControlPoints /\ p[n] \in ControlPoints
  <2>1. n \in Nat /\ 1 \in 1 .. n /\ n \in 1 .. n
    BY LenProperties
  <2> QED
    BY <2>1, ElementOfSeq
<1>2. /\ p[1].x \in Int /\ p[n].x \in Int
      /\ p[1].y \in 0 .. MaxVal /\ p[n].y \in 0 .. MaxVal
  BY <1>1 DEF ControlPoints
<1>3. ASSUME NEW x \in Inputs PROVE at(x) \in 0 .. MaxVal
  <2>1. x \in Int
    BY <1>3, SizeAssumption DEF Inputs
  <2>2. CASE p[1].x < x /\ x < p[n].x
    <3>1. Clamp(Rounded(Hermite(p, x))) \in 0 .. MaxVal
      BY <2>1, <2>2, HermiteOf, RoundedOf, ClampOf
    <3> QED
      BY <1>2, <2>1, <2>2, <3>1
  <2>3. CASE ~(p[1].x < x /\ x < p[n].x)
    BY <1>2, <2>1, <2>3
  <2> QED
    BY <2>2, <2>3
<1>4. Curve(p) = [x \in Inputs |-> at(x)]
  BY DEF Curve
<1> HIDE DEF at
<1> QED
  BY <1>3, <1>4

\* The largest member of a set of values.
LEMMA MaxOf ==
    ASSUME NEW S, S \subseteq 0 .. MaxVal, S # {}
    PROVE  Max(S) \in S /\ \A y \in S : y <= Max(S)
<1> DEFINE T == {MaxVal - y : y \in S}
<1>1. T \subseteq Nat /\ T # {}
  <2>1. \A y \in S : MaxVal - y \in Nat
    BY MaxValAssumption
  <2>2. T \subseteq Nat
    BY <2>1
  <2>3. PICK y \in S : TRUE
    OBVIOUS
  <2>4. MaxVal - y \in T
    OBVIOUS
  <2> HIDE DEF T
  <2> QED
    BY <2>2, <2>4
<1>2. PICK m \in T : \A k \in T : m <= k
  <2> HIDE DEF T
  <2> QED
    BY <1>1, LeastMember
<1>3. PICK z \in S : m = MaxVal - z
  OBVIOUS
<1>4. \A y \in S : MaxVal - y \in T
  OBVIOUS
<1> HIDE DEF T
<1>5. \A y \in S : y <= z
  BY <1>2, <1>3, <1>4, MaxValAssumption
<1>6. \A x, y \in S : x >= y <=> y <= x
  BY MaxValAssumption
<1>7. \E x \in S : \A y \in S : x >= y
  BY <1>5, <1>6
<1> DEFINE w == CHOOSE x \in S : \A y \in S : x >= y
<1>8. w \in S /\ \A y \in S : w >= y
  BY <1>7
<1>9. Max(S) = w
  BY DEF Max
<1> HIDE DEF w
<1> QED
  BY <1>6, <1>8, <1>9

\* The last loop: no value is below the one before it or below what it was.
LEMMA RisingOf ==
    ASSUME NEW f \in [Inputs -> 0 .. MaxVal]
    PROVE  /\ Rising(f) \in [Inputs -> 0 .. MaxVal]
           /\ \A i, j \in Inputs : i <= j => Rising(f)[i] <= Rising(f)[j] /\ f[i] <= Rising(f)[j]
           /\ \A i \in Inputs : \E j \in Inputs : j <= i /\ Rising(f)[i] = f[j]
<1> DEFINE before(i) == {f[j] : j \in 0 .. i}
<1>1. \A i \in Inputs : 0 .. i \subseteq Inputs /\ i \in 0 .. i
  BY SizeAssumption DEF Inputs
<1>2. \A i \in Inputs : before(i) \subseteq 0 .. MaxVal /\ before(i) # {}
  BY <1>1
<1>3. ASSUME NEW i \in Inputs, NEW j \in Inputs, i <= j
      PROVE  before(i) \subseteq before(j) /\ f[i] \in before(j)
  <2>1. 0 .. i \subseteq 0 .. j /\ i \in 0 .. j
    BY <1>3, SizeAssumption DEF Inputs
  <2> QED
    BY <2>1
<1>4. Rising(f) = [i \in Inputs |-> Max(before(i))]
  BY DEF Rising
<1>8. ASSUME NEW i \in Inputs PROVE \A y \in before(i) : \E j \in Inputs : j <= i /\ y = f[j]
  <2>1. \A j \in 0 .. i : j \in Inputs /\ j <= i
    BY SizeAssumption DEF Inputs
  <2> QED
    BY <2>1
<1> HIDE DEF before
<1>5. \A i \in Inputs : Max(before(i)) \in before(i) /\ \A y \in before(i) : y <= Max(before(i))
  BY <1>2, MaxOf
<1>6. \A i \in Inputs : Max(before(i)) \in 0 .. MaxVal
  BY <1>2, <1>5
<1>7. ASSUME NEW i \in Inputs, NEW j \in Inputs, i <= j
      PROVE  Rising(f)[i] <= Rising(f)[j] /\ f[i] <= Rising(f)[j]
  <2>1. Max(before(i)) \in before(j) /\ f[i] \in before(j)
    BY <1>3, <1>5, <1>7
  <2> QED
    BY <1>4, <1>5, <2>1
<1>9. \A i \in Inputs : \E j \in Inputs : j <= i /\ Rising(f)[i] = f[j]
  BY <1>4, <1>5, <1>8
<1> QED
  BY <1>4, <1>6, <1>7, <1>9

\* What never falls the last loop leaves as it is.
LEMMA RisingKeeps ==
    ASSUME NEW f \in [Inputs -> 0 .. MaxVal], \A i, j \in Inputs : i <= j => f[i] <= f[j]
    PROVE  Rising(f) = f
<1> DEFINE before(i) == {f[j] : j \in 0 .. i}
<1>1. ASSUME NEW i \in Inputs PROVE Rising(f)[i] = f[i]
  <2>1. 0 .. i \subseteq Inputs /\ i \in 0 .. i /\ \A j \in 0 .. i : j <= i
    BY SizeAssumption DEF Inputs
  <2>2. /\ before(i) \subseteq 0 .. MaxVal /\ before(i) # {} /\ f[i] \in before(i)
        /\ \A y \in before(i) : y <= f[i]
    BY <2>1
  <2>3. Rising(f)[i] = Max(before(i))
    BY DEF Rising
  <2> HIDE DEF before
  <2>4. Max(before(i)) \in before(i) /\ f[i] <= Max(before(i))
    BY <2>2, MaxOf
  <2>5. Max(before(i)) \in Int /\ f[i] \in Int /\ Max(before(i)) <= f[i]
    BY <2>2, <2>4, MaxValAssumption
  <2> QED
    BY <2>3, <2>4, <2>5
<1>2. Rising(f) \in [Inputs -> 0 .. MaxVal]
  BY RisingOf
<1> QED
  BY <1>1, <1>2

\* The ramp of a channel that can be drawn, in whatever order its points are: it never
\* falls, its values have 16 bits and JsonToRamp leaves them as they are.
LEMMA RampOf ==
    ASSUME NEW p \in Seq(ControlPoints), Len(p) > 0
    PROVE  /\ PointsToRamp(p) \in [Inputs -> 0 .. MaxVal]
           /\ \A i, j \in Inputs : i <= j => PointsToRamp(p)[i] <= PointsToRamp(p)[j]
           /\ JsonToRamp(PointsToRamp(p)) = PointsToRamp(p)
<1> DEFINE f == PointsToRamp(p)
<1>1. /\ f \in [Inputs -> 0 .. MaxVal]
      /\ \A i, j \in Inputs : i <= j => f[i] <= f[j]
  BY CurveOf, RisingOf DEF PointsToRamp
<1> HIDE DEF f
<1>2. [x \in Inputs |-> f[x] % (MaxVal + 1)] = f
  <2>1. \A v \in 0 .. MaxVal : v % (MaxVal + 1) = v
    BY MaxValAssumption
  <2>2. \A x \in Inputs : f[x] % (MaxVal + 1) = f[x]
    BY <1>1, <2>1
  <2> QED
    BY <1>1, <2>2
<1>3. Rising(f) = f
  BY <1>1, RisingKeeps
<1>4. JsonToRamp(f) = f
  BY <1>2, <1>3 DEF JsonToRamp
<1> QED
  BY <1>1, <1>4 DEF f

----------------------------------------------------------------------------
(* The page rounds, the program truncates. *)

\* What dividing by a positive number gives, and the only number that is so.
LEMMA QuotientOf ==
    ASSUME NEW a \in Int, NEW b \in Int, b > 0
    PROVE  /\ a \div b \in Int
           /\ b * (a \div b) <= a
           /\ a < b * (a \div b) + b
OBVIOUS

LEMMA QuotientIs ==
    ASSUME NEW a \in Int, NEW b \in Int, b > 0, NEW q \in Int, b * q <= a, a < b * q + b
    PROVE  a \div b = q
OBVIOUS

\* Products with a positive factor keep the order.
LEMMA ProductsKeep ==
    ASSUME NEW b \in Int, b > 0, NEW q \in Int, NEW r \in Int, q <= r
    PROVE  b * q <= b * r
OBVIOUS

\* Truncating takes at most one less than rounding.
LEMMA TruncatedOf ==
    ASSUME NEW v, IsFraction(v), NEW short \in BOOLEAN
    PROVE  /\ Truncated(v, short) \in Int
           /\ Rounded(v) - Truncated(v, short) \in {0, 1}
<1> DEFINE n == v.num  d == v.den
           r == Rounded(v)
           t == Truncated(v, short)
<1>1. n \in Int /\ d \in Int /\ d > 0
  BY DEF IsFraction
<1>2. r = (2 * n + d) \div (2 * d)
  BY DEF Rounded
<1>3. t = IF short THEN (n - 1) \div d ELSE n \div d
  BY DEF Truncated
<1> HIDE DEF n, d, r, t
<1>4. r \in Int /\ (2 * d) * r <= 2 * n + d /\ 2 * n + d < (2 * d) * r + 2 * d
  <2>1. 2 * n + d \in Int /\ 2 * d \in Int /\ 2 * d > 0
    BY <1>1
  <2> DEFINE a == 2 * n + d  b == 2 * d
  <2> HIDE DEF a, b
  <2>2. r \in Int /\ b * r <= a /\ a < b * r + b
    BY <1>2, <2>1, QuotientOf DEF a, b
  <2> QED
    BY <2>2 DEF a, b
<1>5. t \in Int /\ d * t <= n /\ n <= d * t + d
  <2>1. CASE short
    <3>1. n - 1 \in Int
      BY <1>1
    <3>2. t \in Int /\ d * t <= n - 1 /\ n - 1 < d * t + d
      BY <1>1, <1>3, <2>1, <3>1, QuotientOf
    <3>3. d * t \in Int
      BY <1>1, <3>2
    <3> QED
      BY <1>1, <3>2, <3>3
  <2>2. CASE ~short
    <3>1. t \in Int /\ d * t <= n /\ n < d * t + d
      BY <1>1, <1>3, <2>2, QuotientOf
    <3>2. d * t \in Int
      BY <1>1, <3>1
    <3> QED
      BY <1>1, <3>1, <3>2
  <2> QED
    BY <2>1, <2>2
<1> DEFINE dr == d * r  dt == d * t
<1>6. dr \in Int /\ dt \in Int /\ (2 * d) * r = 2 * dr
  BY <1>1, <1>4, <1>5
<1>7. ~(r <= t - 1)
  <2> SUFFICES ASSUME r <= t - 1 PROVE FALSE
    OBVIOUS
  <2>1. d * r <= d * (t - 1) /\ d * (t - 1) = dt - d
    BY <1>1, <1>4, <1>5, ProductsKeep
  <2> HIDE DEF dr, dt
  <2> QED
    BY <1>1, <1>4, <1>5, <1>6, <2>1 DEF dr, dt
<1>8. ~(t + 2 <= r)
  <2> SUFFICES ASSUME t + 2 <= r PROVE FALSE
    OBVIOUS
  <2>1. d * (t + 2) <= d * r /\ d * (t + 2) = dt + 2 * d
    BY <1>1, <1>4, <1>5, ProductsKeep
  <2> QED
    BY <1>1, <1>4, <1>5, <1>6, <2>1
<1>9. r - t \in {0, 1}
  BY <1>4, <1>5, <1>7, <1>8
<1> QED
  BY <1>5, <1>9 DEF r, t

LEMMA ClampClose ==
    ASSUME NEW a \in Int, NEW b \in Int, a - b \in {0, 1}
    PROVE  Clamp(a) - Clamp(b) \in {0, 1}
BY MaxValAssumption DEF Clamp

\* A value that is a whole number already.
LEMMA WholeOf ==
    ASSUME NEW y \in 0 .. MaxVal, NEW short \in BOOLEAN
    PROVE  /\ Rounded(Fraction(y, 1)) = y
           /\ Clamp(Truncated(Fraction(y, 1), short)) \in 0 .. MaxVal
           /\ y - Clamp(Truncated(Fraction(y, 1), short)) \in {0, 1}
<1>1. y \in Int /\ IsFraction(Fraction(y, 1))
  BY MaxValAssumption, FractionOf
<1>2. Rounded(Fraction(y, 1)) = y
  <2>1. Fraction(y, 1).num = y /\ Fraction(y, 1).den = 1
    BY DEF Fraction
  <2>2. Rounded(Fraction(y, 1)) = (2 * y + 1) \div (2 * 1)
    BY <2>1 DEF Rounded
  <2>3. (2 * y + 1) \div 2 = y
    BY <1>1, QuotientIs
  <2> QED
    BY <2>2, <2>3
<1>3. Clamp(y) = y
  BY MaxValAssumption DEF Clamp
<1>4. /\ Truncated(Fraction(y, 1), short) \in Int
      /\ y - Truncated(Fraction(y, 1), short) \in {0, 1}
  BY <1>1, <1>2, TruncatedOf
<1>5. Clamp(y) - Clamp(Truncated(Fraction(y, 1), short)) \in {0, 1}
  BY <1>1, <1>4, ClampClose
<1> QED
  BY <1>2, <1>3, <1>4, <1>5, ClampOf

\* The last loop lets values that are close stay close.
LEMMA RisingClose ==
    ASSUME NEW f \in [Inputs -> 0 .. MaxVal], NEW g \in [Inputs -> 0 .. MaxVal],
           \A i \in Inputs : f[i] - g[i] \in {0, 1}
    PROVE  \A i \in Inputs : Rising(f)[i] - Rising(g)[i] \in {0, 1}
<1> SUFFICES ASSUME NEW i \in Inputs PROVE Rising(f)[i] - Rising(g)[i] \in {0, 1}
  OBVIOUS
<1>1. PICK j \in Inputs : j <= i /\ Rising(f)[i] = f[j]
  BY RisingOf
<1>2. PICK k \in Inputs : k <= i /\ Rising(g)[i] = g[k]
  BY RisingOf
<1>3. f[k] <= Rising(f)[i] /\ g[j] <= Rising(g)[i]
  BY <1>1, <1>2, RisingOf
<1>4. f[j] \in Int /\ f[k] \in Int /\ g[j] \in Int /\ g[k] \in Int
  BY MaxValAssumption
<1>5. f[j] - g[j] \in {0, 1} /\ f[k] - g[k] \in {0, 1}
  OBVIOUS
<1> QED
  BY <1>1, <1>2, <1>3, <1>4, <1>5

\* The two ramps of the points of a channel.
LEMMA RampsClose ==
    ASSUME NEW p \in Seq(ControlPoints), Len(p) > 0, NEW short \in BOOLEAN
    PROVE  \A i \in Inputs : PointsToRamp(p)[i] - ToRamp(p, short)[i] \in {0, 1}
<1> DEFINE n == Len(p)
           left  == Clamp(Truncated(Fraction(p[1].y, 1), short))
           right == Clamp(Truncated(Fraction(p[n].y, 1), short))
           page(x) == IF x <= p[1].x THEN p[1].y
                      ELSE IF x >= p[n].x THEN p[n].y
                      ELSE Clamp(Rounded(Hermite(p, x)))
           program(x) == IF x <= p[1].x THEN left
                         ELSE IF x >= p[n].x THEN right
                         ELSE Clamp(Truncated(Hermite(p, x), short))
           f == [x \in Inputs |-> page(x)]
           g == [x \in Inputs |-> program(x)]
           constant == [x \in Inputs |-> left]
           linear == [x \in Inputs |-> (x * MaxVal) \div (Size - 1)]
<1>1. n \in Nat /\ n > 0
  BY PlacesOf
<1>2. /\ p[1].x \in Int /\ p[n].x \in Int
      /\ p[1].y \in 0 .. MaxVal /\ p[n].y \in 0 .. MaxVal
  <2>1. 1 \in 1 .. n /\ n \in 1 .. n
    BY <1>1
  <2> QED
    BY <2>1, PlacesOf
<1>3. PointsToRamp(p) = Rising(f)
  BY DEF PointsToRamp, Curve
<1>4. ToRamp(p, short) = CASE n = 0 -> linear [] n = 1 -> constant [] OTHER -> Rising(g)
  BY DEF ToRamp
<1>5. /\ left \in 0 .. MaxVal /\ p[1].y - left \in {0, 1}
      /\ right \in 0 .. MaxVal /\ p[n].y - right \in {0, 1}
  BY <1>2, WholeOf
<1>6. ASSUME NEW x \in Inputs
      PROVE  page(x) \in 0 .. MaxVal /\ program(x) \in 0 .. MaxVal /\ page(x) - program(x) \in {0, 1}
  <2>1. x \in Int
    BY SizeAssumption DEF Inputs
  <2>2. CASE p[1].x < x /\ x < p[n].x
    <3> DEFINE v == Hermite(p, x)
               r == Rounded(v)
               t == Truncated(v, short)
    <3>1. IsFraction(v)
      BY <2>1, <2>2, HermiteOf
    <3> HIDE DEF v
    <3>2. r \in Int /\ t \in Int /\ r - t \in {0, 1}
      BY <3>1, RoundedOf, TruncatedOf
    <3> HIDE DEF r, t
    <3>3. /\ Clamp(r) \in 0 .. MaxVal /\ Clamp(t) \in 0 .. MaxVal
          /\ Clamp(r) - Clamp(t) \in {0, 1}
      BY <3>2, ClampOf, ClampClose
    <3>4. page(x) = Clamp(r) /\ program(x) = Clamp(t)
      BY <1>2, <2>1, <2>2 DEF r, t, v
    <3> QED
      BY <3>3, <3>4
  <2>3. CASE x <= p[1].x
    BY <1>2, <1>5, <2>3
  <2>4. CASE ~(x <= p[1].x) /\ x >= p[n].x
    BY <1>2, <1>5, <2>4
  <2>5. (p[1].x < x /\ x < p[n].x) \/ x <= p[1].x \/ (~(x <= p[1].x) /\ x >= p[n].x)
    BY <1>2, <2>1
  <2> QED
    BY <2>2, <2>3, <2>4, <2>5, Zenon
<1>7. CASE n = 1
  <2>1. ASSUME NEW x \in Inputs PROVE page(x) = p[1].y
    <3>1. x \in Int
      BY SizeAssumption DEF Inputs
    <3> HIDE DEF n
    <3> QED
      BY <1>2, <1>7, <3>1
  <2>2. f \in [Inputs -> 0 .. MaxVal] /\ \A x \in Inputs : f[x] = p[1].y
    BY <1>2, <2>1
  <2>3. \A i, j \in Inputs : i <= j => f[i] <= f[j]
    BY <1>2, <2>2, MaxValAssumption
  <2> HIDE DEF f, n, page
  <2>4. Rising(f) = f
    BY <2>2, <2>3, RisingKeeps
  <2>5. ToRamp(p, short) = constant
    BY <1>4, <1>7
  <2> QED
    BY <1>3, <1>5, <2>2, <2>4, <2>5
<1>8. CASE n # 1
  <2>1. /\ f \in [Inputs -> 0 .. MaxVal] /\ g \in [Inputs -> 0 .. MaxVal]
        /\ \A i \in Inputs : f[i] - g[i] \in {0, 1}
    <3> HIDE DEF page, program
    <3> QED
      BY <1>6
  <2> HIDE DEF f, g, n
  <2>2. ToRamp(p, short) = Rising(g)
    BY <1>1, <1>4, <1>8
  <2> QED
    BY <1>3, <2>1, <2>2, RisingClose
<1> QED
  BY <1>7, <1>8

----------------------------------------------------------------------------
(* Through points in order that never fall the spline never falls. *)

\* In order and never falling, of any two points the later one is further right and no
\* lower.
LEMMA LaterOf ==
    ASSUME NEW p \in Seq(ControlPoints), InOrder(p), NeverFalls(p),
           NEW i \in 1 .. Len(p), NEW j \in 1 .. Len(p), i < j
    PROVE  p[i].x < p[j].x /\ p[i].y <= p[j].y
<1> DEFINE n == Len(p)
           Later(k) == p[i].x < p[k].x /\ p[i].y <= p[k].y
           T == {k \in i + 1 .. n : ~Later(k)}
<1>1. n \in Nat /\ i \in 1 .. n /\ j \in i + 1 .. n
  BY PlacesOf
<1>2. \A k \in 1 .. n : p[k].x \in Int /\ p[k].y \in Int
  <2>1. \A y \in 0 .. MaxVal : y \in Int
    BY MaxValAssumption
  <2> QED
    BY <2>1, PlacesOf
<1>3. \A k \in 1 .. n - 1 : p[k].x < p[k + 1].x /\ p[k].y <= p[k + 1].y
  BY DEF InOrder, NeverFalls
<1> HIDE DEF n
<1>4. SUFFICES ASSUME T # {} PROVE FALSE
  <2>1. T = {} => Later(j)
    <3> HIDE DEF Later
    <3> QED
      BY <1>1
  <2> QED
    BY <1>4, <2>1
<1>5. PICK m \in T : \A k \in T : m <= k
  <2>1. T \subseteq Nat
    BY <1>1
  <2> HIDE DEF T
  <2> QED
    BY <1>4, <2>1, LeastMember
<1>6. m \in i + 1 .. n /\ ~Later(m)
  OBVIOUS
<1>7. m - 1 \in 1 .. n - 1 /\ (m - 1) + 1 = m /\ m - 1 \in 1 .. n /\ m \in 1 .. n /\ ~(m <= m - 1)
  BY <1>1, <1>6
<1>8. m - 1 = i \/ Later(m - 1)
  <2>1. m - 1 # i => m - 1 \in i + 1 .. n
    BY <1>1, <1>6
  <2>2. m - 1 \notin T
    BY <1>5, <1>7
  <2> HIDE DEF Later
  <2> QED
    BY <2>1, <2>2
<1>9. p[m - 1].x < p[m].x /\ p[m - 1].y <= p[m].y
  BY <1>3, <1>7
<1>10. Later(m)
  BY <1>1, <1>2, <1>7, <1>8, <1>9
<1> QED
  BY <1>6, <1>10

\* The width and the height of a segment are those of its slope.
LEMMA RisingSlopeOf ==
    ASSUME NEW p \in Seq(ControlPoints), InOrder(p), NeverFalls(p), NEW k \in 1 .. Len(p) - 1
    PROVE  /\ Slope(p, k).num = p[k + 1].y - p[k].y
           /\ Slope(p, k).den = p[k + 1].x - p[k].x
           /\ p[k + 1].y - p[k].y \in Nat
           /\ p[k + 1].x - p[k].x \in Nat \ {0}
<1>1. k \in 1 .. Len(p) /\ k + 1 \in 1 .. Len(p)
  BY PlacesOf
<1>2. p[k].x < p[k + 1].x /\ p[k].y <= p[k + 1].y
  BY DEF InOrder, NeverFalls
<1>3. p[k].x \in Int /\ p[k + 1].x \in Int /\ p[k].y \in Int /\ p[k + 1].y \in Int
  <2>1. p[k].y \in 0 .. MaxVal /\ p[k + 1].y \in 0 .. MaxVal
    BY <1>1, PlacesOf
  <2> QED
    BY <1>1, <2>1, PlacesOf, MaxValAssumption
<1> DEFINE dx == p[k + 1].x - p[k].x
           dy == p[k + 1].y - p[k].y
<1>4. dx \in Nat \ {0} /\ dy \in Nat /\ dx > 0
  BY <1>2, <1>3
<1>5. Slope(p, k) = IF dx > 0 THEN Fraction(dy, dx) ELSE Fraction(0, 1)
  BY DEF Slope
<1> HIDE DEF dx, dy
<1>6. Slope(p, k).num = dy /\ Slope(p, k).den = dx
  BY <1>4, <1>5 DEF Fraction
<1> QED
  BY <1>4, <1>6 DEF dx, dy

\* The harmonic mean is at most three times either slope.
LEMMA MeanBound ==
    ASSUME NEW an \in Int, NEW ad \in Int, NEW bn \in Int, NEW bd \in Int,
           an > 0, ad > 0, bn > 0, bd > 0
    PROVE  LET n == 3 * (ad + bd) * an * bn
               d == (ad + 2 * bd) * bn * ad + (2 * ad + bd) * an * bd
           IN  /\ n \in Int /\ d \in Int /\ n >= 0 /\ d > 0
               /\ n * ad <= 3 * an * d
               /\ n * bd <= 3 * bn * d
<1> DEFINE n == 3 * (ad + bd) * an * bn
           d == (ad + 2 * bd) * bn * ad + (2 * ad + bd) * an * bd
           q1 == bn * ad * ad  q2 == bn * ad * bd  q3 == an * ad * bd  q4 == an * bd * bd
<1>1. q1 \in Int /\ q1 > 0 /\ q2 \in Int /\ q2 > 0 /\ q3 \in Int /\ q3 > 0 /\ q4 \in Int /\ q4 > 0
  <2>1. bn * ad \in Int /\ bn * ad > 0 /\ an * ad \in Int /\ an * ad > 0 /\ an * bd \in Int /\ an * bd > 0
    BY Products
  <2> DEFINE l == bn * ad  k == an * ad  m == an * bd
  <2> HIDE DEF l, k, m
  <2>2. l * ad \in Int /\ l * ad > 0 /\ l * bd \in Int /\ l * bd > 0
    BY <2>1, Products DEF l
  <2>3. k * bd \in Int /\ k * bd > 0 /\ m * bd \in Int /\ m * bd > 0
    BY <2>1, Products DEF k, m
  <2> QED
    BY <2>2, <2>3 DEF l, k, m
<1>2. d = q1 + 2 * q2 + 2 * q3 + q4
  OBVIOUS
<1>3. /\ n * ad = 3 * an * (q1 + q2)
      /\ n * bd = 3 * bn * (q3 + q4)
  OBVIOUS
<1>4. n \in Int /\ n >= 0
  <2>1. (ad + bd) * an > 0 /\ (ad + bd) * an \in Int
    BY Products
  <2> DEFINE l == (ad + bd) * an
  <2>2. n = 3 * (l * bn)
    OBVIOUS
  <2> HIDE DEF l, n
  <2>3. l * bn > 0 /\ l * bn \in Int
    BY <2>1, Products DEF l
  <2> QED
    BY <2>2, <2>3
<1> HIDE DEF n, d, q1, q2, q3, q4
<1>5. d \in Int /\ d > 0 /\ q1 + q2 <= d /\ q3 + q4 <= d
  BY <1>1, <1>2
<1>6. 3 * an * (q1 + q2) <= 3 * an * d /\ 3 * bn * (q3 + q4) <= 3 * bn * d
  <2>1. 3 * an \in Int /\ 3 * an > 0 /\ 3 * bn \in Int /\ 3 * bn > 0
    BY <1>1
  <2> QED
    BY <1>1, <1>5, <2>1, ProductsKeep
<1> QED
  BY <1>3, <1>4, <1>5, <1>6 DEF n, d

\* Nor is the tangent at a point more than three times the slope of a segment that begins
\* or ends there.
LEMMA TangentBound ==
    ASSUME NEW p \in Seq(ControlPoints), InOrder(p), NeverFalls(p), Len(p) > 1,
           NEW k \in 1 .. Len(p), NEW s \in 1 .. Len(p) - 1, s = k \/ s + 1 = k
    PROVE  /\ Tangent(p, k).num \in Int /\ Tangent(p, k).num >= 0
           /\ Tangent(p, k).den \in Int /\ Tangent(p, k).den > 0
           /\ Tangent(p, k).num * Slope(p, s).den <= 3 * Slope(p, s).num * Tangent(p, k).den
<1> DEFINE n == Len(p)
           Bound(t, a) == /\ t.num \in Int /\ t.num >= 0 /\ t.den \in Int /\ t.den > 0
                          /\ t.num * a.den <= 3 * a.num * t.den
           Rises(a) == a.num \in Int /\ a.den \in Int /\ a.num >= 0 /\ a.den > 0
<1>1. n \in Nat /\ n > 1 /\ s \in 1 .. n - 1
  BY PlacesOf
<1>2. \A q \in 1 .. n - 1 : Rises(Slope(p, q))
  BY RisingSlopeOf
<1>3. ASSUME NEW a, Rises(a) PROVE Bound(a, a)
  <2> DEFINE u == a.num  v == a.den
  <2>1. u \in Int /\ v \in Int /\ u >= 0 /\ v > 0
    BY <1>3
  <2> HIDE DEF u, v
  <2>2. u * v <= 3 * u * v
    BY <2>1
  <2> QED
    BY <2>1, <2>2 DEF u, v
<1>4. ASSUME NEW a, Rises(a) PROVE Bound(Fraction(0, 1), a)
  <2>1. Fraction(0, 1).num = 0 /\ Fraction(0, 1).den = 1
    BY DEF Fraction
  <2> HIDE DEF Rises
  <2>2. a.num \in Int /\ a.den \in Int /\ a.num >= 0
    BY <1>4 DEF Rises
  <2> QED
    BY <2>1, <2>2
<1>5. CASE k = 1
  <2>1. s = 1 /\ 1 # n
    <3> HIDE DEF n
    <3> QED
      BY <1>1, <1>5
  <2>2. Tangent(p, 1) = Slope(p, 1)
    BY <2>1 DEF Tangent
  <2> HIDE DEF Rises, Bound
  <2>3. Bound(Slope(p, 1), Slope(p, 1))
    BY <1>2, <1>3, <2>1
  <2> QED
    BY <1>5, <2>1, <2>2, <2>3 DEF Bound
<1>6. CASE k # 1 /\ k = n
  <2>1. s = k - 1
    BY <1>1, <1>6
  <2>2. Tangent(p, k) = Slope(p, k - 1)
    BY <1>6 DEF Tangent
  <2> HIDE DEF Rises, Bound
  <2>3. Bound(Slope(p, s), Slope(p, s))
    BY <1>2, <1>3
  <2> QED
    BY <2>1, <2>2, <2>3 DEF Bound
<1>7. CASE k # 1 /\ k # n
  <2> DEFINE a == Slope(p, k - 1)
             b == Slope(p, k)
             an == a.num  ad == a.den  bn == b.num  bd == b.den
             num == 3 * (ad + bd) * an * bn
             den == (ad + 2 * bd) * bn * ad + (2 * ad + bd) * an * bd
  <2>1. k - 1 \in 1 .. n - 1 /\ k \in 1 .. n - 1
    BY <1>1, <1>7
  <2>2. Slope(p, s) = a \/ Slope(p, s) = b
    <3>1. s = k - 1 \/ s = k
      BY <1>1
    <3> QED
      BY <3>1
  <2>3. Tangent(p, k) = IF an * bn <= 0 THEN Fraction(0, 1) ELSE Fraction(num, den)
    BY <1>7 DEF Tangent
  <2>4. Rises(a) /\ Rises(b)
    <3> HIDE DEF Rises
    <3> QED
      BY <1>2, <2>1
  <2> HIDE DEF a, b
  <2>5. /\ an \in Int /\ ad \in Int /\ an >= 0 /\ ad > 0
        /\ bn \in Int /\ bd \in Int /\ bn >= 0 /\ bd > 0
    BY <2>4
  <2>6. CASE an * bn <= 0
    <3>1. Tangent(p, k) = Fraction(0, 1)
      BY <2>3, <2>6
    <3> HIDE DEF Rises, Bound
    <3>2. Bound(Fraction(0, 1), Slope(p, s))
      BY <1>4, <2>2, <2>4
    <3> QED
      BY <3>1, <3>2 DEF Bound
  <2>7. CASE ~(an * bn <= 0)
    <3> HIDE DEF an, ad, bn, bd
    <3>1. an > 0 /\ bn > 0
      BY <2>5, <2>7
    <3>2. /\ num \in Int /\ den \in Int /\ num >= 0 /\ den > 0
          /\ num * ad <= 3 * an * den
          /\ num * bd <= 3 * bn * den
      BY <2>5, <3>1, MeanBound
    <3> HIDE DEF num, den
    <3>3. Fraction(num, den).num = num /\ Fraction(num, den).den = den
      BY <3>2 DEF Fraction
    <3>4. Tangent(p, k) = Fraction(num, den)
      BY <2>3, <2>7
    <3>5. Bound(Fraction(num, den), a) /\ Bound(Fraction(num, den), b)
      BY <3>2, <3>3 DEF an, ad, bn, bd
    <3> HIDE DEF Bound
    <3>6. Bound(Tangent(p, k), Slope(p, s))
      BY <2>2, <3>4, <3>5
    <3> QED
      BY <3>6 DEF Bound
  <2> QED
    BY <2>6, <2>7
<1> QED
  BY <1>5, <1>6, <1>7

\* What the height of a segment and the tangents at its ends weigh at u, when it is h wide.
Rise(u, h)  == 3*u*u*h - 2*u*u*u
Left(u, h)  == u*u*u - 2*u*u*h + u*h*h
Right(u, h) == u*u*u - u*u*h

\* Further right the height weighs more, and so it does with three times either tangent
\* or both.
LEMMA WeightsRise ==
    ASSUME NEW u \in Int, NEW w \in Int, NEW h \in Int, 0 <= u, u <= w, w <= h
    PROVE  LET dm == Rise(w, h) - Rise(u, h)
               da == Left(w, h) - Left(u, h)
               db == Right(w, h) - Right(u, h)
           IN  /\ dm \in Int /\ da \in Int /\ db \in Int
               /\ dm >= 0 /\ dm + 3 * da >= 0 /\ dm + 3 * db >= 0 /\ dm + 3 * da + 3 * db >= 0
<1> DEFINE dm == Rise(w, h) - Rise(u, h)
           da == Left(w, h) - Left(u, h)
           db == Right(w, h) - Right(u, h)
<1>1. dm = (w - u) * (2 * w * (h - w) + 2 * u * (h - u) + w * (h - u) + u * (h - w))
  BY DEF Rise
<1>2. dm + 3 * da = (w - u) * ((h - u) * (h - u) + (h - u) * (h - w) + (h - w) * (h - w))
  BY DEF Rise, Left
<1>3. dm + 3 * db = (w - u) * (w * w + w * u + u * u)
  BY DEF Rise, Right
<1>4. dm + 3 * da + 3 * db
        = (w - u) * (3 * ((w + u - h) * (w + u - h)) + (w - u) * (w - u))
  BY DEF Rise, Left, Right
<1>5. dm \in Int /\ da \in Int /\ db \in Int
  BY DEF Rise, Left, Right
<1> HIDE DEF dm, da, db
<1>6. ASSUME NEW a \in Int, NEW b \in Int, a >= 0, b >= 0 PROVE a * b >= 0 /\ a * b \in Int
  BY <1>6
<1>7. w - u >= 0 /\ h - w >= 0 /\ h - u >= 0 /\ w >= 0
  OBVIOUS
<1>8. dm >= 0
  <2>1. /\ w * (h - w) >= 0 /\ u * (h - u) >= 0 /\ w * (h - u) >= 0 /\ u * (h - w) >= 0
    BY <1>6, <1>7
  <2>2. 2 * w * (h - w) + 2 * u * (h - u) + w * (h - u) + u * (h - w) >= 0
    BY <2>1
  <2> QED
    BY <1>1, <1>6, <1>7, <2>2
<1>9. dm + 3 * da >= 0
  <2>1. (h - u) * (h - u) >= 0 /\ (h - u) * (h - w) >= 0 /\ (h - w) * (h - w) >= 0
    BY <1>6, <1>7
  <2>2. (h - u) * (h - u) + (h - u) * (h - w) + (h - w) * (h - w) >= 0
    BY <2>1
  <2> QED
    BY <1>2, <1>6, <1>7, <2>2
<1>10. dm + 3 * db >= 0
  <2>1. w * w >= 0 /\ w * u >= 0 /\ u * u >= 0
    BY <1>6, <1>7
  <2>2. w * w + w * u + u * u >= 0
    BY <2>1
  <2> QED
    BY <1>3, <1>6, <1>7, <2>2
<1>11. dm + 3 * da + 3 * db >= 0
  <2>1. (w + u - h) * (w + u - h) >= 0 /\ (w - u) * (w - u) >= 0
    OBVIOUS
  <2>2. 3 * ((w + u - h) * (w + u - h)) + (w - u) * (w - u) >= 0
    BY <2>1
  <2> QED
    BY <1>4, <1>6, <1>7, <2>2
<1> QED
  BY <1>5, <1>8, <1>9, <1>10, <1>11 DEF dm, da, db

\* The numerator of the Hermite polynomial of one segment, whose ends have the tangents
\* n0 / e0 and n1 / e1.
Numerator(u, h, ys, yt, n0, e0, n1, e1) ==
    ((2*u*u*u - 3*u*u*h + h*h*h) * ys + (3*u*u*h - 2*u*u*u) * yt) * e0 * e1
      + (u*u*u - 2*u*u*h + u*h*h) * h * n0 * e1
      + (u*u*u - u*u*h) * h * n1 * e0

\* A weighted sum.
Weighted(m, a, b, i, j, k) == i * m + j * a + k * b

\* Such a sum with other weights.
LEMMA SumChange ==
    ASSUME NEW m \in Int, NEW a \in Int, NEW b \in Int,
           NEW i \in Int, NEW j \in Int, NEW k \in Int,
           NEW x \in Int, NEW y \in Int, NEW z \in Int
    PROVE  /\ Weighted(m, a, b, i, j, k) \in Int
           /\ Weighted(m, a, b, x, y, z)
                = Weighted(m, a, b, i, j, k) + Weighted(m, a, b, x - i, y - j, z - k)
BY DEF Weighted

\* What is not negative at the corners is not negative between them.
LEMMA BetweenCorners ==
    ASSUME NEW m \in Int, NEW a \in Int, NEW b \in Int, 0 <= a, a <= 3 * m, 0 <= b, b <= 3 * m,
           NEW dm \in Int, NEW da \in Int, NEW db \in Int,
           dm >= 0, dm + 3 * da >= 0, dm + 3 * db >= 0, dm + 3 * da + 3 * db >= 0
    PROVE  Weighted(m, a, b, dm, da, db) >= 0
BY DEF Weighted

LEMMA WeightsOf ==
    ASSUME NEW u \in Int, NEW h \in Int
    PROVE  /\ Rise(u, h) \in Int /\ Left(u, h) \in Int /\ Right(u, h) \in Int
           /\ Rise(0, h) = 0 /\ Left(0, h) = 0 /\ Right(0, h) = 0
           /\ Rise(h, h) = h*h*h /\ Left(h, h) = 0 /\ Right(h, h) = 0
BY DEF Rise, Left, Right

\* Two values of the spline in the same segment.
LEMMA SegmentRises ==
    ASSUME NEW p \in Seq(ControlPoints), InOrder(p), NeverFalls(p),
           NEW s \in 1 .. Len(p) - 1, NEW x \in Int, NEW y \in Int,
           Segment(p, x) = s, Segment(p, y) = s,
           p[s].x <= x, x <= y, y <= p[s + 1].x
    PROVE  LET v == Hermite(p, x)
               w == Hermite(p, y)
           IN  /\ IsFraction(v) /\ IsFraction(w)
               /\ v.den = w.den /\ v.num <= w.num
               /\ p[s].y * v.den <= v.num
               /\ w.num <= p[s + 1].y * w.den
               /\ y = p[s + 1].x => w.num = p[s + 1].y * w.den
<1> DEFINE h  == p[s + 1].x - p[s].x
           u  == x - p[s].x
           w  == y - p[s].x
           ys == p[s].y
           yt == p[s + 1].y
           d0 == Tangent(p, s)
           d1 == Tangent(p, s + 1)
           e0 == d0.den  e1 == d1.den  n0 == d0.num  n1 == d1.num
           num(t) == Numerator(t, h, ys, yt, n0, e0, n1, e1)
           den == h*h*h * e0 * e1
<1>1. s \in 1 .. Len(p) /\ s + 1 \in 1 .. Len(p) /\ Len(p) > 1
  BY PlacesOf
<1>2. p[s].x \in Int /\ p[s + 1].x \in Int /\ ys \in Int /\ yt \in Int
  <2>1. p[s].y \in 0 .. MaxVal /\ p[s + 1].y \in 0 .. MaxVal
    BY <1>1, PlacesOf
  <2> QED
    BY <1>1, <2>1, PlacesOf, MaxValAssumption
<1>3. h \in Int /\ h > 0 /\ yt - ys \in Nat /\ Slope(p, s).num = yt - ys /\ Slope(p, s).den = h
  BY RisingSlopeOf
<1>4. /\ e0 \in Int /\ e0 > 0 /\ n0 \in Int /\ n0 >= 0 /\ n0 * h <= 3 * (yt - ys) * e0
      /\ e1 \in Int /\ e1 > 0 /\ n1 \in Int /\ n1 >= 0 /\ n1 * h <= 3 * (yt - ys) * e1
  BY <1>1, <1>3, TangentBound
<1>5. Hermite(p, x) = Fraction(num(u), den) /\ Hermite(p, y) = Fraction(num(w), den)
  BY DEF Hermite, Numerator
<1>6. u \in Int /\ w \in Int /\ 0 <= u /\ u <= w /\ w <= h /\ (y = p[s + 1].x => w = h)
  BY <1>2
<1>7. ys = p[s].y /\ yt = p[s + 1].y
  OBVIOUS
<1> HIDE DEF h, u, w, ys, yt, e0, e1, n0, n1
<1> DEFINE m == (yt - ys) * e0 * e1
           a == h * n0 * e1
           b == h * n1 * e0
           sum(t) == den * ys + Weighted(m, a, b, Rise(t, h), Left(t, h), Right(t, h))
<1>8. den \in Int /\ den > 0
  <2>1. h * h \in Int /\ h * h > 0
    BY <1>3, Products
  <2> DEFINE hh == h * h
  <2> HIDE DEF hh
  <2>2. hh * h \in Int /\ hh * h > 0
    BY <1>3, <2>1, Products DEF hh
  <2> DEFINE hhh == hh * h
  <2> HIDE DEF hhh
  <2>3. hhh * e0 \in Int /\ hhh * e0 > 0
    BY <1>4, <2>2, Products DEF hhh
  <2> DEFINE he == hhh * e0
  <2> HIDE DEF he
  <2>4. he * e1 \in Int /\ he * e1 > 0
    BY <1>4, <2>3, Products DEF he
  <2> QED
    BY <2>4 DEF he, hhh, hh
<1>9. m \in Int /\ a \in Int /\ b \in Int /\ 0 <= a /\ a <= 3 * m /\ 0 <= b /\ b <= 3 * m
  <2> DEFINE dy == yt - ys
             k0 == n0 * h  k1 == n1 * h
             l0 == dy * e0  l1 == dy * e1
  <2>1. dy \in Int /\ k0 \in Int /\ k0 >= 0 /\ k1 \in Int /\ k1 >= 0 /\ l0 \in Int /\ l1 \in Int
    BY <1>3, <1>4
  <2>2. a = e1 * k0 /\ b = e0 * k1 /\ m = e1 * l0 /\ m = e0 * l1
    BY <1>3, <1>4, <2>1
  <2>3. k0 <= 3 * l0 /\ k1 <= 3 * l1
    BY <1>3, <1>4
  <2> HIDE DEF dy, k0, k1, l0, l1, a, b, m
  <2>4. e1 * k0 <= e1 * (3 * l0) /\ e0 * k1 <= e0 * (3 * l1)
    BY <1>4, <2>1, <2>3, ProductsKeep
  <2>5. e1 * 0 <= e1 * k0 /\ e0 * 0 <= e0 * k1
    BY <1>4, <2>1, ProductsKeep
  <2> QED
    BY <1>4, <2>1, <2>2, <2>4, <2>5
<1>10. ASSUME NEW t \in Int PROVE num(t) = sum(t) /\ num(t) \in Int
  <2>1. num(t) = sum(t)
    <3>1. /\ h \in Int /\ ys \in Int /\ yt \in Int
          /\ n0 \in Int /\ e0 \in Int /\ n1 \in Int /\ e1 \in Int
      BY <1>2, <1>3, <1>4, Zenon
    <3> QED
      BY <3>1 DEF Numerator, Weighted, Rise, Left, Right
  <2>2. Rise(t, h) \in Int /\ Left(t, h) \in Int /\ Right(t, h) \in Int
    BY <1>3, WeightsOf, Zenon
  <2> HIDE DEF num, m, a, b, den
  <2>3. sum(t) \in Int
    <3>1. Weighted(m, a, b, Rise(t, h), Left(t, h), Right(t, h)) \in Int
      BY <1>9, <2>2, SumChange
    <3>2. den * ys \in Int
      BY <1>2, <1>8
    <3> QED
      BY <3>1, <3>2
  <2> QED
    BY <2>1, <2>3
<1> HIDE DEF num, m, a, b, den
<1>11. ASSUME NEW t \in Int, NEW r \in Int, 0 <= t, t <= r, r <= h PROVE num(t) <= num(r)
  <2> DEFINE dm == Rise(r, h) - Rise(t, h)
             da == Left(r, h) - Left(t, h)
             db == Right(r, h) - Right(t, h)
  <2>1. /\ dm \in Int /\ da \in Int /\ db \in Int
        /\ dm >= 0 /\ dm + 3 * da >= 0 /\ dm + 3 * db >= 0 /\ dm + 3 * da + 3 * db >= 0
    BY <1>3, <1>11, WeightsRise
  <2>2. sum(r) = sum(t) + Weighted(m, a, b, dm, da, db)
    <3>1. /\ Rise(t, h) \in Int /\ Left(t, h) \in Int /\ Right(t, h) \in Int
          /\ Rise(r, h) \in Int /\ Left(r, h) \in Int /\ Right(r, h) \in Int
      BY <1>3, WeightsOf, Zenon
    <3> DEFINE from == Weighted(m, a, b, Rise(t, h), Left(t, h), Right(t, h))
               to   == Weighted(m, a, b, Rise(r, h), Left(r, h), Right(r, h))
               more == Weighted(m, a, b, dm, da, db)
    <3>2. from \in Int /\ to = from + more /\ more \in Int
      <4>1. m \in Int /\ a \in Int /\ b \in Int /\ dm \in Int /\ da \in Int /\ db \in Int
        BY <1>9, <2>1, Zenon
      <4>2. from \in Int /\ to = from + more
        BY <3>1, <4>1, SumChange
      <4> HIDE DEF dm, da, db
      <4>3. more \in Int
        BY <4>1, SumChange
      <4> QED
        BY <4>2, <4>3
    <3>3. den * ys \in Int
      BY <1>2, <1>8
    <3> HIDE DEF from, to, more
    <3>4. den * ys + to = (den * ys + from) + more
      BY <3>2, <3>3
    <3> QED
      BY <3>4 DEF from, to, more
  <2> HIDE DEF dm, da, db, sum
  <2>3. Weighted(m, a, b, dm, da, db) >= 0 /\ Weighted(m, a, b, dm, da, db) \in Int
    BY <1>9, <2>1, BetweenCorners, SumChange
  <2>4. num(t) = sum(t) /\ num(r) = sum(r) /\ num(t) \in Int /\ num(r) \in Int
    BY <1>10
  <2> QED
    BY <2>2, <2>3, <2>4
<1>12. num(0) = den * ys
  <2>1. Rise(0, h) = 0 /\ Left(0, h) = 0 /\ Right(0, h) = 0
    BY <1>3, WeightsOf, Zenon
  <2>2. Weighted(m, a, b, 0, 0, 0) = 0
    BY <1>9 DEF Weighted
  <2> QED
    BY <1>2, <1>8, <1>10, <2>1, <2>2
<1>13. num(h) = den * yt
  <2>1. Rise(h, h) = h*h*h /\ Left(h, h) = 0 /\ Right(h, h) = 0
    BY <1>3, WeightsOf, Zenon
  <2>2. num(h) = den * ys + h*h*h * m
    <3>1. h*h*h \in Int /\ h*h*h * m \in Int
      BY <1>3, <1>9
    <3>2. Weighted(m, a, b, h*h*h, 0, 0) = h*h*h * m
      BY <1>9, <3>1 DEF Weighted
    <3>3. num(h) = den * ys + Weighted(m, a, b, Rise(h, h), Left(h, h), Right(h, h))
      BY <1>3, <1>10
    <3> QED
      BY <2>1, <3>2, <3>3
  <2>3. den * ys + h*h*h * m = den * yt
    <3> DEFINE k == h*h*h  g == e0 * e1
    <3>1. k \in Int /\ g \in Int /\ den = k * g /\ m = (yt - ys) * g
      BY <1>2, <1>3, <1>4 DEF den, m
    <3> HIDE DEF k, g
    <3>2. (k * g) * ys + k * ((yt - ys) * g) = (k * g) * yt
      BY <1>2, <3>1
    <3> QED
      BY <3>1, <3>2 DEF k
  <2> QED
    BY <2>2, <2>3
<1>14. /\ Hermite(p, x).num = num(u) /\ Hermite(p, x).den = den
       /\ Hermite(p, y).num = num(w) /\ Hermite(p, y).den = den
  BY <1>5, <1>8 DEF Fraction
<1>15. num(u) \in Int /\ num(w) \in Int /\ num(u) <= num(w) /\ num(0) <= num(u) /\ num(w) <= num(h)
  <2>1. u <= h /\ 0 <= w /\ 0 <= 0 /\ h <= h /\ 0 \in Int
    BY <1>3, <1>6
  <2> QED
    BY <1>3, <1>6, <1>10, <1>11, <2>1, Zenon
<1>16. w = h => num(w) = num(h)
  OBVIOUS
<1>17. den * ys = ys * den /\ den * yt = yt * den
  BY <1>2, <1>8
<1> QED
  BY <1>6, <1>7, <1>8, <1>12, <1>13, <1>14, <1>15, <1>16, <1>17 DEF IsFraction

\* Rounding keeps the order of two values with the same denominator, and leaves whole
\* numbers as they are.
LEMMA RoundedRises ==
    ASSUME NEW v, NEW w, IsFraction(v), IsFraction(w), v.den = w.den, v.num <= w.num
    PROVE  Rounded(v) <= Rounded(w)
<1> DEFINE a == 2 * v.num + v.den
           c == 2 * w.num + w.den
           b == 2 * v.den
           q == a \div b
           r == c \div b
<1>1. a \in Int /\ c \in Int /\ b \in Int /\ b > 0 /\ a <= c
  BY DEF IsFraction
<1>2. Rounded(v) = q /\ Rounded(w) = r
  BY DEF Rounded
<1> HIDE DEF a, c, b
<1>3. q \in Int /\ b * q <= a /\ a < b * q + b /\ r \in Int /\ b * r <= c /\ c < b * r + b
  BY <1>1, QuotientOf
<1> HIDE DEF q, r
<1>4. ~(r <= q - 1)
  <2> SUFFICES ASSUME r <= q - 1 PROVE FALSE
    OBVIOUS
  <2> DEFINE br == b * r  bq == b * q
  <2>1. b * r <= b * (q - 1) /\ b * (q - 1) = bq - b
    BY <1>1, <1>3, ProductsKeep
  <2>2. br \in Int /\ bq \in Int /\ br <= bq - b /\ bq <= a /\ c < br + b
    BY <1>1, <1>3, <2>1
  <2> HIDE DEF br, bq
  <2> QED
    BY <1>1, <2>2
<1> QED
  BY <1>2, <1>3, <1>4

LEMMA RoundedWhole ==
    ASSUME NEW v, IsFraction(v), NEW y \in Int, v.num = y * v.den
    PROVE  Rounded(v) = y
<1> DEFINE d == v.den
<1>1. d \in Int /\ d > 0
  BY DEF IsFraction
<1>2. Rounded(v) = (2 * (y * d) + d) \div (2 * d)
  BY DEF Rounded
<1> HIDE DEF d
<1> DEFINE a == 2 * (y * d) + d  b == 2 * d
<1>3. a \in Int /\ b \in Int /\ b > 0 /\ b * y <= a /\ a < b * y + b
  <2>1. y * d \in Int /\ b * y = 2 * (y * d)
    BY <1>1
  <2> QED
    BY <1>1, <2>1
<1> HIDE DEF a, b
<1>4. a \div b = y
  BY <1>3, QuotientIs
<1> QED
  BY <1>2, <1>4 DEF a, b

\* A value of the spline lies between the ends of its segment, never falls with x and
\* goes through the end.
LEMMA ValuesOf ==
    ASSUME NEW p \in Seq(ControlPoints), InOrder(p), NeverFalls(p),
           NEW s \in 1 .. Len(p) - 1, NEW x \in Int, NEW y \in Int,
           Segment(p, x) = s, Segment(p, y) = s,
           p[s].x <= x, x <= y, y <= p[s + 1].x
    PROVE  LET v == Rounded(Hermite(p, x))
               w == Rounded(Hermite(p, y))
           IN  /\ v \in Int /\ w \in Int
               /\ p[s].y <= v /\ v <= w /\ w <= p[s + 1].y
               /\ y = p[s + 1].x => w = p[s + 1].y
<1> DEFINE f == Hermite(p, x)
           g == Hermite(p, y)
           d == f.den
           low  == [num |-> p[s].y * d, den |-> d]
           high == [num |-> p[s + 1].y * d, den |-> d]
<1>1. /\ IsFraction(f) /\ IsFraction(g)
      /\ g.den = d /\ f.num <= g.num
      /\ p[s].y * d <= f.num
      /\ g.num <= p[s + 1].y * d
      /\ y = p[s + 1].x => g.num = p[s + 1].y * d
  BY SegmentRises
<1> HIDE DEF f, g
<1>2. p[s].y \in Int /\ p[s + 1].y \in Int
  <2>1. s \in 1 .. Len(p) /\ s + 1 \in 1 .. Len(p)
    BY PlacesOf
  <2>2. p[s].y \in 0 .. MaxVal /\ p[s + 1].y \in 0 .. MaxVal
    BY <2>1, PlacesOf
  <2> QED
    BY <2>2, MaxValAssumption
<1>3. IsFraction(low) /\ IsFraction(high)
  BY <1>1, <1>2 DEF IsFraction
<1>4. Rounded(low) = p[s].y /\ Rounded(high) = p[s + 1].y
  BY <1>2, <1>3, RoundedWhole
<1>5. Rounded(low) <= Rounded(f) /\ Rounded(f) <= Rounded(g) /\ Rounded(g) <= Rounded(high)
  BY <1>1, <1>3, RoundedRises
<1>6. y = p[s + 1].x => Rounded(g) = p[s + 1].y
  BY <1>1, <1>2, RoundedWhole
<1> QED
  BY <1>1, <1>4, <1>5, <1>6, RoundedOf DEF f, g

\* The curve through such points never falls and goes through all of them.
LEMMA CurveRises ==
    ASSUME NEW p \in Seq(ControlPoints), InOrder(p), NeverFalls(p), Len(p) > 0
    PROVE  /\ \A x, y \in Inputs : x <= y => Curve(p)[x] <= Curve(p)[y]
           /\ \A i \in 1 .. Len(p) : p[i].x \in Inputs => Curve(p)[p[i].x] = p[i].y
<1> DEFINE n == Len(p)
           at(k) == p[k].x
           val(k) == p[k].y
           seg(x) == Segment(p, x)
           mid(x) == Rounded(Hermite(p, x))
           Inner(x) == x \in Int /\ at(1) < x /\ x < at(n)
<1>1. n \in Nat /\ n > 0 /\ 1 \in 1 .. n /\ n \in 1 .. n
  BY PlacesOf
<1>2. \A k \in 1 .. n : at(k) \in Int /\ val(k) \in 0 .. MaxVal
  BY PlacesOf
<1>3. \A y \in 0 .. MaxVal : y \in Int /\ Clamp(y) = y
  BY MaxValAssumption DEF Clamp
<1>4. \A i, j \in 1 .. n : i <= j => at(i) <= at(j) /\ val(i) <= val(j)
  <2> SUFFICES ASSUME NEW i \in 1 .. n, NEW j \in 1 .. n, i <= j
               PROVE  at(i) <= at(j) /\ val(i) <= val(j)
    OBVIOUS
  <2>1. at(i) \in Int /\ at(j) \in Int /\ val(i) \in Int /\ val(j) \in Int
    BY <1>2, <1>3
  <2>2. CASE i < j
    <3>1. at(i) < at(j) /\ val(i) <= val(j)
      BY <2>2, LaterOf
    <3> HIDE DEF at, val
    <3> QED
      BY <2>1, <3>1
  <2>3. CASE i = j
    <3> HIDE DEF at, val
    <3> QED
      BY <2>1, <2>3
  <2>4. i < j \/ i = j
    <3> HIDE DEF n
    <3> QED
      BY <1>1
  <2> QED
    BY <2>2, <2>3, <2>4
<1>5. \A i, j \in 1 .. n : at(i) < at(j) => i < j
  <2>1. \A i, j \in 1 .. n : i < j \/ j <= i
    <3> HIDE DEF n
    <3> QED
      BY <1>1
  <2> HIDE DEF at, val, n
  <2> QED
    BY <1>2, <1>4, <2>1
<1>6. ASSUME NEW x, Inner(x)
      PROVE  /\ seg(x) \in 1 .. n - 1 /\ seg(x) \in 1 .. n /\ seg(x) + 1 \in 1 .. n
             /\ at(seg(x)) < x /\ x <= at(seg(x) + 1)
  <2>1. /\ seg(x) \in 1 .. n - 1
        /\ at(seg(x)) < x /\ x <= at(seg(x) + 1)
    BY <1>6, SegmentOf
  <2> HIDE DEF seg, n, at
  <2> QED
    BY <1>1, <2>1
<1>7. ASSUME NEW x, NEW y, Inner(x), Inner(y), x <= y, seg(x) = seg(y)
      PROVE  /\ mid(x) \in Int /\ mid(y) \in Int
             /\ val(seg(x)) <= mid(x) /\ mid(x) <= mid(y) /\ mid(y) <= val(seg(y) + 1)
             /\ y = at(seg(y) + 1) => mid(y) = val(seg(y) + 1)
  <2>1. /\ seg(x) \in 1 .. n - 1
        /\ at(seg(x)) < x /\ y <= at(seg(x) + 1)
        /\ at(seg(x)) \in Int /\ x \in Int /\ y \in Int
    <3> HIDE DEF seg, at, n, val
    <3> QED
      BY <1>2, <1>6, <1>7
  <2>2. at(seg(x)) <= x
    <3> HIDE DEF seg, at, n, val
    <3> QED
      BY <2>1
  <2> QED
    BY <1>7, <2>1, <2>2, ValuesOf
<1>8. ASSUME NEW x \in Inputs
      PROVE  Curve(p)[x] = IF x <= at(1) THEN val(1)
                           ELSE IF x >= at(n) THEN val(n) ELSE Clamp(mid(x))
  BY DEF Curve
<1>9. ASSUME NEW x, Inner(x)
      PROVE  /\ mid(x) \in 0 .. MaxVal /\ Clamp(mid(x)) = mid(x)
             /\ val(seg(x)) <= mid(x) /\ mid(x) <= val(seg(x) + 1)
  <2>1. x <= x
    BY <1>9
  <2>2. mid(x) \in Int /\ val(seg(x)) <= mid(x) /\ mid(x) <= val(seg(x) + 1)
    BY <1>7, <1>9, <2>1
  <2>3. val(seg(x)) \in 0 .. MaxVal /\ val(seg(x) + 1) \in 0 .. MaxVal
    BY <1>2, <1>6, <1>9
  <2> HIDE DEF val, mid, seg
  <2>4. mid(x) \in 0 .. MaxVal
    BY <2>2, <2>3, MaxValAssumption
  <2> QED
    BY <1>3, <2>2, <2>4
<1>10. \A x \in Inputs : x \in Int
  BY SizeAssumption DEF Inputs
<1>11. ASSUME NEW x \in Inputs
       PROVE  \/ x <= at(1) /\ Curve(p)[x] = val(1)
              \/ ~(x <= at(1)) /\ x >= at(n) /\ Curve(p)[x] = val(n)
              \/ Inner(x) /\ Curve(p)[x] = mid(x)
  <2>1. x \in Int /\ at(1) \in Int /\ at(n) \in Int
    BY <1>1, <1>2, <1>10
  <2> HIDE DEF at, n, val, mid
  <2>2. x <= at(1) \/ (~(x <= at(1)) /\ x >= at(n)) \/ (Inner(x) /\ ~(x <= at(1)) /\ ~(x >= at(n)))
    BY <2>1
  <2> QED
    BY <1>8, <1>9, <2>2
<1>12. ASSUME NEW x \in Inputs
       PROVE  Curve(p)[x] \in Int /\ val(1) <= Curve(p)[x] /\ Curve(p)[x] <= val(n)
  <2>1. val(1) \in Int /\ val(n) \in Int /\ val(1) <= val(n)
    BY <1>1, <1>2, <1>3, <1>4
  <2>2. CASE Inner(x) /\ Curve(p)[x] = mid(x)
    <3> DEFINE k == seg(x)
    <3>1. /\ k \in 1 .. n /\ k + 1 \in 1 .. n
          /\ mid(x) \in 0 .. MaxVal /\ val(k) <= mid(x) /\ mid(x) <= val(k + 1)
      BY <1>6, <1>9, <2>2
    <3> HIDE DEF k, at, val, mid, n
    <3>2. 1 <= k /\ k + 1 <= n
      BY <3>1, <1>1
    <3>3. val(1) <= val(k) /\ val(k + 1) <= val(n) /\ val(k) \in Int /\ val(k + 1) \in Int
      BY <1>1, <1>2, <1>3, <1>4, <3>1, <3>2
    <3> QED
      BY <1>3, <2>1, <2>2, <3>1, <3>3
  <2>3. CASE Curve(p)[x] = val(1) \/ Curve(p)[x] = val(n)
    <3> HIDE DEF val, n
    <3> QED
      BY <2>1, <2>3
  <2> HIDE DEF at, val, mid, n, Inner
  <2> QED
    BY <1>11, <2>2, <2>3
<1>13. ASSUME NEW x \in Inputs, NEW y \in Inputs, x <= y
       PROVE  Curve(p)[x] <= Curve(p)[y]
  <2>1. CASE Curve(p)[x] = val(1) \/ Curve(p)[y] = val(n)
    <3> HIDE DEF val, n
    <3> QED
      BY <1>12, <2>1
  <2>2. CASE Inner(x) /\ Curve(p)[x] = mid(x) /\ Inner(y) /\ Curve(p)[y] = mid(y)
    <3> DEFINE j == seg(x)  k == seg(y)
    <3>1. /\ j \in 1 .. n - 1 /\ j + 1 \in 1 .. n /\ at(j) < x /\ x <= at(j + 1)
          /\ k \in 1 .. n - 1 /\ k \in 1 .. n /\ at(k) < y /\ y <= at(k + 1)
          /\ k + 1 \in 1 .. n /\ j \in 1 .. n
      BY <1>6, <2>2
    <3>2. /\ mid(x) \in 0 .. MaxVal /\ mid(x) <= val(j + 1)
          /\ mid(y) \in 0 .. MaxVal /\ val(k) <= mid(y)
      BY <1>9, <2>2
    <3>3. CASE j = k
      BY <1>7, <1>13, <2>2, <3>3
    <3>4. CASE j # k
      <4> HIDE DEF j, k, at, val, mid, n
      <4>1. x \in Int /\ y \in Int /\ at(j) \in Int /\ at(k + 1) \in Int
        BY <1>2, <1>10, <3>1
      <4>2. at(j) < at(k + 1)
        BY <1>13, <3>1, <4>1
      <4>3. j < k + 1
        BY <1>5, <3>1, <4>2
      <4>4. j + 1 <= k
        BY <1>1, <3>1, <3>4, <4>3
      <4>5. val(j + 1) <= val(k) /\ val(j + 1) \in Int /\ val(k) \in Int
        BY <1>2, <1>3, <1>4, <3>1, <4>4
      <4>6. mid(x) \in Int /\ mid(y) \in Int
        BY <1>3, <3>2
      <4> QED
        BY <2>2, <3>2, <4>5, <4>6
    <3> QED
      BY <3>3, <3>4
  <2>3. CASE ~(x <= at(1)) /\ x >= at(n) /\ Curve(p)[x] = val(n)
    <3>1. x \in Int /\ y \in Int /\ at(1) \in Int /\ at(n) \in Int
      BY <1>1, <1>2, <1>10
    <3> HIDE DEF at, val, mid, n
    <3>2. ~(y <= at(1)) /\ y >= at(n)
      BY <1>13, <2>3, <3>1
    <3>3. Curve(p)[y] = val(n)
      BY <1>8, <3>2
    <3> QED
      BY <2>1, <3>3
  <2>4. CASE Inner(x) /\ y <= at(1)
    <3>1. x \in Int /\ y \in Int /\ at(1) \in Int /\ at(1) < x
      BY <1>1, <1>2, <1>10, <2>4
    <3> HIDE DEF at, val, mid, n
    <3> QED
      BY <1>13, <2>4, <3>1
  <2> HIDE DEF at, val, mid, n, Inner
  <2> QED
    BY <1>11, <2>1, <2>2, <2>3, <2>4
<1>14. ASSUME NEW i \in 1 .. n, at(i) \in Inputs
       PROVE  Curve(p)[at(i)] = val(i)
  <2> DEFINE x == at(i)
  <2>1. x \in Int /\ at(1) \in Int /\ at(n) \in Int /\ at(1) <= x /\ x <= at(n)
    <3>1. 1 <= i /\ i <= n
      <4> HIDE DEF n
      <4> QED
        BY <1>1
    <3> QED
      BY <1>1, <1>2, <1>4, <3>1
  <2>2. CASE i = 1
    <3>1. x <= at(1)
      <4> HIDE DEF at
      <4> QED
        BY <2>1, <2>2
    <3> HIDE DEF at, val, mid, n
    <3> QED
      BY <1>8, <1>14, <2>2, <3>1
  <2>3. CASE i # 1 /\ i = n
    <3>1. at(1) < at(n)
      <4>1. 1 < i
        <5> HIDE DEF n
        <5> QED
          BY <1>1, <2>3
      <4> QED
        BY <1>1, <2>3, <4>1, LaterOf
    <3> HIDE DEF at, val, mid, n
    <3>2. ~(x <= at(1)) /\ x >= at(n)
      BY <2>1, <2>3, <3>1
    <3> QED
      BY <1>8, <1>14, <2>3, <3>2
  <2>4. CASE i # 1 /\ i # n
    <3> DEFINE k == seg(x)
    <3>1. 1 < i /\ i < n
      <4> HIDE DEF n
      <4> QED
        BY <1>1, <2>4
    <3>2. Inner(x)
      <4>1. at(1) < at(i) /\ at(i) < at(n)
        BY <1>1, <3>1, LaterOf
      <4> QED
        BY <2>1, <4>1
    <3>3. /\ k \in 1 .. n /\ k + 1 \in 1 .. n /\ k \in 1 .. n - 1
          /\ at(k) < at(i) /\ at(i) <= at(k + 1)
      BY <1>6, <3>2
    <3>4. i = k + 1
      <4>1. k < i
        <5> HIDE DEF at, n, k
        <5> QED
          BY <1>5, <3>3
      <4>2. ~(k + 1 < i)
        <5> SUFFICES ASSUME k + 1 < i PROVE FALSE
          OBVIOUS
        <5>1. at(k + 1) < at(i)
          <6> HIDE DEF k
          <6> QED
            BY <3>3, LaterOf
        <5>2. at(k + 1) \in Int /\ at(i) \in Int
          BY <1>2, <3>3
        <5> HIDE DEF at, k
        <5> QED
          BY <3>3, <5>1, <5>2
      <4> HIDE DEF at, n, k
      <4> QED
        BY <1>1, <3>3, <4>1, <4>2
    <3>5. mid(x) = val(k + 1)
      <4>1. x <= x
        <5> HIDE DEF x
        <5> QED
          BY <2>1
      <4>2. x = at(k + 1)
        BY <3>4
      <4> HIDE DEF at, val, mid, Inner, x
      <4> QED
        BY <1>7, <3>2, <4>1, <4>2
    <3>6. Curve(p)[x] = mid(x)
      <4>1. ~(x <= at(1)) /\ ~(x >= at(n))
        <5> HIDE DEF at, n
        <5> QED
          BY <2>1, <3>2
      <4>2. Clamp(mid(x)) = mid(x)
        BY <1>9, <3>2
      <4> HIDE DEF at, val, mid, n, Inner
      <4> QED
        BY <1>8, <1>14, <4>1, <4>2
    <3> QED
      BY <3>4, <3>5, <3>6
  <2> QED
    BY <2>2, <2>3, <2>4
<1> QED
  BY <1>13, <1>14

----------------------------------------------------------------------------
(* What the handlers do to the points of one channel. *)

\* One point of a channel is replaced; between its neighbours it keeps the order.
LEMMA MovedOf ==
    ASSUME NEW p \in Seq(ControlPoints), NEW i \in 1 .. Len(p), NEW pt \in ControlPoints
    PROVE  /\ [p EXCEPT ![i] = pt] \in Seq(ControlPoints)
           /\ Len([p EXCEPT ![i] = pt]) = Len(p)
           /\ InOrder(p) /\ Between(p, i, pt.x) => InOrder([p EXCEPT ![i] = pt])
<1> DEFINE q == [p EXCEPT ![i] = pt]
<1>1. /\ q \in Seq(ControlPoints) /\ Len(q) = Len(p)
      /\ \A j \in 1 .. Len(p) : q[j] = IF j = i THEN pt ELSE p[j]
  BY ExceptSeq
<1>2. Len(p) \in Nat
  BY PlacesOf
<1> HIDE DEF q
<1>3. ASSUME InOrder(p), Between(p, i, pt.x), NEW j \in 1 .. Len(p) - 1
      PROVE  q[j].x < q[j + 1].x
  <2>1. j \in 1 .. Len(p) /\ j + 1 \in 1 .. Len(p) /\ j # j + 1
    BY <1>2
  <2>2. CASE j = i
    <3>1. q[j] = pt /\ q[j + 1] = p[i + 1] /\ i < Len(p)
      BY <1>1, <1>2, <2>1, <2>2
    <3> QED
      BY <1>3, <3>1 DEF Between
  <2>3. CASE j + 1 = i
    <3>1. q[j + 1] = pt /\ q[j] = p[j] /\ j = i - 1 /\ i > 1
      BY <1>1, <1>2, <2>1, <2>3
    <3>2. pt.x > p[i - 1].x
      BY <1>3, <3>1 DEF Between
    <3>3. p[j].x \in Int /\ pt.x \in Int
      BY <2>1, PlacesOf DEF ControlPoints
    <3> QED
      BY <3>1, <3>2, <3>3
  <2>4. CASE j # i /\ j + 1 # i
    <3>1. q[j] = p[j] /\ q[j + 1] = p[j + 1]
      BY <1>1, <2>1, <2>4
    <3>2. p[j].x < p[j + 1].x
      BY <1>3 DEF InOrder
    <3> QED
      BY <3>1, <3>2
  <2> QED
    BY <2>2, <2>3, <2>4
<1> QED
  BY <1>1, <1>3 DEF InOrder, q

\* Where a dragged point comes to be: between its neighbours, if there is room.
LEMMA PushedOf ==
    ASSUME NEW p \in Seq(ControlPoints), NEW i \in 1 .. Len(p), NEW x \in Int
    PROVE  /\ Pushed(p, i, x) \in Int
           /\ InOrder(p) => Between(p, i, Pushed(p, i, x))
<1> DEFINE n == Len(p)
           at(j) == p[j].x
           right == IF i > 1 /\ x <= at(i - 1) THEN at(i - 1) + 1 ELSE x
           there == IF i < n /\ right >= at(i + 1) THEN at(i + 1) - 1 ELSE right
<1>1. n \in Nat /\ i \in 1 .. n /\ \A j \in 1 .. n : at(j) \in Int
  BY PlacesOf
<1>2. Pushed(p, i, x) = there
  BY DEF Pushed
<1>3. InOrder(p) => \A j \in 1 .. n - 1 : at(j) < at(j + 1)
  BY DEF InOrder
<1>4. Between(p, i, there) <=> (i > 1 => there > at(i - 1)) /\ (i < n => there < at(i + 1))
  <2> HIDE DEF there
  <2> QED
    BY DEF Between
<1> HIDE DEF n, at
<1>5. (i > 1 => at(i - 1) \in Int) /\ (i < n => at(i + 1) \in Int)
  BY <1>1
<1>6. right \in Int /\ there \in Int
  BY <1>5
<1>7. ASSUME InOrder(p) PROVE (i > 1 => there > at(i - 1)) /\ (i < n => there < at(i + 1))
  <2>1. i > 1 => at(i - 1) < at(i)
    BY <1>1, <1>3, <1>7
  <2>2. i < n => at(i) < at(i + 1)
    BY <1>1, <1>3, <1>7
  <2> QED
    BY <1>1, <1>5, <2>1, <2>2
<1> HIDE DEF there
<1> QED
  BY <1>2, <1>4, <1>6, <1>7

\* A linked channel that follows.
LEMMA FollowOf ==
    ASSUME NEW p \in Seq(ControlPoints), NEW i \in 1 .. Len(p), NEW dx \in Int, NEW dy \in Int
    PROVE  /\ Follow(p, i, dx, dy) \in Seq(ControlPoints)
           /\ Len(Follow(p, i, dx, dy)) = Len(p)
           /\ InOrder(p) => InOrder(Follow(p, i, dx, dy))
<1> DEFINE pt == Point(p[i].x + dx, Clamp(p[i].y + dy))
<1>1. p[i].x + dx \in Int /\ p[i].y + dy \in Int
  <2>1. p[i].x \in Int /\ p[i].y \in Int
    BY PlacesOf, MaxValAssumption
  <2> QED
    BY <2>1
<1>2. pt \in ControlPoints /\ pt.x = p[i].x + dx
  BY <1>1, ClampOf, PointOf
<1>3. Follow(p, i, dx, dy) =
        IF Between(p, i, p[i].x + dx) THEN [p EXCEPT ![i] = pt] ELSE p
  BY DEF Follow
<1> HIDE DEF pt
<1> QED
  BY <1>2, <1>3, MovedOf

\* A point put into the gap it lies in keeps the order.
LEMMA InsertedOf ==
    ASSUME NEW p \in Seq(ControlPoints), NEW i \in 1 .. Len(p), NEW pt \in ControlPoints
    PROVE  /\ Insert(p, i, pt) \in Seq(ControlPoints)
           /\ Len(Insert(p, i, pt)) = Len(p) + 1
           /\ InOrder(p) /\ i > 1 /\ p[i - 1].x < pt.x /\ pt.x < p[i].x => InOrder(Insert(p, i, pt))
<1> DEFINE q == InsertAt(p, i, pt)
           n == Len(p)
<1>1. n \in Nat /\ i \in 1 .. n /\ i \in 1 .. n + 1
  BY PlacesOf
<1>2. /\ q \in Seq(ControlPoints) /\ Len(q) = n + 1
      /\ \A j \in 1 .. n + 1 : q[j] = IF j < i THEN p[j] ELSE IF j = i THEN pt ELSE p[j - 1]
  <2>1. q \in Seq(ControlPoints)
    BY <1>1, InsertAtProperties
  <2>2. Len(q) = n + 1
    BY <1>1, InsertAtProperties
  <2>3. ASSUME NEW j \in 1 .. n + 1
        PROVE  q[j] = IF j < i THEN p[j] ELSE IF j = i THEN pt ELSE p[j - 1]
    BY <1>1, InsertAtProperties
  <2> QED
    BY <2>1, <2>2, <2>3
<1>3. Insert(p, i, pt) = q
  BY <1>1 DEF Insert
<1> HIDE DEF q
<1>4. ASSUME InOrder(p), i > 1, p[i - 1].x < pt.x, pt.x < p[i].x, NEW j \in 1 .. n
      PROVE  q[j].x < q[j + 1].x
  <2>1. j \in 1 .. n + 1 /\ j + 1 \in 1 .. n + 1
    BY <1>1
  <2>2. \A k \in 1 .. n - 1 : p[k].x < p[k + 1].x
    BY <1>4 DEF InOrder
  <2> HIDE DEF n
  <2>3. CASE j + 1 < i
    <3>1. q[j] = p[j] /\ q[j + 1] = p[j + 1] /\ j \in 1 .. n - 1
      BY <1>1, <1>2, <2>1, <2>3
    <3> QED
      BY <2>2, <3>1
  <2>4. CASE j + 1 = i
    <3>1. q[j] = p[i - 1] /\ q[j + 1] = pt
      <4>1. j < i /\ ~(j + 1 < i) /\ j = i - 1
        BY <1>1, <2>4
      <4> QED
        BY <1>2, <2>1, <2>4, <4>1
    <3> QED
      BY <1>4, <3>1
  <2>5. CASE j = i
    <3>1. q[j] = pt /\ q[j + 1] = p[i]
      <4>1. ~(j < i) /\ ~(j + 1 < i) /\ j + 1 # i /\ (j + 1) - 1 = i
        BY <1>1, <2>5
      <4> QED
        BY <1>2, <2>1, <2>5, <4>1
    <3> QED
      BY <1>4, <3>1
  <2>6. CASE j > i
    <3>1. /\ ~(j < i) /\ j # i /\ ~(j + 1 < i) /\ j + 1 # i
          /\ (j + 1) - 1 = (j - 1) + 1 /\ j - 1 \in 1 .. n - 1
      BY <1>1, <2>6
    <3>2. q[j] = p[j - 1] /\ q[j + 1] = p[(j - 1) + 1]
      BY <1>2, <2>1, <3>1
    <3> QED
      BY <2>2, <3>1, <3>2
  <2>7. j + 1 < i \/ j + 1 = i \/ j = i \/ j > i
    BY <1>1
  <2> QED
    BY <2>3, <2>4, <2>5, <2>6, <2>7
<1>5. (n + 1) - 1 = n
  BY <1>1
<1> QED
  BY <1>2, <1>3, <1>4, <1>5 DEF InOrder

\* A point gets into a channel wherever the first visible one has the gap.
LEMMA InsertOf ==
    ASSUME NEW p \in Seq(ControlPoints), NEW i \in Nat \ {0}, NEW pt \in ControlPoints
    PROVE  /\ Insert(p, i, pt) \in Seq(ControlPoints)
           /\ Len(Insert(p, i, pt)) = Len(p) + 1
<1>1. Len(p) \in Nat
  BY PlacesOf
<1>2. CASE i \in 1 .. Len(p)
  BY <1>2, InsertedOf
<1>3. CASE i \notin 1 .. Len(p) /\ i \in 1 .. Len(p) + 1
  <2>1. InsertAt(p, i, pt) \in Seq(ControlPoints) /\ Len(InsertAt(p, i, pt)) = Len(p) + 1
    BY <1>3, InsertAtProperties
  <2>2. ~(i > Len(p) + 1)
    BY <1>1, <1>3
  <2> QED
    BY <2>1, <2>2 DEF Insert
<1>4. CASE i \notin 1 .. Len(p) + 1
  <2>1. i > Len(p) + 1
    BY <1>1, <1>4
  <2>2. Insert(p, i, pt) = Append(p, pt)
    BY <2>1 DEF Insert
  <2> QED
    BY <2>2
<1> QED
  BY <1>2, <1>3, <1>4

\* Nor does taking a point out disturb it.
LEMMA RemovedOf ==
    ASSUME NEW p \in Seq(ControlPoints), NEW i \in 1 .. Len(p)
    PROVE  /\ RemoveAt(p, i) \in Seq(ControlPoints)
           /\ Len(RemoveAt(p, i)) = Len(p) - 1
           /\ InOrder(p) => InOrder(RemoveAt(p, i))
<1> DEFINE q == RemoveAt(p, i)
           n == Len(p)
           at(j) == p[j].x
<1>1. n \in Nat /\ i \in 1 .. n /\ \A j \in 1 .. n : at(j) \in Int
  BY PlacesOf
<1>2. /\ q \in Seq(ControlPoints) /\ Len(q) = n - 1
      /\ \A j \in 1 .. n - 1 : q[j] = IF j < i THEN p[j] ELSE p[j + 1]
  BY RemoveAtProperties
<1> HIDE DEF q
<1>3. ASSUME InOrder(p), NEW j \in 1 .. (n - 1) - 1
      PROVE  q[j].x < q[j + 1].x
  <2>1. /\ j \in 1 .. n - 1 /\ j + 1 \in 1 .. n - 1
        /\ j \in 1 .. n /\ j + 1 \in 1 .. n /\ (j + 1) + 1 \in 1 .. n
    BY <1>1
  <2>2. at(j) < at(j + 1) /\ at(j + 1) < at((j + 1) + 1)
    BY <1>3, <2>1 DEF InOrder
  <2>3. q[j].x = at(j) \/ (q[j].x = at(j + 1) /\ ~(j < i))
    BY <1>2, <2>1
  <2>4. q[j + 1].x = at((j + 1) + 1) \/ (q[j + 1].x = at(j + 1) /\ j + 1 < i)
    BY <1>2, <2>1
  <2> HIDE DEF at, n
  <2>5. at(j) \in Int /\ at(j + 1) \in Int /\ at((j + 1) + 1) \in Int
    BY <1>1, <2>1
  <2>6. ~(~(j < i) /\ j + 1 < i)
    BY <1>1, <2>1
  <2> QED
    BY <2>2, <2>3, <2>4, <2>5, <2>6
<1> QED
  BY <1>2, <1>3 DEF InOrder, q

\* Where a double click puts the point.
LEMMA PlaceOf ==
    ASSUME NEW p \in Seq(ControlPoints), Len(p) > 0, NEW x \in Int
    PROVE  Place(p, x) \in 1 .. Len(p)
<1> DEFINE n == Len(p)
           gaps == {i \in 1 .. n - 1 : x > p[i].x /\ x < p[i + 1].x}
           first == CHOOSE i \in gaps : \A j \in gaps : i <= j
<1>1. n \in Nat /\ n > 0
  BY PlacesOf
<1>2. Place(p, x) = IF gaps = {} THEN n ELSE 1 + first
  BY DEF Place
<1>3. gaps \subseteq 1 .. n - 1
  OBVIOUS
<1> HIDE DEF n, gaps
<1>4. gaps # {} => first \in gaps
  <2>1. gaps \subseteq Nat
    BY <1>1, <1>3
  <2> QED
    BY <2>1, LeastMember
<1> HIDE DEF first
<1>5. gaps # {} => 1 + first \in 1 .. n
  <2>1. ASSUME NEW i \in 1 .. n - 1 PROVE 1 + i \in 1 .. n
    BY <1>1
  <2> QED
    BY <1>3, <1>4, <2>1
<1>6. n \in 1 .. n
  BY <1>1
<1> QED
  BY <1>2, <1>5, <1>6 DEF n

\* A place kept off the ends is one of the range.
LEMMA InsideOf == ASSUME NEW x \in Int PROVE Inside(x) \in Inputs /\ Inside(x) \in Int
BY SizeAssumption DEF Inside, Inputs

\* The straight line that every channel starts as.
LEMMA LineOf ==
    /\ Identity \in [Channels -> Seq(ControlPoints)]
    /\ \A c \in Channels : Len(Identity[c]) = 2 /\ InOrder(Identity[c])
<1> DEFINE a == Point(0, 0)
           b == Point(Size - 1, MaxVal)
<1>1. a \in ControlPoints /\ b \in ControlPoints /\ a.x = 0 /\ b.x = Size - 1
  BY SizeAssumption, MaxValAssumption, PointOf
<1>2. makeLinearPoints = <<a, b>>
  BY DEF makeLinearPoints
<1>3. a.x < b.x
  BY <1>1, SizeAssumption
<1> HIDE DEF a, b
<1>4. <<a, b>> \in Seq(ControlPoints) /\ Len(<<a, b>>) = 2 /\ <<a, b>>[1] = a /\ <<a, b>>[2] = b
  BY <1>1
<1>5. InOrder(<<a, b>>)
  BY <1>3, <1>4 DEF InOrder
<1> QED
  BY <1>2, <1>4, <1>5 DEF Identity

----------------------------------------------------------------------------
(* The invariant. *)

\* The page is broken just when the points, the selected and the dragged one it holds
\* cannot be drawn.
DrawInv == broken = DrawingThrows(curPoints, selected, dragged)

\* While a point is dragged no other is selected.
DragInv == dragged # NoPoint => selected \in {NoPoint, dragged}

IndInv == TypeOK /\ DrawInv /\ DragInv

\* A handle is not the lack of one.
LEMMA HandleOf ==
    ASSUME NEW c \in Channels, NEW i
    PROVE  /\ Handle(c, i) # NoPoint
           /\ Handle(c, i).ch = c /\ Handle(c, i).idx = i
<1>1. c # 0
  BY DEF Channels
<1>2. Handle(c, i).ch = c /\ Handle(c, i).idx = i /\ NoPoint.ch = 0
  BY DEF Handle, NoPoint
<1> QED
  BY <1>1, <1>2

\* What is drawn without an error: every channel has points, and the dragged point, or
\* the selected one when none is dragged, is one of them.
LEMMA DrawnOf ==
    ASSUME IndInv, ~broken
    PROVE  /\ curPoints \in [Channels -> Seq(ControlPoints)]
           /\ \A c \in Channels : curPoints[c] \in Seq(ControlPoints) /\ Len(curPoints[c]) > 0
           /\ dragged # NoPoint =>
                dragged.ch \in Channels /\ dragged.idx \in 1 .. Len(curPoints[dragged.ch])
           /\ dragged = NoPoint /\ selected # NoPoint =>
                selected.ch \in Channels /\ selected.idx \in 1 .. Len(curPoints[selected.ch])
<1>1. /\ curPoints \in [Channels -> Seq(ControlPoints)]
      /\ \A h \in {selected, dragged} : h = NoPoint \/ (h.ch \in Channels /\ h.idx \in Nat \ {0})
  BY DEF IndInv, TypeOK
<1>2. ~DrawingThrows(curPoints, selected, dragged)
  BY Zenon DEF IndInv, DrawInv
<1>3. \A c \in Channels : curPoints[c] # <<>>
  BY <1>2, Zenon DEF DrawingThrows
<1>4. \A c \in Channels : curPoints[c] \in Seq(ControlPoints)
  BY <1>1
<1>5. \A c \in Channels : Len(curPoints[c]) > 0
  <2>1. ASSUME NEW c \in Channels PROVE Len(curPoints[c]) \in Nat \ {0}
    BY <1>3, <1>4, EmptySeq, Zenon
  <2> QED
    BY <2>1
<1>6. ASSUME NEW h \in {selected, dragged}, h # NoPoint,
             ~(h.idx > Len(curPoints[h.ch]))
      PROVE  h.ch \in Channels /\ h.idx \in 1 .. Len(curPoints[h.ch])
  <2>1. h.ch \in Channels /\ h.idx \in Nat \ {0}
    BY <1>1, <1>6, Zenon
  <2>2. Len(curPoints[h.ch]) \in Nat
    BY <1>4, <2>1, LenProperties, Zenon
  <2> QED
    BY <1>6, <2>1, <2>2
<1>7. dragged # NoPoint => ~(dragged.idx > Len(curPoints[dragged.ch]))
  BY <1>2, Zenon DEF DrawingThrows
<1>8. dragged = NoPoint /\ selected # NoPoint => ~(selected.idx > Len(curPoints[selected.ch]))
  BY <1>2, Zenon DEF DrawingThrows
<1> QED
  BY <1>1, <1>4, <1>5, <1>6, <1>7, <1>8, Zenon

\* What can be drawn next.
LEMMA DrawsOf ==
    ASSUME NEW pts \in [Channels -> Seq(ControlPoints)], NEW sel, NEW drag,
           \A c \in Channels : Len(pts[c]) > 0,
           drag # NoPoint => ~(drag.idx > Len(pts[drag.ch])),
           drag = NoPoint /\ sel # NoPoint => ~(sel.idx > Len(pts[sel.ch]))
    PROVE  ~DrawingThrows(pts, sel, drag)
<1>1. \A c \in Channels : pts[c] # <<>>
  <2>1. ~(Len(<<>>) > 0)
    OBVIOUS
  <2> QED
    BY <2>1, Zenon
<1> QED
  BY <1>1, Zenon DEF DrawingThrows

\* The first visible channel.
LEMMA FirstVisibleOf ==
    ASSUME \E c \in Channels : visible[c]
    PROVE  FirstVisible \in Channels /\ visible[FirstVisible]
<1> DEFINE T == {c \in Channels : visible[c]}
<1>1. T \subseteq Nat /\ T # {}
  BY DEF Channels
<1>2. \E m \in T : \A k \in T : m <= k
  <2> HIDE DEF T
  <2> QED
    BY <1>1, LeastMember
<1>3. \E c \in Channels : visible[c] /\ \A d \in Channels : visible[d] => c <= d
  BY <1>2, Zenon
<1> QED
  BY <1>3, Zenon DEF FirstVisible

----------------------------------------------------------------------------
(* What each handler that changes points makes of them. *)

LEMMA MouseMoveOf ==
    ASSUME IndInv, NEW m \in Places, OnMouseMove(m)
    PROVE  /\ curPoints' \in [Channels -> Seq(ControlPoints)]
           /\ \A c \in Channels :
                /\ Len(curPoints'[c]) = Len(curPoints[c])
                /\ InOrder(curPoints[c]) => InOrder(curPoints'[c])
<1> DEFINE ch == dragged.ch
           i  == dragged.idx
           p  == curPoints[ch]
           nx == Pushed(p, i, m.x)
           dx == nx - p[i].x
           dy == m.y - p[i].y
           follows(c) == linked /\ \A d \in Channels : d <= c => i <= Len(curPoints[d])
           moved(c) == IF c = ch THEN [p EXCEPT ![i] = Point(nx, m.y)]
                       ELSE IF follows(c) THEN Follow(curPoints[c], i, dx, dy)
                       ELSE curPoints[c]
<1>1. ~broken /\ dragged # NoPoint /\ curPoints' = [c \in Channels |-> moved(c)]
  BY DEF OnMouseMove, Change
<1>2. /\ \A c \in Channels : curPoints[c] \in Seq(ControlPoints)
      /\ ch \in Channels /\ i \in 1 .. Len(p) /\ p \in Seq(ControlPoints)
  BY <1>1, DrawnOf
<1>3. m.x \in Int /\ m.y \in 0 .. MaxVal
  BY PlacesAssumption, SizeAssumption DEF Inputs
<1>4. nx \in Int /\ (InOrder(p) => Between(p, i, nx))
  <2> HIDE DEF p, i
  <2> QED
    BY <1>2, <1>3, PushedOf
<1>5. dx \in Int /\ dy \in Int
  <2> HIDE DEF nx
  <2>1. p[i].x \in Int /\ p[i].y \in 0 .. MaxVal
    BY <1>2, PlacesOf
  <2> QED
    BY <1>3, <1>4, <2>1, MaxValAssumption
<1> HIDE DEF nx, dx, dy, p, ch, i
<1>6. ASSUME NEW c \in Channels
      PROVE  /\ moved(c) \in Seq(ControlPoints)
             /\ Len(moved(c)) = Len(curPoints[c])
             /\ InOrder(curPoints[c]) => InOrder(moved(c))
  <2>1. CASE c = ch
    <3> DEFINE pt == Point(nx, m.y)
               q  == [p EXCEPT ![i] = pt]
    <3>1. pt \in ControlPoints /\ pt.x = nx
      BY <1>3, <1>4, PointOf
    <3> HIDE DEF pt
    <3>2. q \in Seq(ControlPoints) /\ Len(q) = Len(p) /\ (InOrder(p) => InOrder(q))
      BY <1>2, <1>4, <3>1, MovedOf
    <3>3. moved(c) = q /\ p = curPoints[c]
      BY <2>1 DEF p, pt
    <3> QED
      BY <3>2, <3>3, Zenon
  <2>2. CASE c # ch /\ follows(c)
    <3>1. i \in 1 .. Len(curPoints[c])
      <4>1. c <= c
        BY DEF Channels
      <4>2. i <= Len(curPoints[c])
        BY <2>2, <4>1
      <4>3. Len(curPoints[c]) \in Nat
        BY <1>2, PlacesOf
      <4>4. i \in Nat /\ i > 0
        BY <1>2
      <4> QED
        BY <4>2, <4>3, <4>4
    <3>2. moved(c) = Follow(curPoints[c], i, dx, dy)
      BY <2>2, Zenon
    <3> HIDE DEF moved
    <3> QED
      BY <1>2, <1>5, <3>1, <3>2, FollowOf
  <2>3. CASE c # ch /\ ~follows(c)
    <3>1. moved(c) = curPoints[c]
      BY <2>3, Zenon
    <3> HIDE DEF moved
    <3> QED
      BY <1>2, <3>1
  <2> QED
    BY <2>1, <2>2, <2>3, Zenon
<1> HIDE DEF moved
<1> QED
  BY <1>1, <1>6

LEMMA DblClickOf ==
    ASSUME IndInv, NEW m \in Places, OnDblClick(m)
    PROVE  /\ curPoints' \in [Channels -> Seq(ControlPoints)]
           /\ \A c \in Channels : Len(curPoints'[c]) > 0
           /\ \E c \in Channels, i \in Nat \ {0} :
                selected' = Handle(c, i) /\ ~(i > Len(curPoints'[c]))
           /\ \/ InsertsElsewhere
              \/ \A c \in Channels : InOrder(curPoints[c]) => InOrder(curPoints'[c])
<1> DEFINE x   == Inside(m.x)
           fv  == FirstVisible
           ins == Place(curPoints[fv], x)
           pt(c) == Point(x, IF linked THEN m.y ELSE PointsToRamp(curPoints[c])[x])
           made(c) == IF c \notin Inserted THEN curPoints[c]
                      ELSE Insert(curPoints[c], ins, pt(c))
<1>1. /\ ~broken /\ \E c \in Channels : visible[c]
      /\ selected' = Handle(fv, ins)
      /\ curPoints' = [c \in Channels |-> made(c)]
  BY DEF OnDblClick, Change
<1>2. \A c \in Channels : curPoints[c] \in Seq(ControlPoints) /\ Len(curPoints[c]) > 0
  BY <1>1, DrawnOf
<1>3. fv \in Channels /\ fv \in Inserted
  BY <1>1, FirstVisibleOf DEF Inserted
<1>4. x \in Inputs /\ x \in Int /\ m.y \in 0 .. MaxVal
  BY PlacesAssumption, SizeAssumption, InsideOf DEF Inputs
<1>5. ins \in 1 .. Len(curPoints[fv]) /\ ins \in Nat \ {0}
  <2>1. curPoints[fv] \in Seq(ControlPoints) /\ Len(curPoints[fv]) > 0
    BY <1>2, <1>3
  <2>2. Place(curPoints[fv], x) \in 1 .. Len(curPoints[fv])
    <3> HIDE DEF x
    <3> QED
      BY <1>4, <2>1, PlaceOf
  <2>3. Len(curPoints[fv]) \in Nat
    BY <2>1, PlacesOf
  <2> QED
    BY <2>2, <2>3
<1>6. ASSUME NEW c \in Channels PROVE pt(c) \in ControlPoints /\ pt(c).x = x
  <2> DEFINE y == IF linked THEN m.y ELSE PointsToRamp(curPoints[c])[x]
  <2>1. PointsToRamp(curPoints[c]) \in [Inputs -> 0 .. MaxVal]
    BY <1>2, RampOf
  <2>2. y \in 0 .. MaxVal
    BY <1>4, <2>1
  <2> HIDE DEF x, y
  <2>3. Point(x, y) \in ControlPoints /\ Point(x, y).x = x
    BY <1>4, <2>2, PointOf
  <2> QED
    BY <2>3, Zenon DEF y
<1>7. InsertsElsewhere
      \/ \A c \in Inserted : /\ ins \in 2 .. Len(curPoints[c])
                             /\ curPoints[c][ins - 1].x < x
                             /\ x < curPoints[c][ins].x
  BY Zenon DEF InsertsElsewhere
<1> HIDE DEF x, fv, ins, pt
<1>8. ASSUME NEW c \in Channels
      PROVE  /\ made(c) \in Seq(ControlPoints)
             /\ Len(made(c)) > 0
             /\ c = fv => Len(made(c)) = Len(curPoints[c]) + 1
             /\ InsertsElsewhere \/ (InOrder(curPoints[c]) => InOrder(made(c)))
  <2>1. curPoints[c] \in Seq(ControlPoints) /\ Len(curPoints[c]) > 0 /\ Len(curPoints[c]) \in Nat
    BY <1>2, PlacesOf
  <2>2. CASE c \notin Inserted
    <3>1. made(c) = curPoints[c] /\ c # fv
      BY <1>3, <2>2, Zenon
    <3> HIDE DEF made
    <3> QED
      BY <2>1, <3>1, Zenon
  <2>3. CASE c \in Inserted
    <3>1. made(c) = Insert(curPoints[c], ins, pt(c))
      BY <2>3, Zenon
    <3> HIDE DEF made
    <3>2. made(c) \in Seq(ControlPoints) /\ Len(made(c)) = Len(curPoints[c]) + 1
      BY <1>5, <1>6, <2>1, <3>1, InsertOf
    <3>3. Len(made(c)) > 0
      BY <2>1, <3>2
    <3>4. ASSUME ~InsertsElsewhere, InOrder(curPoints[c]) PROVE InOrder(made(c))
      <4>1. /\ ins \in 2 .. Len(curPoints[c])
            /\ curPoints[c][ins - 1].x < x
            /\ x < curPoints[c][ins].x
        BY <1>7, <2>3, <3>4
      <4>2. ins \in 1 .. Len(curPoints[c]) /\ ins > 1
        BY <2>1, <4>1
      <4> QED
        BY <1>6, <2>1, <3>1, <3>4, <4>1, <4>2, InsertedOf
    <3> QED
      BY <3>2, <3>3, <3>4, Zenon
  <2> QED
    BY <2>2, <2>3, Zenon
<1>9. curPoints' \in [Channels -> Seq(ControlPoints)] /\ \A c \in Channels : curPoints'[c] = made(c)
  <2> HIDE DEF made
  <2> QED
    BY <1>1, <1>8
<1>10. ~(ins > Len(curPoints'[fv]))
  <2>1. Len(curPoints'[fv]) = Len(curPoints[fv]) + 1
    <3> HIDE DEF made
    <3> QED
      BY <1>3, <1>8, <1>9
  <2>2. Len(curPoints[fv]) \in Nat
    BY <1>2, <1>3, PlacesOf
  <2> QED
    BY <1>5, <2>1, <2>2
<1> HIDE DEF made
<1> QED
  BY <1>1, <1>3, <1>5, <1>8, <1>9, <1>10

LEMMA ContextMenuOf ==
    ASSUME IndInv, OnContextMenu
    PROVE  /\ curPoints' \in [Channels -> Seq(ControlPoints)]
           /\ \A c \in Channels :
                /\ Len(curPoints'[c]) > 0
                /\ InOrder(curPoints[c]) => InOrder(curPoints'[c])
<1>1. \A c \in Channels : curPoints[c] \in Seq(ControlPoints) /\ Len(curPoints[c]) > 0
  BY DrawnOf DEF OnContextMenu
<1> DEFINE removed(c, i, d) ==
                IF d = c \/ (linked /\ Len(curPoints[d]) > 2 /\ i <= Len(curPoints[d]))
                THEN RemoveAt(curPoints[d], i)
                ELSE curPoints[d]
<1>2. PICK c \in Channels : \E i \in DOMAIN curPoints[c] :
        /\ Len(curPoints[c]) > 2
        /\ curPoints' = [d \in Channels |-> removed(c, i, d)]
  BY DEF OnContextMenu, Change
<1>3. PICK i \in DOMAIN curPoints[c] :
        /\ Len(curPoints[c]) > 2
        /\ curPoints' = [d \in Channels |-> removed(c, i, d)]
  BY <1>2
<1>4. i \in 1 .. Len(curPoints[c])
  BY <1>1, LenProperties
<1>5. ASSUME NEW d \in Channels
      PROVE  /\ removed(c, i, d) \in Seq(ControlPoints)
             /\ Len(removed(c, i, d)) > 0
             /\ InOrder(curPoints[d]) => InOrder(removed(c, i, d))
  <2>1. Len(curPoints[c]) \in Nat /\ Len(curPoints[d]) \in Nat
    BY <1>1, LenProperties
  <2>2. CASE d = c \/ (linked /\ Len(curPoints[d]) > 2 /\ i <= Len(curPoints[d]))
    <3>1. removed(c, i, d) = RemoveAt(curPoints[d], i)
      BY <2>2, Zenon
    <3> HIDE DEF removed
    <3>2. i \in 1 .. Len(curPoints[d]) /\ Len(curPoints[d]) > 2
      BY <1>3, <1>4, <2>1, <2>2
    <3>3. /\ RemoveAt(curPoints[d], i) \in Seq(ControlPoints)
          /\ Len(RemoveAt(curPoints[d], i)) = Len(curPoints[d]) - 1
          /\ InOrder(curPoints[d]) => InOrder(RemoveAt(curPoints[d], i))
      BY <1>1, <3>2, RemovedOf
    <3> QED
      BY <2>1, <3>1, <3>2, <3>3
  <2>3. CASE ~(d = c \/ (linked /\ Len(curPoints[d]) > 2 /\ i <= Len(curPoints[d])))
    <3>1. removed(c, i, d) = curPoints[d]
      BY <2>3, Zenon
    <3> HIDE DEF removed
    <3> QED
      BY <1>1, <3>1
  <2> QED
    BY <2>2, <2>3, Zenon
<1> HIDE DEF removed
<1> QED
  BY <1>3, <1>5

----------------------------------------------------------------------------
(* The invariant holds. *)

\* What a handle may be, and what the handles of a state are.
IsHandle(h) == h = NoPoint \/ (h.ch \in Channels /\ h.idx \in Nat \ {0})

\* Every action keeps the types.
LEMMA TypeStep == IndInv /\ [Next]_vars => TypeOK'
<1> SUFFICES ASSUME IndInv, [Next]_vars PROVE TypeOK'
  OBVIOUS
<1>1. /\ curPoints \in [Channels -> Seq(ControlPoints)]
      /\ visible \in [Channels -> BOOLEAN] /\ linked \in BOOLEAN
      /\ IsHandle(selected) /\ IsHandle(dragged)
      /\ broken \in BOOLEAN /\ edits \in 0 .. MaxEdits
  BY DEF IndInv, TypeOK, IsHandle
<1>2. (/\ curPoints' \in [Channels -> Seq(ControlPoints)]
       /\ visible' \in [Channels -> BOOLEAN] /\ linked' \in BOOLEAN
       /\ IsHandle(selected') /\ IsHandle(dragged')
       /\ broken' \in BOOLEAN /\ edits' \in 0 .. MaxEdits) => TypeOK'
  BY DEF TypeOK, IsHandle
<1>3. IsHandle(NoPoint)
  BY DEF IsHandle
<1>4. ASSUME NEW c \in Channels, NEW i \in Nat \ {0} PROVE IsHandle(Handle(c, i))
  BY HandleOf DEF IsHandle
<1>5. Redraw => broken' \in BOOLEAN
  <2>1. DrawingThrows(curPoints', selected', dragged') \in BOOLEAN
    BY DEF DrawingThrows
  <2> QED
    BY <2>1 DEF Redraw
<1>6. \A pts : Change(pts) => edits' \in 0 .. MaxEdits /\ curPoints' = pts
  BY <1>1, BoundAssumption DEF Change
<1>7. CASE OnMouseDown
  <2>1. /\ UNCHANGED <<curPoints, viewVars, edits>> /\ Redraw
        /\ IsHandle(selected') /\ IsHandle(dragged')
    <3>1. \A c \in Channels : DOMAIN curPoints[c] \subseteq Nat \ {0}
      <4>1. ASSUME NEW c \in Channels PROVE DOMAIN curPoints[c] = 1 .. Len(curPoints[c])
        BY <1>1, LenProperties
      <4> QED
        BY <4>1
    <3> QED
      BY <1>1, <1>3, <1>4, <1>7, <3>1, Zenon DEF OnMouseDown
  <2> QED
    BY <1>1, <1>2, <1>5, <2>1 DEF viewVars
<1>8. ASSUME NEW m \in Places, OnMouseMove(m) PROVE TypeOK'
  <2>1. curPoints' \in [Channels -> Seq(ControlPoints)]
    BY <1>8, MouseMoveOf
  <2>2. UNCHANGED <<viewVars, selected, dragged>> /\ Redraw /\ edits' \in 0 .. MaxEdits
    BY <1>6, <1>8, Zenon DEF OnMouseMove
  <2> QED
    BY <1>1, <1>2, <1>5, <2>1, <2>2 DEF viewVars
<1>9. CASE OnMouseUp
  <2>1. UNCHANGED <<curPoints, viewVars, selected, edits>> /\ Redraw /\ dragged' = NoPoint
    BY <1>9, Zenon DEF OnMouseUp
  <2> QED
    BY <1>1, <1>2, <1>3, <1>5, <2>1 DEF viewVars
<1>10. ASSUME NEW m \in Places, OnDblClick(m) PROVE TypeOK'
  <2>1. /\ curPoints' \in [Channels -> Seq(ControlPoints)]
        /\ \E c \in Channels, i \in Nat \ {0} : selected' = Handle(c, i)
    BY <1>10, DblClickOf, Zenon
  <2>2. UNCHANGED <<viewVars, dragged>> /\ Redraw /\ edits' \in 0 .. MaxEdits
    BY <1>6, <1>10, Zenon DEF OnDblClick
  <2>3. IsHandle(selected')
    BY <1>4, <2>1, Zenon
  <2> QED
    BY <1>1, <1>2, <1>5, <2>1, <2>2, <2>3 DEF viewVars
<1>11. CASE OnContextMenu
  <2>1. curPoints' \in [Channels -> Seq(ControlPoints)]
    BY <1>11, ContextMenuOf
  <2>2. /\ UNCHANGED <<viewVars, dragged>> /\ Redraw /\ edits' \in 0 .. MaxEdits
        /\ selected' = NoPoint
    BY <1>6, <1>11, Zenon DEF OnContextMenu, Deselected
  <2> QED
    BY <1>1, <1>2, <1>3, <1>5, <2>1, <2>2 DEF viewVars
<1>12. ASSUME NEW c \in Channels, ToggleVisible(c) PROVE TypeOK'
  <2>1. visible' \in [Channels -> BOOLEAN]
    BY <1>1, <1>12 DEF ToggleVisible
  <2> QED
    BY <1>1, <1>2, <1>12, <2>1 DEF ToggleVisible
<1>13. CASE ToggleLinked
  <2>1. linked' \in BOOLEAN /\ visible' \in [Channels -> BOOLEAN]
    BY <1>1, <1>13 DEF ToggleLinked
  <2> QED
    BY <1>1, <1>2, <1>13, <2>1 DEF ToggleLinked
<1>14. CASE LoadIdentity
  <2>1. /\ curPoints' = Identity /\ edits' \in 0 .. MaxEdits
        /\ UNCHANGED <<viewVars, selected, dragged>> /\ Redraw
    BY <1>6, <1>14, Zenon DEF LoadIdentity
  <2> QED
    BY <1>1, <1>2, <1>5, <2>1, LineOf DEF viewVars
<1>15. ASSUME NEW p \in Presets, PresetArrives(p) PROVE TypeOK'
  <2>1. /\ curPoints' = p /\ edits' \in 0 .. MaxEdits
        /\ UNCHANGED <<viewVars, selected, dragged>> /\ Redraw
    BY <1>6, <1>15, Zenon DEF PresetArrives
  <2> QED
    BY <1>1, <1>2, <1>5, <2>1, PresetsAssumption DEF viewVars
<1>16. CASE Reload
  <2>1. 0 \in 0 .. MaxEdits
    BY BoundAssumption
  <2> QED
    BY <1>2, <1>3, <1>16, <2>1, LineOf DEF Reload
<1>17. CASE UNCHANGED vars
  BY <1>1, <1>2, <1>17 DEF vars, viewVars
<1> QED
  BY <1>7, <1>8, <1>9, <1>10, <1>11, <1>12, <1>13, <1>14, <1>15, <1>16, <1>17, Zenon DEF Next

\* The page a reload shows, like the one first shown, can be drawn.
LEMMA FreshDraws == DrawingThrows(Identity, NoPoint, NoPoint) = FALSE
<1>1. Identity \in [Channels -> Seq(ControlPoints)]
  BY LineOf
<1>2. \A c \in Channels : Len(Identity[c]) > 0
  <2>1. 2 > 0
    OBVIOUS
  <2> QED
    BY <2>1, LineOf, Zenon
<1>3. ~DrawingThrows(Identity, NoPoint, NoPoint)
  BY <1>1, <1>2, DrawsOf, Zenon
<1>4. DrawingThrows(Identity, NoPoint, NoPoint) \in BOOLEAN
  BY DEF DrawingThrows
<1> QED
  BY <1>3, <1>4

\* Every action draws the page anew, or leaves what is drawn as it is.
LEMMA DrawStep == IndInv /\ [Next]_vars => DrawInv'
<1> SUFFICES ASSUME IndInv, [Next]_vars PROVE DrawInv'
  OBVIOUS
<1>1. CASE Redraw
  BY <1>1, Zenon DEF Redraw, DrawInv
<1>2. CASE UNCHANGED <<curPoints, selected, dragged, broken>>
  BY <1>2, Zenon DEF IndInv, DrawInv
<1>3. CASE Reload
  <2>1. curPoints' = Identity /\ selected' = NoPoint /\ dragged' = NoPoint /\ broken' = FALSE
    BY <1>3, Zenon DEF Reload
  <2> QED
    BY <2>1, FreshDraws, Zenon DEF DrawInv
<1>4. Redraw \/ Reload \/ UNCHANGED <<curPoints, selected, dragged, broken>>
  BY Zenon DEF Next, OnMouseDown, OnMouseMove, OnMouseUp, OnDblClick, OnContextMenu,
     ToggleVisible, ToggleLinked, LoadIdentity, PresetArrives, vars
<1> QED
  BY <1>1, <1>2, <1>3, <1>4, Zenon

\* A drag begins with its point selected, and lets nothing else be selected.
LEMMA DragStep == IndInv /\ [Next]_vars => DragInv'
<1> SUFFICES ASSUME IndInv, [Next]_vars, dragged' # NoPoint PROVE selected' \in {NoPoint, dragged'}
  BY DEF DragInv
<1>1. dragged # NoPoint => selected \in {NoPoint, dragged}
  BY Zenon DEF IndInv, DragInv
<1>2. CASE selected' = NoPoint \/ selected' = dragged'
  BY <1>2
<1>3. CASE UNCHANGED <<selected, dragged>>
  BY <1>1, <1>3
<1>4. \/ selected' = NoPoint \/ selected' = dragged'
      \/ UNCHANGED <<selected, dragged>>
  BY Zenon DEF Next, OnMouseDown, OnMouseMove, OnMouseUp, OnDblClick, OnContextMenu, Deselected,
     ToggleVisible, ToggleLinked, LoadIdentity, PresetArrives, Reload, vars
<1> QED
  BY <1>2, <1>3, <1>4, Zenon

LEMMA InitInv == Init => IndInv
<1> SUFFICES ASSUME Init PROVE IndInv
  OBVIOUS
<1>1. TypeOK
  <2>1. Identity \in [Channels -> Seq(ControlPoints)]
    BY LineOf
  <2>2. 0 \in 0 .. MaxEdits
    BY BoundAssumption
  <2> QED
    BY <2>1, <2>2 DEF Init, TypeOK
<1>2. DrawInv
  BY FreshDraws, Zenon DEF Init, DrawInv
<1>3. DragInv
  BY DEF Init, DragInv
<1> QED
  BY <1>1, <1>2, <1>3 DEF IndInv

\* The invariant of the editor, whatever the presets, the mouse and the bounds.
THEOREM EditorInvariant == Spec => []IndInv
<1>1. IndInv /\ [Next]_vars => IndInv'
  BY TypeStep, DrawStep, DragStep, Zenon DEF IndInv
<1> QED
  BY <1>1, InitInv, PTL DEF Spec

\* Every variable keeps its type: whatever is dragged, added, linked or loaded, the
\* points of each channel (curPoints of state.svelte.ts) are a sequence of points
\* whose value has 16 bits.
THEOREM EditorTypes == Spec => []TypeOK
<1>1. IndInv => TypeOK
  BY DEF IndInv
<1> QED
  BY <1>1, EditorInvariant, PTL

----------------------------------------------------------------------------
(* What the steps may not do. *)

\* What makes drawing the page throw: of all the handlers only those that put other
\* points in place, since the handle kept may then point behind the last of them.
LEMMA BreakStep ==
    ASSUME IndInv, Next, ~broken, broken'
    PROVE  LoadIdentity \/ \E p \in Presets : PresetArrives(p)
<1>1. SUFFICES ASSUME ~LoadIdentity, ~ \E p \in Presets : PresetArrives(p) PROVE FALSE
  OBVIOUS
<1>2. curPoints' \in [Channels -> Seq(ControlPoints)]
  BY TypeStep DEF TypeOK
<1>3. /\ \A c \in Channels : curPoints[c] \in Seq(ControlPoints) /\ Len(curPoints[c]) > 0
      /\ dragged # NoPoint =>
            dragged.ch \in Channels /\ dragged.idx \in 1 .. Len(curPoints[dragged.ch])
      /\ dragged = NoPoint /\ selected # NoPoint =>
            selected.ch \in Channels /\ selected.idx \in 1 .. Len(curPoints[selected.ch])
  BY DrawnOf
<1>4. ASSUME NEW h, h.ch \in Channels, h.idx \in 1 .. Len(curPoints[h.ch])
      PROVE  ~(h.idx > Len(curPoints[h.ch]))
  <2>1. Len(curPoints[h.ch]) \in Nat
    BY <1>3, <1>4, LenProperties
  <2> QED
    BY <1>4, <2>1
<1>5. /\ dragged # NoPoint => ~(dragged.idx > Len(curPoints[dragged.ch]))
      /\ dragged = NoPoint /\ selected # NoPoint => ~(selected.idx > Len(curPoints[selected.ch]))
  BY <1>3, <1>4, Zenon
<1>6. SUFFICES ASSUME Redraw
      PROVE /\ \A c \in Channels : Len(curPoints'[c]) > 0
            /\ dragged' # NoPoint => ~(dragged'.idx > Len(curPoints'[dragged'.ch]))
            /\ dragged' = NoPoint /\ selected' # NoPoint =>
                    ~(selected'.idx > Len(curPoints'[selected'.ch]))
  <2>1. Redraw
    BY <1>1, Zenon DEF Next, OnMouseDown, OnMouseMove, OnMouseUp, OnDblClick, OnContextMenu,
       ToggleVisible, ToggleLinked, Reload
  <2>2. DrawingThrows(curPoints', selected', dragged')
    BY <2>1, Zenon DEF Redraw
  <2> QED
    BY <1>2, <1>6, <2>1, <2>2, DrawsOf, Zenon
<1>7. CASE OnMouseDown
  <2>1. curPoints' = curPoints
    BY <1>7, Zenon DEF OnMouseDown
  <2>2. CASE \E c \in Channels : \E i \in DOMAIN curPoints[c] :
                selected' = Handle(c, i) /\ dragged' = Handle(c, i)
    <3>1. PICK c \in Channels : \E i \in DOMAIN curPoints[c] : dragged' = Handle(c, i)
      BY <2>2, Zenon
    <3>2. PICK i \in DOMAIN curPoints[c] : dragged' = Handle(c, i)
      BY <3>1
    <3>3. dragged' # NoPoint /\ dragged'.ch = c /\ dragged'.idx = i
      BY <3>2, HandleOf
    <3>4. i \in 1 .. Len(curPoints[c])
      BY <1>3, LenProperties
    <3> QED
      BY <1>3, <1>4, <2>1, <3>3, <3>4, Zenon
  <2>3. CASE selected' = NoPoint /\ dragged' = dragged
    BY <1>3, <1>5, <2>1, <2>3, Zenon
  <2> QED
    BY <1>7, <2>2, <2>3, Zenon DEF OnMouseDown
<1>8. ASSUME NEW m \in Places, OnMouseMove(m)
      PROVE /\ \A c \in Channels : Len(curPoints'[c]) > 0
            /\ dragged' # NoPoint => ~(dragged'.idx > Len(curPoints'[dragged'.ch]))
            /\ dragged' = NoPoint /\ selected' # NoPoint =>
                    ~(selected'.idx > Len(curPoints'[selected'.ch]))
  <2>1. \A c \in Channels : Len(curPoints'[c]) = Len(curPoints[c])
    BY <1>8, MouseMoveOf, Zenon
  <2>2. dragged # NoPoint /\ dragged' = dragged /\ selected' = selected
    BY <1>8, Zenon DEF OnMouseMove
  <2>3. Len(curPoints'[dragged.ch]) = Len(curPoints[dragged.ch])
    BY <1>3, <2>1, <2>2, Zenon
  <2>4. ~(dragged.idx > Len(curPoints'[dragged.ch]))
    BY <1>5, <2>2, <2>3
  <2>5. \A c \in Channels : Len(curPoints'[c]) > 0
    BY <1>3, <2>1
  <2> QED
    BY <2>2, <2>4, <2>5, Zenon
<1>9. CASE OnMouseUp
  <2>1. /\ dragged # NoPoint /\ curPoints' = curPoints
        /\ selected' = selected /\ dragged' = NoPoint
    BY <1>9, Zenon DEF OnMouseUp
  <2>2. selected \in {NoPoint, dragged}
    BY <2>1, Zenon DEF IndInv, DragInv
  <2> QED
    BY <1>3, <1>5, <2>1, <2>2, Zenon
<1>10. ASSUME NEW m \in Places, OnDblClick(m)
       PROVE /\ \A c \in Channels : Len(curPoints'[c]) > 0
             /\ dragged' # NoPoint => ~(dragged'.idx > Len(curPoints'[dragged'.ch]))
             /\ dragged' = NoPoint /\ selected' # NoPoint =>
                    ~(selected'.idx > Len(curPoints'[selected'.ch]))
  <2>1. dragged' = NoPoint
    BY <1>10, Zenon DEF OnDblClick
  <2>2. PICK c \in Channels, i \in Nat \ {0} :
            selected' = Handle(c, i) /\ ~(i > Len(curPoints'[c]))
    BY <1>10, DblClickOf, Zenon
  <2>3. selected'.ch = c /\ selected'.idx = i
    BY <2>2, HandleOf
  <2>4. \A d \in Channels : Len(curPoints'[d]) > 0
    BY <1>10, DblClickOf, Zenon
  <2> QED
    BY <2>1, <2>2, <2>3, <2>4, Zenon
<1>11. CASE OnContextMenu
  <2>1. dragged' = NoPoint /\ selected' = NoPoint
    BY <1>11, Zenon DEF OnContextMenu, Deselected
  <2>2. \A c \in Channels : Len(curPoints'[c]) > 0
    BY <1>11, ContextMenuOf, Zenon
  <2> QED
    BY <2>1, <2>2, Zenon
<1>12. ~Reload /\ ~ToggleLinked /\ \A c \in Channels : ~ToggleVisible(c)
  BY DEF Reload, ToggleLinked, ToggleVisible
<1> QED
  BY <1>1, <1>7, <1>8, <1>9, <1>10, <1>11, <1>12, Zenon DEF Next

\* Nothing but replacing the points, by Reset or by a preset that arrives, makes drawing
\* the page (PreviewImage.svelte, CurveEditor.svelte) throw: dragging, adding and deleting
\* points, linked or apart, never does.
THEOREM EditorBreaks == Spec => BreaksOnlyByReplacing
<1>1. IndInv /\ [Next]_vars
        => [broken' /\ ~broken => LoadIdentity \/ \E p \in Presets : PresetArrives(p)]_vars
  BY BreakStep, Zenon
<1> QED
  BY <1>1, EditorInvariant, PTL DEF Spec, BreaksOnlyByReplacing

\* The points of every channel of every preset are in order.
PresetsInOrder == \A p \in Presets, c \in Channels : InOrder(p[c])

LEMMA OrderStep ==
    ASSUME IndInv, Next, PresetsInOrder, \A c \in Channels : InOrder(curPoints[c]), ~InsertsElsewhere
    PROVE  \A c \in Channels : InOrder(curPoints'[c])
<1>1. CASE UNCHANGED curPoints
  BY <1>1
<1>2. ASSUME NEW m \in Places, OnMouseMove(m) PROVE \A c \in Channels : InOrder(curPoints'[c])
  BY <1>2, MouseMoveOf, Zenon
<1>3. ASSUME NEW m \in Places, OnDblClick(m) PROVE \A c \in Channels : InOrder(curPoints'[c])
  BY <1>3, DblClickOf, Zenon
<1>4. CASE OnContextMenu
  BY <1>4, ContextMenuOf, Zenon
<1>5. CASE LoadIdentity \/ Reload
  <2>1. curPoints' = Identity
    BY <1>5, Zenon DEF LoadIdentity, Reload, Change
  <2> QED
    BY <2>1, LineOf, Zenon
<1>6. ASSUME NEW p \in Presets, PresetArrives(p) PROVE \A c \in Channels : InOrder(curPoints'[c])
  BY <1>6, Zenon DEF PresetArrives, Change, PresetsInOrder
<1>7. \/ UNCHANGED curPoints
      \/ \E m \in Places : OnMouseMove(m)
      \/ \E m \in Places : OnDblClick(m)
      \/ OnContextMenu
      \/ LoadIdentity \/ Reload
      \/ \E p \in Presets : PresetArrives(p)
  BY Zenon DEF Next, OnMouseDown, OnMouseUp, ToggleVisible, ToggleLinked
<1> QED
  BY <1>1, <1>2, <1>3, <1>4, <1>5, <1>6, <1>7, Zenon

\* Where the presets hold their points in order, points in order stay in order, dragged,
\* deleted, linked or not, however many channels there are; but for a double click
\* on a point, outside the curve or where the channels differ.
THEOREM EditorOrder ==
    ASSUME PresetsInOrder
    PROVE  Spec => OrderKept
<1>1. IndInv /\ [Next]_vars
        => [(\A c \in Channels : InOrder(curPoints[c]))
            => (\A c \in Channels : InOrder(curPoints'[c])) \/ InsertsElsewhere]_vars
  BY OrderStep, Zenon
<1> QED
  BY <1>1, EditorInvariant, PTL DEF Spec, OrderKept

\* Through points in order that never fall the spline of gamma.ts never falls either and
\* goes through every point, which is what Fritsch and Carlson's tangents are for
\* (gamma.ts:13): on a grid of any size, for any number of points.
THEOREM EditorKeepsShape == Spec => []SplineKeepsShape
<1>1. IndInv => SplineKeepsShape
  <2> SUFFICES ASSUME IndInv, NEW p \in Drawable, InOrder(p), NeverFalls(p)
               PROVE  /\ Rising(Curve(p)) = Curve(p)
                      /\ \A i \in DOMAIN p : p[i].x \in Inputs => Curve(p)[p[i].x] = p[i].y
    BY DEF SplineKeepsShape
  <2>1. p \in Seq(ControlPoints) /\ p # <<>>
    BY DEF IndInv, TypeOK, Drawable
  <2>2. Len(p) > 0 /\ DOMAIN p = 1 .. Len(p)
    BY <2>1, EmptySeq, LenProperties
  <2>3. /\ \A x, y \in Inputs : x <= y => Curve(p)[x] <= Curve(p)[y]
        /\ \A i \in 1 .. Len(p) : p[i].x \in Inputs => Curve(p)[p[i].x] = p[i].y
    BY <2>1, <2>2, CurveRises
  <2>4. Rising(Curve(p)) = Curve(p)
    BY <2>1, <2>2, <2>3, CurveOf, RisingKeeps
  <2> QED
    BY <2>2, <2>3, <2>4, Zenon
<1> QED
  BY <1>1, EditorInvariant, PTL

\* Whatever order editing has left the points in, JsonToRamp (websvr.cpp) takes the ramp
\* that pointsToRamp (gamma.ts) made of them over as it is, and to_ramp (gamma.cpp) makes
\* one of them that differs by one unit at most, on a grid of any size.
THEOREM EditorBothAgree == Spec => []BothAgree
<1>1. IndInv => BothAgree
  <2> SUFFICES ASSUME IndInv, NEW p \in Drawable, NEW short \in BOOLEAN
               PROVE  /\ JsonToRamp(PointsToRamp(p)) = PointsToRamp(p)
                      /\ \A i \in Inputs : PointsToRamp(p)[i] - ToRamp(p, short)[i] \in -1 .. 1
    BY DEF BothAgree
  <2>1. p \in Seq(ControlPoints) /\ p # <<>>
    BY DEF IndInv, TypeOK, Drawable
  <2>2. Len(p) > 0
    BY <2>1, EmptySeq
  <2>3. \A i \in Inputs : PointsToRamp(p)[i] - ToRamp(p, short)[i] \in {0, 1}
    BY <2>1, <2>2, RampsClose
  <2>4. \A d \in {0, 1} : d \in -1 .. 1
    OBVIOUS
  <2> QED
    BY <2>1, <2>2, <2>3, <2>4, RampOf, Zenon
<1> QED
  BY <1>1, EditorInvariant, PTL

=============================================================================
