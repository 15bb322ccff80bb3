------------------------------- MODULE Spline -------------------------------
(***************************************************************************)
(* How control points become a ramp: pointsToRamp of the page (gamma.ts),  *)
(* gamma_desc::to_ramp of the program (gamma.cpp), and JsonToRamp, which   *)
(* takes the page's ramp over (websvr.cpp).  The two splines are the same  *)
(* monotone cubic; the page rounds, the program truncates.                 *)
(*                                                                         *)
(* Points lie on the grid of the page: x in 0 .. Size - 1, y in            *)
(* 0 .. MaxVal; the program divides both by their maximum and multiplies   *)
(* by it again.  The spline is evaluated exactly, as a fraction; what      *)
(* floating point can do to it is the parameter `short' of Truncated.      *)
(***************************************************************************)
EXTENDS Integers, Sequences, FiniteSetsExt

CONSTANTS
    Size,  \* GAMMA_RAMP_SIZE, N
    MaxVal \* MAX_VAL, the largest number of 16 bits

ASSUME SizeAssumption == Size \in Nat /\ Size >= 2
ASSUME MaxValAssumption == MaxVal \in Nat

Point(x, y) == [x |-> x, y |-> y]
Inputs == 0 .. Size - 1

\* A fraction with a positive denominator.
Fraction(n, d) == IF d > 0 THEN [num |-> n, den |-> d] ELSE [num |-> -n, den |-> -d]

\* m[k], the slope of the k-th segment.
Slope(p, k) ==
    LET dx == p[k + 1].x - p[k].x
    IN  IF dx > 0 THEN Fraction(p[k + 1].y - p[k].y, dx) ELSE Fraction(0, 1)

\* MUTANT of Tangent: the plain mean of the two slopes.
TangentMean(p, k) ==
    CASE k = 1      -> Slope(p, 1)
      [] k = Len(p) -> Slope(p, k - 1)
      [] OTHER ->
            LET a == Slope(p, k - 1)
                b == Slope(p, k)
            IN  Fraction(a.num * b.den + b.num * a.den, 2 * a.den * b.den)

\* d[k], the tangent at the k-th point: zero at an extremum, else the weighted
\* harmonic mean of the slopes on either side, whose widths are then their
\* denominators.
Tangent(p, k) ==
    CASE k = 1      -> Slope(p, 1)
      [] k = Len(p) -> Slope(p, k - 1)
      [] OTHER ->
            LET a == Slope(p, k - 1)
                b == Slope(p, k)
            IN  IF a.num * b.num <= 0 THEN Fraction(0, 1)
                ELSE Fraction(3 * (a.den + b.den) * a.num * b.num,
                              (a.den + 2 * b.den) * b.num * a.den
                                + (2 * a.den + b.den) * a.num * b.den)

\* The segment x is looked for in: the first that ends at x or behind it.
Segment(p, x) ==
    CHOOSE s \in 1 .. Len(p) - 1 :
        /\ s = Len(p) - 1 \/ x <= p[s + 1].x
        /\ \A q \in 1 .. s - 1 : x > p[q + 1].x

\* The Hermite polynomial of that segment at x.
Hermite(p, x) ==
    LET s  == Segment(p, x)
        h  == p[s + 1].x - p[s].x
        u  == x - p[s].x
        d0 == Tangent(p, s)
        d1 == Tangent(p, s + 1)
    IN  Fraction(((2*u*u*u - 3*u*u*h + h*h*h) * p[s].y
                    + (3*u*u*h - 2*u*u*u) * p[s + 1].y) * d0.den * d1.den
                 + (u*u*u - 2*u*u*h + u*h*h) * h * d0.num * d1.den
                 + (u*u*u - u*u*h) * h * d1.num * d0.den,
                 h*h*h * d0.den * d1.den)

Clamp(v) == IF v < 0 THEN 0 ELSE IF v > MaxVal THEN MaxVal ELSE v

\* Math.round
Rounded(v) == (2 * v.num + v.den) \div (2 * v.den)

\* (WORD)(v * 65535.0f); short: the product of floats falls just under a whole
\* number.
Truncated(v, short) == IF short THEN (v.num - 1) \div v.den ELSE v.num \div v.den

\* The last loop of all three functions: a value below the one before it is raised
\* to it.
Rising(f) == [i \in Inputs |-> Max({f[j] : j \in 0 .. i})]

\* pointsToRamp before its last loop.  It has no answer for no points.
Curve(p) ==
    LET n == Len(p)
    IN  [x \in Inputs |->
            IF x <= p[1].x THEN p[1].y
            ELSE IF x >= p[n].x THEN p[n].y
            ELSE Clamp(Rounded(Hermite(p, x)))]

PointsToRamp(p) == Rising(Curve(p))

\* MUTANT of ToRamp: points are joined by straight lines.
ToRampLinear(p, short) ==
    LET n == Len(p)
        line(x) == LET s == Segment(p, x)
                   IN  Fraction(p[s].y * (p[s + 1].x - p[s].x)
                                  + (p[s + 1].y - p[s].y) * (x - p[s].x),
                                p[s + 1].x - p[s].x)
    IN  Rising([x \in Inputs |->
            IF n = 0 THEN (x * MaxVal) \div (Size - 1)
            ELSE IF x <= p[1].x THEN p[1].y
            ELSE IF x >= p[n].x THEN p[n].y
            ELSE Clamp(Truncated(line(x), short))])

\* to_ramp
ToRamp(p, short) ==
    LET n == Len(p)
        f == [x \in Inputs |->
                IF x <= p[1].x THEN Clamp(Truncated(Fraction(p[1].y, 1), short))
                ELSE IF x >= p[n].x THEN Clamp(Truncated(Fraction(p[n].y, 1), short))
                ELSE Clamp(Truncated(Hermite(p, x), short))]
    IN  CASE n = 0 -> [x \in Inputs |-> (x * MaxVal) \div (Size - 1)]
          [] n = 1 -> [x \in Inputs |-> Clamp(Truncated(Fraction(p[1].y, 1), short))]
          [] OTHER -> Rising(f)

\* JsonToRamp: (uint16_t)((int)v), then the loop.
JsonToRamp(f) == Rising([x \in Inputs |-> f[x] % (MaxVal + 1)])
=============================================================================
