----------------------------- MODULE SimpleChart -----------------------------
(***************************************************************************)
(* The arithmetic of a chart of one series: its axis and its labels, and   *)
(* the datum under the mouse (SimpleChart.js, Util.js). Values are whole   *)
(* numbers, x-coordinates count from the left margin.                      *)
(***************************************************************************)
EXTENDS Integers, Sequences, FiniteSetsExt

CONSTANTS
  Width,      \* of a bar, in pixels, and even
  Gap,        \* between two points of a line
  Radius,     \* LINE_DATUM_HOVER_RADIUS
  Rises,      \* how far below the mouse, or above it, the points of a line are
  Room        \* the height of the axis, in distances LABEL_MIN_GAP: 20 pixels

ASSUME ChartAssumption ==
  /\ Width \in Nat \ {0} /\ Width % 2 = 0
  /\ Gap \in Nat \ {0} /\ Radius \in Nat /\ Rises \subseteq Int /\ Room \in 2..200
------------------------------------------------------------------------------
\* the power of ten that has as many digits
Factor(range) ==
  LET scale[n \in 0..range] == IF n < 10 THEN 1 ELSE 10 * scale[n \div 10] IN scale[range]

Up(x, f) == -((-x) \div f) * f
Down(x, f) == (x \div f) * f

\* the ends of the axis; the lowest value is not put on it, except zero
AxisRange(max, min) ==
  LET f == Factor(max - min)
      low == Down(min, f)
  IN IF max = min THEN [low |-> min - 1, high |-> max]
     ELSE [low |-> IF low = min /\ min # 0 THEN low - f ELSE low, high |-> Up(max, f)]

\* The axis is divided by 5, 2 and 1 times a power of ten, in thousandths of
\* its factor, by the last of them that is not too narrow.
Unit == 1000
Steps == <<10000, 5000, 2000, 1000, 500, 200, 100, 50, 20, 10, 5>>
LabelDivision(low, high) ==
  LET f == Factor(high - low)
      narrow(n) == Steps[n] * f * Room <= (high - low) * Unit
      first == CHOOSE n \in 2..Len(Steps) : narrow(n) /\ \A m \in 2..(n - 1) : ~narrow(m)
  IN Steps[first - 1] * f
Labels(low, high) ==
  LET div == LabelDivision(low, high)
  IN {div * k : k \in -((-low * Unit) \div div)..((high * Unit) \div div)}
------------------------------------------------------------------------------
(* binaryIndexOf gives the last index it has tried, found or not; the data
   next to it are looked at as well. *)

\* one turn of its loop: where x is found, the next turn tries again
Try(x, xs, part) ==
  LET mid == (part.low + part.high) \div 2
  IN IF part.low > part.high THEN part
     ELSE [low  |-> IF xs[mid] < x THEN mid + 1 ELSE part.low,
           high |-> IF xs[mid] > x THEN mid - 1 ELSE part.high,
           idx  |-> mid]
LastTried(x, xs) ==
  LET part[n \in 0..Len(xs)] ==
        IF n = 0 THEN [low |-> 1, high |-> Len(xs), idx |-> 0] ELSE Try(x, xs, part[n - 1])
  IN part[Len(xs)].idx

Candidates(x, xs) == LET i == LastTried(x, xs) IN (i - 1)..(i + 1) \cap DOMAIN xs

Left(k) == Width * (k - 1)
OverBar(x, k) == Left(k) <= x /\ x <= Left(k) + Width
Centres(n) == [k \in 1..n |-> Left(k) + Width \div 2]
Dots(n) == [k \in 1..n |-> Gap * (k - 1)]
Square(a) == a * a
\* of a point that is rise[k] below the mouse
SquaredDistance(n, x, rise, k) == Square(Dots(n)[k] - x) + Square(rise[k])

(* The data that a hover may find: on the boundary of two bars, or as far from
   two points, either. Of a line it is the nearest of those looked at. *)
HoverBar(n, x) == {k \in Candidates(x, Centres(n)) : OverBar(x, k)}
HoverLine(n, x, rise) ==
  LET far(k) == SquaredDistance(n, x, rise, k)
      all == Candidates(x, Dots(n))
  IN {k \in all : far(k) <= Square(Radius) /\ \A j \in all : far(k) <= far(j)}
HoverLabel(n, x) == {(x \div Width) + 1} \cap 1..n
==============================================================================
