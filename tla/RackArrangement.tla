-------------------------- MODULE RackArrangement --------------------------
(***************************************************************************)
(* How the rack view lays its racks out in rows (RackSpace.setUpRacks and  *)
(* arrangeRacks): it looks for the width of a row whose picture has about  *)
(* the shape of the window, spreads the racks over the rows this takes,    *)
(* and then fills one row after the other.                                 *)
(*                                                                         *)
(* A rack is a record [width, height] and racks a sequence of them.        *)
(* Fractions are compared by their cross products, and the widths of the   *)
(* canvas are counted in parts: Unit(racks, rows) of them make one pixel.  *)
(***************************************************************************)
EXTENDS Integers, FiniteSets, SequencesExt

CONSTANTS
  Padding,      \* RackSpace.PADDING
  HPadding,     \* RackSpace.H_PADDING
  HSpacing,     \* RackSpace.RACK_H_SPACING
  VSpacing,     \* RackSpace.RACK_V_SPACING
  LabelHeight   \* NameLabel.SIZE + NameLabel.OFFSET_Y

ASSUME ArrangementAssumption ==
  /\ {Padding, HPadding, HSpacing, VSpacing, LabelHeight} \subseteq Nat
  /\ Padding <= HPadding

Distance(a, b) == IF a < b THEN b - a ELSE a - b
Ceiling(a, b)  == (a + b - 1) \div b

\* the widths of the first racks, each with the space after it
Widths(racks) ==
  LET upTo[i \in 0..Len(racks)] ==
        IF i = 0 THEN 0 ELSE upTo[i - 1] + racks[i].width + HSpacing
  IN upTo
WidthOf(racks) == Widths(racks)[Len(racks)]
TallestRack(racks) == LabelHeight + Max({r.height : r \in ToSet(racks)} \cup {0})

(* The row that fits best: as wide as some of the first racks, and as long *)
(* as its picture is nearer to the shape of the window than those before.  *)
(* The branch for both faces is never taken: front_and_rear is read before *)
(* it is set.                                                              *)

\* a picture is w / 2 wide and h / 3 high
Tried(racks) ==
  LET tallest == TallestRack(racks)
      total   == WidthOf(racks)
      height(rows) == (tallest + VSpacing) * rows - VSpacing + 2 * Padding
      picture(count, width) == [count |-> count, width |-> width, w |-> 3 * width,
                                h |-> 2 * height(Ceiling(total, width))]
  IN {[count |-> 0, width |-> total, w |-> 0, h |-> 1]}
       \cup {picture(count, Widths(racks)[count]) : count \in DOMAIN racks}

Away(r, window) == Distance(r.w * window.height, window.width * r.h)
Nearer(r, q, window) == Away(r, window) * q.h < Away(q, window) * r.h

BestWidth(racks, window) ==
  (CHOOSE r \in Tried(racks) : \A q \in Tried(racks) :
     /\ q.count < r.count => Nearer(r, q, window)
     /\ q.count > r.count => ~Nearer(q, r, window)).width

NumRows(racks, window) ==
  LET best  == BestWidth(racks, window)
      total == WidthOf(racks)
  IN IF total > best THEN Ceiling(total, best) ELSE 1

(* The canvas: a row has room for its share of the racks and for one more  *)
(* of average width, unless there is one row.                              *)

Unit(racks, rows) == IF rows = 1 THEN 1 ELSE rows * Len(racks)
RowWidth(racks, rows) ==
  WidthOf(racks) * (IF rows = 1 THEN 1 ELSE Len(racks) + rows)
ActualWidth(racks, rows) == RowWidth(racks, rows) + 2 * Padding * Unit(racks, rows)
RacksWidth(racks, rows) == ActualWidth(racks, rows) + 2 * HPadding * Unit(racks, rows)
RacksHeight(racks, rows) ==
  rows * TallestRack(racks) + (rows - 1) * VSpacing + 4 * Padding

\* the first rack of the row of each: a rack begins the next row when it would
\* leave the row's width
FirstOfRow(racks, rows) ==
  LET widths == Widths(racks)
      leaves(from, i) ==
        (widths[i - 1] - widths[from - 1] + racks[i].width) * Unit(racks, rows)
          > ActualWidth(racks, rows)
      continue(from, i) == IF leaves(from, i) THEN i ELSE from
      first[i \in DOMAIN racks] == IF i = 1 THEN 1 ELSE continue(first[i - 1], i)
  IN first
RowOf(first, i) == Cardinality({j \in 2..i : first[j] = j})

\* the racks of a row stand on one line, and a rack that is alone in the middle
Place(racks, rows) ==
  LET widths  == Widths(racks)
      first   == FirstOfRow(racks, rows)
      tallest == TallestRack(racks)
  IN [i \in DOMAIN racks |->
        [row |-> RowOf(first, i),
         x   |-> IF Len(racks) = 1 THEN (RacksWidth(racks, 1) - racks[i].width) \div 2
                 ELSE HPadding + Padding + widths[i - 1] - widths[first[i] - 1],
         y   |-> Padding * (IF rows > 1 THEN 2 ELSE 1)
                   + (tallest + VSpacing) * RowOf(first, i) + tallest - racks[i].height]]
---------------------------------------------------------------------------
\* No rack is drawn over another one.
Apart(racks, at) ==
  \A i, j \in DOMAIN racks :
    i < j => \/ at[i].x + racks[i].width <= at[j].x
             \/ at[i].y + racks[i].height <= at[j].y

\* Every rack is drawn within the canvas, whose size was computed before the
\* rows were filled: they are never more than num_rows.
WithinCanvas(racks, rows, at) ==
  \A i \in DOMAIN racks :
    /\ at[i].row < rows
    /\ (at[i].x + racks[i].width) * Unit(racks, rows) <= RacksWidth(racks, rows)
    /\ at[i].y >= 0 /\ at[i].y + racks[i].height <= RacksHeight(racks, rows)

=============================================================================
