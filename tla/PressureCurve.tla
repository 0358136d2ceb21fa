--------------------------- MODULE PressureCurve ---------------------------
(***************************************************************************)
(* The curve of the pressure curve dialog: two control points, dragged by  *)
(* the mouse or by a pen, and the text that is made of them.               *)
(*                                                                         *)
(* The text has four percentages, x and y of the first point and of the    *)
(* second, y from below; the points have pixels of the widget, y from      *)
(* above.  A text is a string, as the driver and the profiles hold it.     *)
(***************************************************************************)
EXTENDS Integers, Sequences, TLC

CONSTANT MousePoints   \* bound: where mouse and pen get to, as <<x, y>>

ASSUME MouseAssumption == MousePoints \subseteq Int \X Int

Size == 300        \* the widget's fixed width and height
PointSize == 10

-----------------------------------------------------------------------------
(* Texts. *)

Percent(pixels) == (200 * pixels + Size) \div (2 * Size)
Pixels(percent) == (percent * Size) \div 100

Text(q) == ToString(q[1]) \o " " \o ToString(q[2]) \o " " \o ToString(q[3]) \o " " \o ToString(q[4])

Straight == <<0, 0, 100, 100>>

\* Clip a coordinate to the widget.
Clip(v) == IF v > Size THEN Size ELSE IF v < 0 THEN 0 ELSE v

\* The percentages there can be: those of a straight curve and of the points reached.
Mark ==
    LET reached == {Percent(Clip(pos[i])) : pos \in MousePoints, i \in {1, 2}}
    IN  {0, 100} \cup reached \cup {100 - v : v \in reached}

Texts == [q \in Mark \X Mark \X Mark \X Mark |-> Text(q)]

\* What is known of the numbers of a text: they can be read back.
ASSUME TextAssumption ==
    \A q \in DOMAIN Texts :
        /\ Texts[q] # ""
        /\ \A r \in DOMAIN Texts : Texts[q] = Texts[r] => q = r

Parsed == [s \in {Texts[q] : q \in DOMAIN Texts} |-> CHOOSE q \in DOMAIN Texts : Texts[q] = s]

\* What is no list of four numbers is taken for a straight curve.
ControlPoints(s) == IF s \in DOMAIN Parsed THEN Parsed[s] ELSE Straight

-----------------------------------------------------------------------------
(* The widget: its two points, and which of them is held; 0 is none. *)

SetControlPoints(q) ==
    [one |-> <<Pixels(q[1]), Pixels(100 - q[2])>>,
     two |-> <<Pixels(q[3]), Pixels(100 - q[4])>>,
     active |-> 0]

Near(p, q) == (p[1] - q[1]) * (p[1] - q[1]) + (p[2] - q[2]) * (p[2] - q[2]) < PointSize * PointSize

\* A press that is near none of the points lets the active one be.
SetNearestPoint(c, pos) ==
    CASE Near(pos, c.one) -> [c EXCEPT !.active = 1]
      [] ~Near(pos, c.one) /\ Near(pos, c.two) -> [c EXCEPT !.active = 2]
      [] OTHER -> c

Swap(p) == <<p[2], p[1]>>

\* The other point goes with the one that is held, with x for y.
MoveControlPoint(c, pos) ==
    LET at == <<Clip(pos[1]), Clip(pos[2])>>
    IN  CASE c.active = 1 -> [c EXCEPT !.one = at, !.two = Swap(at)]
          [] c.active = 2 -> [c EXCEPT !.two = at, !.one = Swap(at)]
          [] OTHER        -> c

\* The text of the points.
PointsString(c) ==
    Text(<<Percent(c.one[1]), 100 - Percent(c.one[2]),
           Percent(c.two[1]), 100 - Percent(c.two[2])>>)

\* The second point is the first one on the other side of the diagonal, which is all
\* that the driver takes.
Opposite(q) == q[3] = 100 - q[2] /\ q[4] = 100 - q[1]
Mirrored(s) == Opposite(ControlPoints(s))
=============================================================================
