--------------------------- MODULE MCCurveEditor ---------------------------
(***************************************************************************)
(* A finite instance of CurveEditor: two channels on a grid of five by     *)
(* sixteen values, so that a wrong tangent shows after rounding; the mouse *)
(* in four places of it; and the presets of a file that is gone, with no   *)
(* points, and of one whose channels differ.                               *)
(***************************************************************************)
EXTENDS CurveEditor

MCPlaces == {Point(0, 3), Point(1, 9), Point(2, 15), Point(3, 4)}

Gone == [c \in Channels |-> <<>>]
Tinted == [c \in Channels |->
            IF c = 1 THEN <<Point(0, 1), Point(2, 9), Point(4, 15)>>
            ELSE <<Point(0, 0), Point(1, 0), Point(3, 5), Point(4, 15)>>]
MCPresets == {Gone, Tinted}
============================================================================
