--------------------------- MODULE MCPresetsPage ----------------------------
(***************************************************************************)
(* A finite instance of PresetsPage: two names, one of them a preset that  *)
(* is there from the start.  Dragged has a point left of the edge, which a *)
(* file gives back as curve.                                               *)
(***************************************************************************)
EXTENDS PresetsPage

CONSTANTS a, b, curve, dragged

MCReread == [c \in Curves |-> IF c = dragged THEN curve ELSE c]
MCStored == {[n \in Names |-> IF n = Full(a) THEN dragged ELSE NoFile]}
=============================================================================
