---------------------------- MODULE CurveEditor ----------------------------
(***************************************************************************)
(* The curve editor of the web page (CurveEditor.svelte) and the part of   *)
(* its store that holds the control points (state.svelte.ts): points are   *)
(* dragged, added by a double click, deleted by a right click, replaced by *)
(* the identity or by a preset whose answer arrives some time after it was *)
(* asked for; channels are edited together (linked) or apart.              *)
(*                                                                         *)
(* Places on the canvas are taken to the grid of values; a click within    *)
(* reach of several points may take any that is not under another.  The    *)
(* handlers of a page never interleave.  Saving and applying read the      *)
(* points at once and change none.  addPointAfterSelection is never called. *)
(***************************************************************************)
EXTENDS Spline, SequencesExt

CONSTANTS
    NChannels, \* channels of a curve: red, green, blue
    Presets,   \* the points of the preset files
    Places,    \* bound: the places of the canvas the mouse comes to
    MaxPoints, \* bound: no points are added to a channel that has as many
    MaxEdits   \* bound: changes of the points since the page was loaded

ASSUME NChannelsAssumption == NChannels \in Nat \ {0}
ASSUME PlacesAssumption == Places \subseteq [x : Inputs, y : 0 .. MaxVal]

Channels == 1 .. NChannels

\* What a control point may be: dragged along, it may leave the range of x.
ControlPoints == [x : Int, y : 0 .. MaxVal]

ASSUME PresetsAssumption == Presets \subseteq [Channels -> Seq(ControlPoints)]
ASSUME BoundAssumption == MaxEdits \in Nat

VARIABLES
    curPoints, \* curPoints[c]: the control points of channel c
    visible,   \* visibleCh
    linked,    \* linkedMode
    selected,  \* selectedPoint
    dragged,   \* draggedPoint
    broken,    \* drawing the page has thrown
    edits      \* the changes so far

viewVars == <<visible, linked>>
vars     == <<curPoints, viewVars, selected, dragged, broken, edits>>

NoPoint == [ch |-> 0, idx |-> 0]
Handle(c, i) == [ch |-> c, idx |-> i]
Exists(h) == h.idx \in 1 .. Len(curPoints[h.ch])

TypeOK ==
    /\ curPoints \in [Channels -> Seq(ControlPoints)]
    /\ visible \in [Channels -> BOOLEAN]
    /\ linked \in BOOLEAN
    /\ \A h \in {selected, dragged} : h = NoPoint \/ (h.ch \in Channels /\ h.idx \in Nat \ {0})
    /\ broken \in BOOLEAN
    /\ edits \in 0 .. MaxEdits

makeLinearPoints == <<Point(0, 0), Point(Size - 1, MaxVal)>>
Identity == [c \in Channels |-> makeLinearPoints]

Init ==
    /\ curPoints = Identity
    /\ visible = [c \in Channels |-> TRUE]
    /\ linked = TRUE
    /\ selected = NoPoint
    /\ dragged = NoPoint
    /\ broken = FALSE
    /\ edits = 0

----------------------------------------------------------------------------

\* Drawing throws: pointsToRamp of a channel without points (new Array(-1)), in the
\* preview a hidden one too; or the line below the canvas that shows the dragged or
\* the selected point, when that point is gone.
DrawingThrows(pts, sel, drag) ==
    LET shown == IF drag # NoPoint THEN drag ELSE sel
    IN  \/ \E c \in Channels : pts[c] = <<>>
        \/ shown # NoPoint /\ shown.idx > Len(pts[shown.ch])

\* The page is drawn after every change.
Redraw == broken' = DrawingThrows(curPoints', selected', dragged')

\* A change of the points; Redraw goes with it.
Change(pts) ==
    /\ edits < MaxEdits
    /\ edits' = edits + 1
    /\ curPoints' = pts

\* hitTest: the point i of a visible channel, which no point drawn before hides.
Hits(c, i) ==
    /\ visible[c]
    /\ \A d \in {e \in Channels : visible[e]} : \A j \in DOMAIN curPoints[d] :
            curPoints[d][j] = curPoints[c][i] => c < d \/ (c = d /\ i <= j)

OnMouseDown ==
    /\ ~broken
    /\ \/ \E c \in Channels : \E i \in DOMAIN curPoints[c] :
            /\ Hits(c, i)
            /\ selected' = Handle(c, i)
            /\ dragged' = Handle(c, i)
       \/ selected' = NoPoint /\ UNCHANGED dragged
    /\ UNCHANGED <<curPoints, viewVars, edits>>
    /\ Redraw

\* MUTANT of Between: the neighbour on the right is not looked at.
BetweenLeft(p, i, x) == i > 1 => x > p[i - 1].x

\* x lies strictly between the neighbours of point i.
Between(p, i, x) ==
    /\ i > 1 => x > p[i - 1].x
    /\ i < Len(p) => x < p[i + 1].x

\* Where point i of p comes to be when it is dragged to x.
Pushed(p, i, x) ==
    LET right == IF i > 1 /\ x <= p[i - 1].x THEN p[i - 1].x + 1 ELSE x
    IN  IF i < Len(p) /\ right >= p[i + 1].x THEN p[i + 1].x - 1 ELSE right

\* MUTANT of Follow: the value of a point that follows is not clamped.
FollowUnclamped(p, i, dx, dy) ==
    IF Between(p, i, p[i].x + dx)
    THEN [p EXCEPT ![i] = Point(@.x + dx, @.y + dy)]
    ELSE p

\* A linked channel's point of the same index moves as far, if it may.
Follow(p, i, dx, dy) ==
    IF Between(p, i, p[i].x + dx)
    THEN [p EXCEPT ![i] = Point(@.x + dx, Clamp(@.y + dy))]
    ELSE p

\* The point is dragged to place m.  A linked channel that has no such point throws:
\* the channels behind it do not follow.
OnMouseMove(m) ==
    /\ ~broken
    /\ dragged # NoPoint
    /\ LET ch == dragged.ch
           i  == dragged.idx
           p  == curPoints[ch]
           nx == Pushed(p, i, m.x)
           dx == nx - p[i].x
           dy == m.y - p[i].y
           follows(c) == linked /\ \A d \in Channels : d <= c => i <= Len(curPoints[d])
       IN  Change([c \in Channels |->
                    IF c = ch THEN [p EXCEPT ![i] = Point(nx, m.y)]
                    ELSE IF follows(c) THEN Follow(curPoints[c], i, dx, dy)
                    ELSE curPoints[c]])
    /\ UNCHANGED <<viewVars, selected, dragged>>
    /\ Redraw

OnMouseUp ==
    /\ ~broken
    /\ dragged # NoPoint
    /\ dragged' = NoPoint
    /\ UNCHANGED <<curPoints, viewVars, selected, edits>>
    /\ Redraw

----------------------------------------------------------------------------
(* A double click adds a point. *)

\* The first gap of p that x is strictly inside of, as the index the new point
\* gets; no such gap: the place before the last point.
Place(p, x) ==
    LET gaps == {i \in 1 .. Len(p) - 1 : x > p[i].x /\ x < p[i + 1].x}
    IN  IF gaps = {} THEN Len(p) ELSE 1 + CHOOSE i \in gaps : \A j \in gaps : i <= j

FirstVisible ==
    CHOOSE c \in Channels : visible[c] /\ \A d \in Channels : visible[d] => c <= d

\* splice(i - 1, 0, pt)
Insert(p, i, pt) == IF i > Len(p) + 1 THEN Append(p, pt) ELSE InsertAt(p, i, pt)

\* New points keep off the ends of the range.
Inside(x) == IF x < 1 THEN 1 ELSE IF x > Size - 2 THEN Size - 2 ELSE x

\* The channels a double click adds a point to.
Inserted == IF linked THEN Channels ELSE {c \in Channels : visible[c]}

\* The index found in the first visible channel is used for all.  Linked
\* channels get the place clicked, others the value their curve has there.
OnDblClick(m) ==
    /\ ~broken
    /\ dragged = NoPoint
    /\ \E c \in Channels : visible[c]
    /\ \A c \in Channels : Len(curPoints[c]) < MaxPoints
    /\ LET x   == Inside(m.x)
           ins == Place(curPoints[FirstVisible], x)
       IN  /\ selected' = Handle(FirstVisible, ins)
           /\ Change([c \in Channels |->
                IF c \notin Inserted THEN curPoints[c]
                ELSE Insert(curPoints[c], ins,
                            Point(x, IF linked THEN m.y ELSE PointsToRamp(curPoints[c])[x]))])
    /\ UNCHANGED <<viewVars, dragged>>
    /\ Redraw

----------------------------------------------------------------------------
(* A right click deletes a point. *)

\* MUTANT of Deselected: the selection is kept.
DeselectedNot == selected

\* What is selected when a point has been deleted.
Deselected == NoPoint

\* onContextMenu and deleteSelectedPoint: never an end of the channel clicked, and
\* never one of its last two points.
OnContextMenu ==
    /\ ~broken
    /\ dragged = NoPoint
    /\ \E c \in Channels : \E i \in DOMAIN curPoints[c] :
        /\ Hits(c, i)
        /\ Len(curPoints[c]) > 2
        /\ i \notin {1, Len(curPoints[c])}
        /\ selected' = Deselected
        /\ Change([d \in Channels |->
                IF d = c \/ (linked /\ Len(curPoints[d]) > 2 /\ i <= Len(curPoints[d]))
                THEN RemoveAt(curPoints[d], i)
                ELSE curPoints[d]])
    /\ UNCHANGED <<viewVars, dragged>>
    /\ Redraw

----------------------------------------------------------------------------
(* What is shown, and what replaces all points. *)

ToggleVisible(c) ==
    /\ ~broken
    /\ ~linked
    /\ visible' = [visible EXCEPT ![c] = ~@]
    /\ UNCHANGED <<curPoints, linked, selected, dragged, broken, edits>>

\* Linking shows all channels.
ToggleLinked ==
    /\ ~broken
    /\ linked' = ~linked
    /\ visible' = IF linked' THEN [c \in Channels |-> TRUE] ELSE visible
    /\ UNCHANGED <<curPoints, selected, dragged, broken, edits>>

\* The Reset button.
LoadIdentity ==
    /\ ~broken
    /\ Change(Identity)
    /\ UNCHANGED <<viewVars, selected, dragged>>
    /\ Redraw

\* A preset asked for some time ago arrives, whatever has been done since; the
\* answers to several may come in any order.
PresetArrives(p) ==
    /\ ~broken
    /\ Change(p)
    /\ UNCHANGED <<viewVars, selected, dragged>>
    /\ Redraw

Reload ==
    /\ curPoints' = Identity
    /\ visible' = [c \in Channels |-> TRUE]
    /\ linked' = TRUE
    /\ selected' = NoPoint
    /\ dragged' = NoPoint
    /\ broken' = FALSE
    /\ edits' = 0

Next ==
    \/ OnMouseDown
    \/ \E m \in Places : OnMouseMove(m)
    \/ OnMouseUp
    \/ \E m \in Places : OnDblClick(m)
    \/ OnContextMenu
    \/ \E c \in Channels : ToggleVisible(c)
    \/ ToggleLinked
    \/ LoadIdentity
    \/ \E p \in Presets : PresetArrives(p)
    \/ Reload

Spec == Init /\ [][Next]_vars

----------------------------------------------------------------------------
(* Properties. *)

\* The channels that can be drawn.  They are looked at while no point is selected:
\* a click beside all points selects none and changes none.
Drawable ==
    IF selected = NoPoint /\ dragged = NoPoint
    THEN {curPoints[c] : c \in Channels} \ {<<>>} ELSE {}

InOrder(p) == \A i \in 1 .. Len(p) - 1 : p[i].x < p[i + 1].x
NeverFalls(p) == \A i \in 1 .. Len(p) - 1 : p[i].y <= p[i + 1].y

\* "Monotone Cubic Hermite spline (Fritsch-Carlson)" (gamma.ts:13): through points
\* in order that never fall the spline itself never falls, so the loop that makes
\* ramps rise changes nothing and every point is on the ramp.
SplineKeepsShape ==
    \A p \in Drawable :
        InOrder(p) /\ NeverFalls(p) =>
            LET c == Curve(p)
            IN  /\ Rising(c) = c
                /\ \A i \in DOMAIN p : p[i].x \in Inputs => c[p[i].x] = p[i].y

\* Whatever order editing has left the points in, the program takes the ramp the page
\* shows over as it is, and what it makes of the points itself, once they are saved as
\* a preset, differs by one unit at most, the page rounding and the program truncating.
BothAgree ==
    \A p \in Drawable, short \in BOOLEAN :
        LET page    == PointsToRamp(p)
            program == ToRamp(p, short)
        IN  /\ JsonToRamp(page) = page
            /\ \A i \in Inputs : page[i] - program[i] \in -1 .. 1

\* A double click where not every channel that gets a point has the same gap.
InsertsElsewhere ==
    \E m \in Places :
        /\ OnDblClick(m)
        /\ LET x == Inside(m.x)
               i == Place(curPoints[FirstVisible], x)
           IN  \E c \in Inserted :
                ~(i \in 2 .. Len(curPoints[c])
                    /\ curPoints[c][i - 1].x < x /\ x < curPoints[c][i].x)

\* Points in order stay in order, dragged, deleted, linked or not; but for a
\* double click on a point, outside the curve or where the channels differ.
OrderKept ==
    [][(\A c \in Channels : InOrder(curPoints[c]))
        => (\A c \in Channels : InOrder(curPoints'[c])) \/ InsertsElsewhere]_vars

\* Nothing but replacing the points, by Reset or by a preset that arrives, makes
\* drawing the page throw.
BreaksOnlyByReplacing ==
    [][broken' /\ ~broken => LoadIdentity \/ \E p \in Presets : PresetArrives(p)]_vars
============================================================================
