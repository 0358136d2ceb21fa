--------------------------- MODULE AreaSelection ---------------------------
(***************************************************************************)
(* The dialog in which the user selects the part of the tablet that covers *)
(* a screen: the widget that shows the tablet and the selection, to drag   *)
(* and pull (AreaSelectionWidget), four fields with the same numbers and   *)
(* the choice between full tablet and part of it (the view), and the areas *)
(* of all screens, as the tablet is turned (the controller, ScreenMap).    *)
(*                                                                         *)
(*   page --setupWidget, select-->  controller --select-->  view --> widget*)
(*   page <--getScreenMap, -Space-- controller <--signals-- view <-- widget*)
(*                                                                         *)
(* The widget emits selectionChanged, the view writes the numbers into the *)
(* fields, and each field that changes sets the selection of the widget    *)
(* from the four of them, old and new ones mixed.  All that is one step.   *)
(*                                                                         *)
(* Lengths.  The tablet counts in units; the widget draws Num/Den pixels   *)
(* per unit, its scale factor, in floating point.  Its coordinates are     *)
(* here whole numbers of pixels/Den, so that both a unit (Num) and a pixel *)
(* (Den) are exact.                                                        *)
(***************************************************************************)
EXTENDS Integers, Sequences, SequencesExt

CONSTANTS
    Width, Height,  \* of the tablet as it is built, in units
    TargetSize,     \* sides of the square the widget is to have, in pixels
    Cycle,          \* the desktop and the monitors, as toggling visits them
    Elsewhere,      \* screen spaces that are neither (regions, speeds)
    ScreenSize,     \* width and height of each of them
    PerPixel,       \* units of the tablet per pixel of the calibration dialog
    Rotations,      \* bound: how the tablet may be turned when the dialog opens
    MouseX, MouseY, \* bound: where the mouse may be, in pixels
    Edits,          \* bound: what is typed into the fields
    Taps,           \* bound: how far from the crosses the user taps
    Reach,          \* bound: how far locked proportions may push an area, in pixels/Den
    MaxActs         \* bound: acts of the user

Rotation == {"none", "cw", "half", "ccw"}
Desktop == Cycle[1]
Space == ToSet(Cycle) \cup Elsewhere
Field == {"x", "y", "w", "h"}
Corner == {"topLeft", "bottomLeft", "bottomRight", "topRight"}

ASSUME SizeAssumption ==
    /\ Width \in Nat /\ Height \in Nat /\ TargetSize \in Nat /\ TargetSize > 10
    /\ Width > 0 /\ Width % 10 = 0
    /\ Height > 0 /\ Height % 10 = 0
    /\ PerPixel \in Nat \ {0} /\ MaxActs \in Nat /\ Reach \in Nat
ASSUME SpaceAssumption ==
    /\ Cycle \in Seq(ToSet(Cycle)) /\ Cycle # <<>> /\ IsInjective(Cycle)
    /\ ToSet(Cycle) \cap Elsewhere = {}
    /\ DOMAIN ScreenSize = Space
    /\ \A s \in Space : ScreenSize[s].w \in Nat \ {0} /\ ScreenSize[s].h \in Nat \ {0}
ASSUME UserAssumption ==
    /\ Rotations \subseteq Rotation
    /\ MouseX \subseteq Int /\ MouseY \subseteq Int
    /\ \A e \in Edits : e.field \in Field /\ e.value \in Int
    /\ Taps \subseteq [Corner -> [x : Int, y : Int]]

VARIABLES
    map,      \* controller: screenMap; a space it has no area for is not in its domain
    current,  \* controller: currentScreen
    rotation, \* controller: tabletRotation
    view,     \* the state of view and widget, see View
    drag,     \* widget: dragMode
    point,    \* widget: dragPoint, in pixels
    page,     \* what the page holds: map and space, and the geometry that its map knows
    isOpen,   \* the dialog is there
    left,     \* ghost: for each space the selection and rotation with which it was left
    typed,    \* ghost: the selection was last set by typing
    acts      \* what MaxActs counts

controllerVars == <<map, current, rotation>>
areaVars == <<controllerVars, view, drag, point, page, isOpen, left, typed, acts>>

Area == [x : Int, y : Int, w : Int, h : Int]
View == [area : Area,       \* rectSelectedArea
         locked : BOOLEAN,  \* proportionsLocked
         ratio : [w : Int, h : Int],  \* proportions, as the sides they were taken from
         fields : Area,     \* the four line edits
         full : BOOLEAN,    \* which radio button
         warning : BOOLEAN] \* the warning that relative mode will not work
Mapping == UNION {[S -> Area] : S \in SUBSET Space}

Larger(a, b) == IF a > b THEN a ELSE b
Smaller(a, b) == IF a < b THEN a ELSE b
Between(low, v, high) == IF v < low THEN low ELSE IF v > high THEN high ELSE v

-----------------------------------------------------------------------------
(* AreaSelectionWidget: the tablet as it is shown. *)

\* tabletGeometryRotated
Tablet(r) == IF r \in {"cw", "ccw"} THEN [x |-> 0, y |-> 0, w |-> Height, h |-> Width]
             ELSE [x |-> 0, y |-> 0, w |-> Width, h |-> Height]

\* A tenth of the longer side is free around the tablet, and five pixels more.
Longer == Larger(Width, Height)
OutOfBoundsUnits == Longer \div 10
ExtraMargin == 5

\* calculateScaleFactor: what is left of the target size, for the tablet and what is
\* free around it; in lowest terms.
ScaleFactor ==
    LET pixels == TargetSize - 2 * ExtraMargin
        units == Longer + 2 * OutOfBoundsUnits
        d == CHOOSE d \in 1..units :
                /\ pixels % d = 0 /\ units % d = 0
                /\ \A e \in (d + 1)..units : pixels % e # 0 \/ units % e # 0
    IN  [num |-> pixels \div d, den |-> units \div d]
Num == ScaleFactor.num
Den == ScaleFactor.den

OutOfBounds == OutOfBoundsUnits * Num
Margin == OutOfBounds + ExtraMargin * Den
Handle == 6 * Den

Scaled(a) == [x |-> a.x * Num + Margin, y |-> a.y * Num + Margin,
              w |-> a.w * Num, h |-> a.h * Num]

\* qRound: to the nearest, halves away from zero.
Rounded(v) == IF v >= 0 THEN (2 * v + Num) \div (2 * Num)
              ELSE -((-2 * v + Num) \div (2 * Num))
Unscaled(a) == [x |-> Rounded(a.x - Margin), y |-> Rounded(a.y - Margin),
                w |-> Rounded(a.w), h |-> Rounded(a.h)]

Display(r) == Scaled(Tablet(r))

\* updateSelectedAreaSize: not larger than the tablet; either the far or the near
\* edges give way.
FarEdgesGiveWay(a, r) ==
    [a EXCEPT !.w = Smaller(@, Display(r).w), !.h = Smaller(@, Display(r).h)]
NearEdgesGiveWay(a, r) ==
    [x |-> a.x + Larger(0, a.w - Display(r).w), y |-> a.y + Larger(0, a.h - Display(r).h),
     w |-> Smaller(a.w, Display(r).w), h |-> Smaller(a.h, Display(r).h)]

WithRatio(v) ==
    IF v.locked /\ v.area.h > 0 THEN [v EXCEPT !.ratio = [w |-> v.area.w, h |-> v.area.h]]
    ELSE v

\* setSelection, without the signal.
SetArea(v, a, r) ==
    LET asked == WithRatio([v EXCEPT !.area = Scaled(IF a.w > 0 /\ a.h > 0 THEN a
                                                     ELSE Tablet(r))])
    IN  [asked EXCEPT !.area = FarEdgesGiveWay(@, r)]

-----------------------------------------------------------------------------
(* TabletAreaSelectionView. *)

\* onFineTuneValuesChanged: what is no number is here a width of 0.
OnFineTuneValuesChanged(v, r) ==
    IF v.fields.w > 0 /\ v.fields.h > 0 THEN SetArea(v, v.fields, r) ELSE v

SetField(v, f, value, r) ==
    IF v.fields[f] = value THEN v
    ELSE OnFineTuneValuesChanged([v EXCEPT !.fields[f] = value], r)

FieldOrder == <<"x", "y", "w", "h">>

\* Mutant of OnSelectionChanged: every field asks the widget anew.
AsksForEachField(v, r) ==
    LET filled[n \in 0..4] ==
            IF n = 0 THEN v
            ELSE SetField(filled[n - 1], FieldOrder[n],
                          Unscaled(filled[n - 1].area)[FieldOrder[n]], r)
    IN  filled[4]

\* onSelectionChanged: the selection is read once, and then written field by field.
OnSelectionChanged(v, r) ==
    LET selection == Unscaled(v.area)
        filled[n \in 0..4] ==
            IF n = 0 THEN v
            ELSE SetField(filled[n - 1], FieldOrder[n], selection[FieldOrder[n]], r)
    IN  filled[4]

\* setSelection and clearSelection, with the signal.
SetSelection(v, a, r) == OnSelectionChanged(SetArea(v, a, r), r)
ClearSelection(v, r) == SetSelection(v, Tablet(r), r)

\* setTabletAreaType; the controller shows the warning for a monitor.
IsMonitor(s) == s \in ToSet(Cycle) \ {Desktop}

SelectFullTablet(v, r, s) ==
    ClearSelection([v EXCEPT !.full = TRUE, !.warning = IsMonitor(s)], r)

SelectPartOfTablet(v, a, r, s) ==
    SetSelection([v EXCEPT !.full = FALSE, !.warning = IsMonitor(s)], a, r)

IsEmpty(a) == a.w <= 0 \/ a.h <= 0
IsFull(a, r) == IsEmpty(a) \/ a = Tablet(r)

\* Controller and view ask the same question, of the same geometry.
SelectOf(v, a, r, s) ==
    IF IsFull(a, r) THEN SelectFullTablet(v, r, s) ELSE SelectPartOfTablet(v, a, r, s)

-----------------------------------------------------------------------------
(* TabletAreaSelectionController, ScreenMap. *)

ConvertToRotation(a, r) ==
    CASE r = "cw"   -> [x |-> Height - a.h - a.y, y |-> a.x, w |-> a.h, h |-> a.w]
      [] r = "ccw"  -> [x |-> a.y, y |-> Width - a.w - a.x, w |-> a.h, h |-> a.w]
      [] r = "half" -> [x |-> Width - a.w - a.x, y |-> Height - a.h - a.y, w |-> a.w, h |-> a.h]
      [] OTHER      -> a

\* Mutant of ConvertFromRotation: the same turn once more.
TurnsOn(a, r) == ConvertToRotation(a, r)

ConvertFromRotation(a, r) ==
    CASE r = "cw"   -> [x |-> a.y, y |-> Height - a.x - a.w, w |-> a.h, h |-> a.w]
      [] r = "ccw"  -> [x |-> Width - a.y - a.h, y |-> a.x, w |-> a.h, h |-> a.w]
      [] r = "half" -> [x |-> Width - a.w - a.x, y |-> Height - a.h - a.y, w |-> a.w, h |-> a.h]
      [] OTHER      -> a

NoArea == [x |-> 0, y |-> 0, w |-> 0, h |-> 0]

\* The map of a page knows the tablet until a profile is loaded, and then an empty one:
\* it stands for the area that is missing, and for one that is empty.
Geometries == {Tablet("none"), NoArea}
MappingOf(m, s) == IF s \in DOMAIN m THEN m[s] ELSE page.geometry

\* Mutant of WithMapping: an empty area is stored as it is.
StoresEmpty(m, s, a) == [t \in DOMAIN m \cup {s} |-> IF t # s THEN m[t] ELSE a]

WithMapping(m, s, a) ==
    [t \in DOMAIN m \cup {s} |-> IF t # s THEN m[t] ELSE IF IsEmpty(a) THEN page.geometry ELSE a]

\* What the controller gets and sets is turned with the tablet.
GetMapping(m, s, r) == ConvertToRotation(MappingOf(m, s), r)
SetMapping(m, s, a, r) == WithMapping(m, s, ConvertFromRotation(a, r))

GetSelection(v) == Unscaled(v.area)

\* Mutant of ToSpace: the selection is kept for the space that is selected now.
KeepsForTheNewOne(m, v, from, to, r) ==
    LET kept == SetMapping(m, to, GetSelection(v), r)
    IN  [map |-> kept, view |-> SelectOf(v, GetMapping(kept, to, r), r, to)]

\* select: the selection is kept for the space that is left, the area of the other one
\* is selected.
ToSpace(m, v, from, to, r) ==
    LET kept == SetMapping(m, from, GetSelection(v), r)
    IN  [map |-> kept, view |-> SelectOf(v, GetMapping(kept, to, r), r, to)]

\* setupController, for the new view of the widget: the tablet as it is turned is shown,
\* all of it selected, and then the area of the desktop.
NewView(r) ==
    [area |-> Display(r), locked |-> FALSE, ratio |-> [w |-> 1, h |-> 1],
     fields |-> NoArea, full |-> TRUE, warning |-> FALSE]
SetupController(m, r) ==
    SelectOf(ClearSelection(NewView(r), r), GetMapping(m, Desktop, r), r, Desktop)

\* ScreenSpace::next
NextSpace(s) ==
    IF s \in Elsewhere THEN Cycle[Smaller(2, Len(Cycle))]
    ELSE Cycle[((CHOOSE i \in DOMAIN Cycle : Cycle[i] = s) % Len(Cycle)) + 1]

Leave(s, v, r) ==
    left' = [left EXCEPT ![s] = [kept |-> TRUE, area |-> GetSelection(v), rotation |-> r]]

-----------------------------------------------------------------------------
(* The user. *)

Act == isOpen /\ acts < MaxActs /\ acts' = acts + 1
NoDrag == drag = "none"

\* The page opens the dialog, hands over its map and selects the space it holds.
Open(r) ==
    /\ ~isOpen /\ acts < MaxActs /\ acts' = acts + 1
    /\ LET desktop == SetupController(page.map, r)
           now == ToSpace(page.map, desktop, Desktop, page.space, r)
       IN  /\ map' = now.map
           /\ view' = now.view
           /\ Leave(Desktop, desktop, r)
    /\ rotation' = r
    /\ current' = page.space
    /\ isOpen' = TRUE
    /\ typed' = FALSE
    /\ UNCHANGED <<page, drag, point>>

\* getScreenMap keeps the selection for the current space.
Accept ==
    /\ isOpen /\ NoDrag
    /\ page' = [page EXCEPT !.map = SetMapping(map, current, GetSelection(view), rotation),
                            !.space = current]
    /\ map' = page'.map
    /\ Leave(current, view, rotation)
    /\ isOpen' = FALSE
    /\ UNCHANGED <<current, rotation, view, drag, point, typed, acts>>

\* The ghost forgets with the dialog.
Cancel ==
    /\ isOpen /\ NoDrag
    /\ isOpen' = FALSE
    /\ left' = [s \in Space |-> [kept |-> FALSE, area |-> NoArea, rotation |-> "none"]]
    /\ UNCHANGED <<controllerVars, view, drag, point, page, typed, acts>>

OnScreenToggle ==
    /\ Act /\ NoDrag
    /\ Len(Cycle) > 2
    /\ LET now == ToSpace(map, view, current, NextSpace(current), rotation)
       IN  /\ map' = now.map
           /\ view' = now.view
    /\ current' = NextSpace(current)
    /\ Leave(current, view, rotation)
    /\ typed' = FALSE
    /\ UNCHANGED <<rotation, drag, point, page, isOpen>>

\* What changes the view only.
ViewOnly == UNCHANGED <<controllerVars, page, isOpen, left>>

\* The radio buttons; a selection for part of the tablet starts with what there is.
OnFullTabletSelected ==
    /\ Act /\ NoDrag /\ ~view.full
    /\ view' = SelectFullTablet(view, rotation, current)
    /\ typed' = FALSE
    /\ ViewOnly /\ UNCHANGED <<drag, point>>

OnTabletAreaSelected ==
    /\ Act /\ NoDrag /\ view.full
    /\ view' = [view EXCEPT !.full = FALSE, !.warning = IsMonitor(current)]
    /\ ViewOnly /\ UNCHANGED <<drag, point, typed>>

OnLockProportionsToggled ==
    /\ Act /\ NoDrag
    /\ view' = WithRatio([view EXCEPT !.locked = ~@])
    /\ ViewOnly /\ UNCHANGED <<drag, point, typed>>

\* The fields are there for a full tablet, too.
EditField(e) ==
    /\ Act /\ NoDrag
    /\ view.fields[e.field] # e.value
    /\ view' = SetField(view, e.field, e.value, rotation)
    /\ typed' = TRUE
    /\ ViewOnly /\ UNCHANGED <<drag, point>>

SetSelectionTo(a) ==
    /\ view' = SelectOf(view, a, rotation, current)
    /\ typed' = FALSE
    /\ ViewOnly /\ UNCHANGED <<drag, point>>

\* onSetScreenProportions: the largest part with the proportions of the screen, in
\* the middle.
OnSetScreenProportions ==
    /\ Act /\ NoDrag
    /\ LET t == Tablet(rotation)
           s == ScreenSize[IF IsMonitor(current) THEN current ELSE Desktop]
           fullWidth == t.w * s.h <= t.h * s.w
           Half(v, d) == (2 * v + d) \div (2 * d)
       IN  SetSelectionTo(
              IF fullWidth
              THEN [x |-> 0, y |-> (t.h * s.w - t.w * s.h) \div (2 * s.w),
                    w |-> t.w, h |-> Half(t.w * s.h, s.w)]
              ELSE [x |-> (t.w * s.h - t.h * s.w) \div (2 * s.h), y |-> 0,
                    w |-> Half(t.h * s.w, s.h), h |-> t.h])

\* calculateNewArea: the distance of the crosses from the edges cancels out.  The
\* dialog knows the tablet as it is built.
Calibrated(tap) ==
    LET Mean(a, b) == ((a + b) * PerPixel) \div 2
        x == Mean(tap["topLeft"].x, tap["bottomLeft"].x)
        y == Mean(tap["topLeft"].y, tap["topRight"].y)
    IN  [x |-> x, y |-> y,
         w |-> Width + Mean(tap["topRight"].x, tap["bottomRight"].x) - x,
         h |-> Height + Mean(tap["bottomLeft"].y, tap["bottomRight"].y) - y]

OnCalibrateClicked == Act /\ NoDrag /\ \E tap \in Taps : SetSelectionTo(Calibrated(tap))

\* Escape leaves the area of the calibration dialog empty.
CalibrationCancelled == Act /\ NoDrag /\ SetSelectionTo(NoArea)

-----------------------------------------------------------------------------
(* The mouse in the widget, which a full tablet disables.  Every handle    *)
(* can be grabbed; along is the axis it moves, across the other one.       *)

Size == [x |-> "w", y |-> "h"]
Across == [x |-> "y", y |-> "x"]

\* With locked proportions: what length v along an axis is across it.  Bound: only
\* where that is a whole number, of proportions that are none of nothing.
Proportional(v, axis) == (v * view.ratio[Size[Across[axis]]]) \div view.ratio[Size[axis]]
LandsOnGrid(v, axis) ==
    view.locked => /\ view.ratio[Size[axis]] > 0
                   /\ (v * view.ratio[Size[Across[axis]]]) % view.ratio[Size[axis]] = 0

\* updateSelectedAreaOnDragRight and -Bottom.
DragFar(axis, at) ==
    LET a == view.area
        d == Display(rotation)
        low == a[axis] + Handle
        high == d[axis] + d[Size[axis]] + OutOfBounds
        size == Between(low, at, high) - a[axis]
        across == Proportional(size, axis)
        pulled == IF view.locked
                  THEN [a EXCEPT ![Size[axis]] = size, ![Size[Across[axis]]] = across]
                  ELSE [a EXCEPT ![Size[axis]] = size]
    IN  /\ LandsOnGrid(size, axis)
        /\ view' = IF view.locked /\ (across < low \/ across > high) THEN view
                   ELSE [view EXCEPT !.area = NearEdgesGiveWay(pulled, rotation)]

\* updateSelectedAreaOnDragLeft and -Top.
DragNear(axis, at) ==
    LET a == view.area
        d == Display(rotation)
        low == d[axis] - OutOfBounds
        high == a[axis] + a[Size[axis]] - Handle
        shift == Between(low, at, high) - a[axis]
        across == Proportional(shift, axis)
        edge == a[Across[axis]] + across
        pulled == IF view.locked
                  THEN [a EXCEPT ![axis] = @ + shift, ![Size[axis]] = @ - shift,
                                 ![Across[axis]] = edge, ![Size[Across[axis]]] = @ - across]
                  ELSE [a EXCEPT ![axis] = @ + shift, ![Size[axis]] = @ - shift]
    IN  /\ LandsOnGrid(shift, axis)
        /\ view' = IF view.locked /\ (edge < low \/ edge > high) THEN view
                   ELSE [view EXCEPT !.area = FarEdgesGiveWay(pulled, rotation)]

\* updateSelectedAreaOnDragArea: an axis that would leave the bounds stays.
DragArea(m) ==
    LET a == view.area
        d == Display(rotation)
        Moved(axis) ==
            LET to == a[axis] + (m[axis] - point[axis]) * Den
                low == d[axis] - OutOfBounds
                high == d[axis] + d[Size[axis]] + OutOfBounds - a[Size[axis]]
            IN  IF to < low \/ high < to THEN a[axis] ELSE to
    IN  view' = [view EXCEPT !.area =
                    FarEdgesGiveWay([a EXCEPT !.x = Moved("x"), !.y = Moved("y")], rotation)]

Inside(m) ==
    \A axis \in {"x", "y"} : /\ view.area[axis] <= m[axis] * Den
                             /\ m[axis] * Den <= view.area[axis] + view.area[Size[axis]]

MousePoint == [x : MouseX, y : MouseY]

\* Mutant of MousePress: the widget of a full tablet takes the mouse, too.
PressesDisabled ==
    /\ Act /\ NoDrag
    /\ drag' \in {"left", "right", "top", "bottom"}
    /\ UNCHANGED <<view, typed, point>>
    /\ ViewOnly

MousePress ==
    /\ Act /\ NoDrag /\ ~view.full
    /\ \/ drag' \in {"left", "right", "top", "bottom"} /\ UNCHANGED point
       \/ \E m \in MousePoint : Inside(m) /\ drag' = "area" /\ point' = m
    /\ UNCHANGED <<view, typed>>
    /\ ViewOnly

MouseMove ==
    /\ \E m \in MousePoint :
          \/ drag = "left" /\ DragNear("x", m.x * Den) /\ UNCHANGED point
          \/ drag = "top" /\ DragNear("y", m.y * Den) /\ UNCHANGED point
          \/ drag = "right" /\ DragFar("x", m.x * Den) /\ UNCHANGED point
          \/ drag = "bottom" /\ DragFar("y", m.y * Den) /\ UNCHANGED point
          \/ drag = "area" /\ DragArea(m) /\ point' = m
    /\ \A axis \in {"x", "y"} : view.locked => view'.area[axis] \in (-Reach)..Reach
    /\ UNCHANGED <<drag, typed, acts>>
    /\ ViewOnly

\* Now the selection is emitted, and rounded.
MouseRelease ==
    /\ ~NoDrag
    /\ drag' = "none"
    /\ point' = [x |-> 0, y |-> 0]
    /\ view' = OnSelectionChanged(view, rotation)
    /\ typed' = FALSE
    /\ UNCHANGED acts
    /\ ViewOnly

-----------------------------------------------------------------------------
AreaInit ==
    /\ map = <<>>
    /\ current = Desktop
    /\ rotation = "none"
    /\ view = [area |-> Display("none"), locked |-> FALSE, ratio |-> [w |-> 1, h |-> 1],
               fields |-> NoArea, full |-> TRUE, warning |-> FALSE]
    /\ drag = "none"
    /\ point = [x |-> 0, y |-> 0]
    /\ \E s \in Space, g \in Geometries : page = [map |-> <<>>, space |-> s, geometry |-> g]
    /\ isOpen = FALSE
    /\ left = [s \in Space |-> [kept |-> FALSE, area |-> NoArea, rotation |-> "none"]]
    /\ typed = FALSE
    /\ acts = 0

Mouse == MousePress \/ MouseMove \/ MouseRelease

AreaNext ==
    \/ \E r \in Rotations : Open(r)
    \/ Accept
    \/ Cancel
    \/ OnScreenToggle
    \/ OnFullTabletSelected
    \/ OnTabletAreaSelected
    \/ OnLockProportionsToggled
    \/ \E e \in Edits : EditField(e)
    \/ OnSetScreenProportions
    \/ OnCalibrateClicked
    \/ CalibrationCancelled
    \/ Mouse

AreaSpec == AreaInit /\ [][AreaNext]_areaVars
-----------------------------------------------------------------------------
(* Properties. *)

AreaTypeOK ==
    /\ \A s \in DOMAIN map : s \in Space /\ map[s] \in Area
    /\ current \in Space
    /\ rotation \in Rotation
    /\ view \in View
    /\ drag \in {"none", "left", "right", "top", "bottom", "area"}
    /\ page.space \in Space /\ page.geometry \in Geometries
    /\ ~NoDrag => isOpen /\ ~view.full

\* However the areas of the screens are dragged, typed and toggled through, and however
\* the tablet is turned when the dialog opens: the area saved for a screen is the part
\* of the tablet that was shown when the screen was left, corner for corner.  An area that
\* locked proportions pulled to nothing is saved as the whole tablet, which for a driver an
\* empty area is, too.
TurnPoint(p, r) ==
    CASE r = "cw"   -> [x |-> Height - p.y, y |-> p.x]
      [] r = "ccw"  -> [x |-> p.y, y |-> Width - p.x]
      [] r = "half" -> [x |-> Width - p.x, y |-> Height - p.y]
      [] OTHER      -> p
Corners(a) == {[x |-> x, y |-> y] : x \in {a.x, a.x + a.w}, y \in {a.y, a.y + a.h}}
MappingsAreKept ==
    \A s \in Space : left[s].kept /\ (isOpen => s # current) =>
        /\ s \in DOMAIN map
        /\ IF IsEmpty(left[s].area) THEN map[s] \in Geometries
           ELSE {TurnPoint(p, left[s].rotation) : p \in Corners(map[s])} = Corners(left[s].area)

\* A screen that is selected again shows the area it was left with: what is saved loses
\* nothing to scaling, rounding or the choice between full tablet and part of it.  An area
\* that locked proportions pulled to nothing is the full tablet when it is seen again, and
\* it is so with the tablet turned another way.
ShownAsLeft ==
    [][isOpen' /\ (~isOpen \/ current' # current) /\ left'[current'].kept =>
          LET was == left'[current']
          IN  /\ IsEmpty(was.area) => GetSelection(view') = Tablet(rotation')
              /\ ~IsEmpty(was.area) /\ was.rotation = rotation' =>
                     GetSelection(view') = was.area]_areaVars

\* When the mouse lets go of an area, the fields get its numbers and the area stays what
\* it is, although every field that is filled sets the selection.  Locked proportions
\* can pull an area to nothing; fields that show that set no selection.
FieldsFollowSelection ==
    [][MouseRelease /\ GetSelection(view).w > 0 /\ GetSelection(view).h > 0 =>
          /\ view'.fields = GetSelection(view)
          /\ GetSelection(view') = GetSelection(view)]_areaVars

\* "Full tablet" is the full tablet, unless the user has typed over it, and the user is
\* warned about relative mode if and only if a monitor is selected: however the selection
\* came to be, by hand, by a button, by a screen that is left.
ChoiceIsTrue ==
    isOpen => /\ view.full /\ ~typed => GetSelection(view) = Tablet(rotation)
              /\ view.warning <=> IsMonitor(current)

\* What is saved and what is chosen is what was and is shown.
AreasAreTrue == MappingsAreKept /\ ChoiceIsTrue

\* With free proportions the mouse takes no edge of an area further off the tablet than
\* the margin, and makes it no smaller than a handle.
NearTablet(a) ==
    \A axis \in {"x", "y"} :
        LET d == Display(rotation)
        IN  /\ d[axis] - OutOfBounds <= a[axis]
            /\ a[axis] + a[Size[axis]] <= d[axis] + d[Size[axis]] + OutOfBounds
            /\ a[Size[axis]] >= Handle
DragsStayNearTablet ==
    [][MouseMove /\ ~view.locked /\ NearTablet(view.area) => NearTablet(view'.area)]_areaVars

\* The mouse sets a selection that fits, and the fields take nothing from it.
SelectionFollowsMouse == FieldsFollowSelection /\ DragsStayNearTablet
=============================================================================
