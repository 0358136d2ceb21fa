-------------------------- MODULE MCDriverAccess --------------------------
(* A pen tablet with touch and a mouse, plugged in any order under two ids *)
(* or three.                                                               *)
EXTENDS DriverAccess, TLC

CONSTANT NotANumber

Wacom == {"Wacom Tool Type", "Wacom Serial IDs", "Rotate", "Area", "ScreenSpace"}

Pen == [name |-> "pen", tool |-> "STYLUS", serial |-> 7, vendor |-> 1, buttons |-> 7,
        has |-> Wacom \cup {"Device Product ID", "CursorAccelProfile"}]
Finger == [name |-> "finger", tool |-> "TOUCH", serial |-> 7, vendor |-> 1, buttons |-> 3,
           has |-> Wacom \cup {"Touch"}]
Mouse == [name |-> "mouse", tool |-> "", serial |-> 0, vendor |-> 2, buttons |-> 5,
          has |-> {"Device Product ID", "CursorAccelProfile", "ScreenSpace"}]
PenFingerMouse == {Pen, Finger, Mouse}

Whole == <<0, 0, 4, 3>>
Left == <<0, 0, 2, 3>>
Entry(rotate, area, touch, accel, invert, space) ==
    [Rotate |-> rotate, Area |-> area, Touch |-> touch, CursorAccelProfile |-> accel,
     InvertScroll |-> invert, ScreenSpace |-> space]

\* One that is turned and mapped, one that follows the screen.
Turned180 ==
    [stylus |-> Entry("half", Left, Empty, 1, "on", "speed"),
     eraser |-> Entry("half", Left, Empty, 1, "on", "desktop"),
     touch |-> Entry("half", Left, "off", Empty, "off", "desktop")]
Follows ==
    [stylus |-> Entry("auto", Left, Empty, Empty, Empty, "desktop"),
     eraser |-> Entry("auto", Left, Empty, Empty, Empty, "desktop"),
     touch |-> Entry("auto", Reset, "on", Empty, Empty, "desktop")]
TwoProfiles == {Turned180, Follows}

ClientAsks ==
    {<<"touch", "Touch", "off">>, <<"stylus", "Rotate", "auto">>, <<"stylus", "Rotate", "upside-down">>,
     <<"stylus", "CursorAccelProfile", NotANumber>>}
Positions == (Turned180 :> 5) @@ (Follows :> -1)
=============================================================================
