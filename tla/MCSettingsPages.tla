-------------------------- MODULE MCSettingsPages --------------------------
(* Instances of SettingsPages for TLC. *)
EXTENDS SettingsPages, TLC

Tool(n, left, ring, wheel, touch, map) ==
    [buttons |-> n, left |-> left, right |-> FALSE, ring |-> ring, wheel |-> wheel,
     touch |-> touch, map |-> map]

\* A button is mapped to one that the first tablet does not have and the third one has,
\* as buttons of the Cintiq 21UX2 are.
ThreeTablets ==
    {Tool(2, TRUE, TRUE, FALSE, "builtin", [b \in {"Button2"} |-> "Button3"]),
     Tool(3, FALSE, FALSE, TRUE, "paired", [b \in {"Button3"} |-> "Button8"]),
     Tool(3, FALSE, FALSE, FALSE, "none",
          [b \in {"Button1", "Button2"} |-> IF b = "Button1" THEN "Button8" ELSE "Button3"])}

\* A profile with defaults, one by hand or of an older version, and one not there yet.
ByHand ==
    [NoContents EXCEPT !["pad"]["Button3"] = "9", !["pad"]["Rotate"] = "cw",
                       !["pad"]["AbsWheelUp"] = "8", !["stylus"]["Rotate"] = "cw",
                       !["stylus"]["ScreenSpace"] = "wide", !["eraser"]["Mode"] = "absolute",
                       !["eraser"]["Button1"] = "2", !["touch"]["Mode"] = "absolute"]
SomePresets ==
    "default" :> Created(NoContents, Tool(3, FALSE, FALSE, TRUE, "paired", <<>>))
        @@ "old" :> ByHand @@ "new" :> NoContents

\* Both ends of the diagonal, and a point beyond the left side that is no full percent.
SomePoints == {<<0, 300>>, <<300, 0>>, <<-20, 119>>}

SomeEdits ==
    {[widget |-> <<"pad", "Button2">>, value |-> "7"],
     [widget |-> <<"pad", "StripLeftUp">>, value |-> "6"],
     [widget |-> <<"ring", "AbsWheelUp">>, value |-> "0"],
     [widget |-> <<"wheel", "AbsWheelUp">>, value |-> "6"],
     [widget |-> <<"stylus", "Mode">>, value |-> "relative"],
     [widget |-> <<"touch", "Mode">>, value |-> "relative"],
     [widget |-> <<"touch", "Gesture">>, value |-> "on"]}
=============================================================================
