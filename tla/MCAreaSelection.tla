-------------------------- MODULE MCAreaSelection --------------------------
(* Instances of AreaSelection for TLC. *)
EXTENDS AreaSelection

CONSTANTS wide, tall, region

TwoScreens == <<"desktop", wide, tall>>
Sizes == [s \in {"desktop", wide, tall, region} |->
             CASE s = "desktop" -> [w |-> 40, h |-> 10]
               [] s = wide      -> [w |-> 16, h |-> 10]
               [] OTHER         -> [w |-> 9, h |-> 16]]
SomeEdits == {[field |-> "x", value |-> 7], [field |-> "w", value |-> 40],
              [field |-> "h", value |-> 0]}
Tap(dx, dy) == [c \in Corner |-> [x |-> IF c \in {"topLeft", "bottomLeft"} THEN dx ELSE 0,
                                  y |-> IF c \in {"topLeft", "topRight"} THEN 0 ELSE dy]]
SomeTaps == {Tap(0, 0), Tap(4, -2)}
=============================================================================
