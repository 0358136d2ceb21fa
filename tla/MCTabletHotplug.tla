-------------------------- MODULE MCTabletHotplug --------------------------
(* Instances of TabletHotplug for TLC. *)
EXTENDS TabletHotplug

\* 2 is a pen tablet, 1 its touch sensor; 3 is a tablet no database names.
PenAndTouch == {1, 2}
PenTouchUnnamed == {1, 2, 3}
PairedTouch == [t \in Tablet |-> IF t = 2 THEN 1 ELSE NoTablet]
=============================================================================
