--------------------------- MODULE MCTabletLookup ---------------------------
(* Instances of TabletLookup for TLC. *)
EXTENDS TabletLookup, TLC

\* 1 has the sensor 2, whose number has a letter; 3 is known to libwacom alone.
Has(S) == [p \in Parts |-> IF p \in S THEN "yes" ELSE "no"]
SomeDevices ==
    1 :> [buttons |-> 2, map |-> <<1, 8>>, parts |-> Has({"ring"}), leds |-> 8,
          sensor |-> Text(2, "lower"), isSensor |-> ""]
        @@ 2 :> [buttons |-> 0, map |-> <<>>, parts |-> Has({}), leds |-> 0,
                 sensor |-> NoText, isSensor |-> "yes"]

\* Ten buttons and six more, as libwacom numbers them.
Heuristic(n) == [i \in 1..n |-> CASE i <= 10 -> 255 + i [] i \in 11..16 -> 293 + i
                                  [] OTHER -> 277 + i]
SomeLibWacom ==
    3 :> [codes |-> Heuristic(18), leds |-> 3, parts |-> {"left", "right"}, paired |-> 4]
        @@ 4 :> [codes |-> <<272, 273, 278, 277>>, leds |-> 0, parts |-> {}, paired |-> 0]
        @@ 5 :> [codes |-> <<272, 290>>, leds |-> 0, parts |-> {"ring"}, paired |-> 4]
=============================================================================
