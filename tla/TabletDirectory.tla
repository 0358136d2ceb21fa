--------------------------- MODULE TabletDirectory ---------------------------
(***************************************************************************)
(* What the applet promises its user, whatever is said over D-Bus to keep  *)
(* it: a list of tablets that comes to be the list of those that are       *)
(* there.  It may be behind, it may be emptied and filled again, but it    *)
(* never has a tablet that was not there, and if tablets stay as they are  *)
(* it ends up right, unless a call was lost.                               *)
(***************************************************************************)
CONSTANT Tablet  \* tablets to be shown

VARIABLES
    there,   \* tablets that are there
    heard,   \* tablets that have ever been there
    shown,   \* tablets in the list
    lost     \* an answer did not come in time: nothing more is promised

vars == <<there, heard, shown, lost>>

Init ==
    /\ there = {}
    /\ heard = {}
    /\ shown = {}
    /\ lost = FALSE

Appear(t) ==
    /\ t \notin there
    /\ there' = there \cup {t}
    /\ heard' = heard \cup {t}
    /\ UNCHANGED <<shown, lost>>

Disappear(t) ==
    /\ t \in there
    /\ there' = there \ {t}
    /\ UNCHANGED <<heard, shown, lost>>

\* The daemon stops.
AllDisappear ==
    /\ there' = {}
    /\ UNCHANGED <<heard, shown, lost>>

Show(t) ==
    /\ t \in heard \ shown
    /\ shown' = shown \cup {t}
    /\ UNCHANGED <<there, heard, lost>>

Hide(t) ==
    /\ t \in shown
    /\ shown' = shown \ {t}
    /\ UNCHANGED <<there, heard, lost>>

HideAll ==
    /\ shown' = {}
    /\ UNCHANGED <<there, heard, lost>>

Lose ==
    /\ lost' = TRUE
    /\ UNCHANGED <<there, heard, shown>>

Next ==
    \/ \E t \in Tablet : Appear(t) \/ Disappear(t) \/ Show(t) \/ Hide(t)
    \/ AllDisappear
    \/ HideAll
    \/ Lose

\* Tablets that stay are shown in the end, and stay shown; those that stay away are not.
Settles ==
    \A t \in Tablet :
        /\ <>[](t \in there /\ ~lost) => <>[](t \in shown)
        /\ <>[](t \notin there /\ ~lost) => <>[](t \notin shown)

Spec == Init /\ [][Next]_vars /\ Settles

=============================================================================
