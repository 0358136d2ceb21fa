-------------------------- MODULE MCScreenMapping --------------------------
(* Instances of ScreenMapping for TLC. *)
EXTENDS ScreenMapping

\* What the KCM saves: one rotation for all tools, or, for a turn to one side, the
\* other side for touch; the eraser may have a mapping of its own in an older file.
Turned(r) == [t \in AllTools |-> IF t = "touch" THEN Invert(r) ELSE r]
Absolute == [t \in AllTools |-> "absolute"]
ProfileContents(spaces, touchSpaces, settings) ==
    {[space |-> [t \in AllTools |-> IF t = "stylus" THEN s
                                    ELSE IF t = "eraser" THEN Desktop ELSE u],
      mode |-> Absolute, rotate |-> Turned(r)] :
        s \in spaces, u \in touchSpaces, r \in settings}

MappedContents == ProfileContents({1} \cup Region \cup Speed, {2}, {"cw", "auto-inverted"})
=============================================================================
