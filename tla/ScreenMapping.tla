--------------------------- MODULE ScreenMapping ---------------------------
(***************************************************************************)
(* Which part of the desktop the tools of a tablet reach, and which way    *)
(* round: the daemon applies a profile, follows the screens as they come,  *)
(* go, move and turn, and serves the shortcuts that change the mapping.    *)
(*                                                                         *)
(*   QGuiApplication --signals-->  TabletHandler  --setProperty-->  the X  *)
(*   global shortcuts --slots-->   (profile)                       driver  *)
(*   D-Bus clients   ----------- setProperty --------------------> of a    *)
(*                                                                 tool    *)
(*                                                                         *)
(* One thread, direct connections: a handler is one step.  The tablets are *)
(* served one after the other and share nothing, so there is one here.     *)
(*                                                                         *)
(* A screen space is the whole desktop, a monitor by its name, a region of *)
(* the desktop, or a speed (a matrix of its own).  The driver is given a   *)
(* matrix: the part of the desktop covered, as fractions of the desktop,   *)
(* so a matrix is as good as the layout of the screens it was made from.   *)
(***************************************************************************)
EXTENDS Integers, FiniteSets

CONSTANTS
    Output,       \* names of monitors, as numbers: the code keeps them in order
    Region,       \* screen spaces "area..."
    Speed,        \* screen spaces "speed..."
    Desktop,      \* the screen space "desktop"
    Geometry,     \* where a screen can be and how large
    Orientation,  \* how a screen can be turned
    Tool,         \* the tools the tablet has
    Contents,     \* bound: what the KCM and the user put into profiles
    ClientTools,     \* bound: tools D-Bus clients set properties of
    ClientRotations  \* bound: rotations they set

\* Every profile has the three of them, whatever the tablet has.
AllTools == {"stylus", "eraser", "touch"}
Pen == {"stylus", "eraser"}
Rotation == {"none", "cw", "half", "ccw"}
Setting == Rotation \cup {"auto", "auto-inverted"}
Mode == {"absolute", "relative"}

NoOutput == 0
Monitor == Output \cup {NoOutput}
Space == {Desktop} \cup Monitor \cup Region \cup Speed

\* What a profile says of the tools.
Content == [space : [AllTools -> Space], mode : [AllTools -> Mode],
            rotate : [AllTools -> Setting]]

ASSUME OutputAssumption == Output \subseteq Nat \ {NoOutput}
ASSUME SpaceAssumption ==
    /\ Desktop \notin Monitor
    /\ ({Desktop} \cup Monitor) \cap (Region \cup Speed) = {}
    /\ Region \cap Speed = {}
ASSUME ToolAssumption == Tool \subseteq AllTools
ASSUME ContentAssumption ==
    /\ Contents \subseteq Content
    /\ ClientTools \subseteq Tool
    /\ ClientRotations \subseteq Rotation
    /\ Orientation \subseteq Rotation

VARIABLES
    screens,  \* QGuiApplication::screens(), by name
    primary,  \* QGuiApplication::primaryScreen()
    saved,    \* the profile in effect, as saved
    matrix,   \* X driver: the Coordinate Transformation Matrix of each tool
    mode,     \* X driver: absolute or relative
    rotation  \* X driver: Rotate

screenVars == <<screens, primary>>
driverVars == <<matrix, mode, rotation>>
mappingVars == <<screenVars, saved, driverVars>>

Screen == [geometry : Geometry, orientation : Orientation]
ScreenMaps == UNION {[S -> Screen] : S \in (SUBSET Output) \ {{}}}

-----------------------------------------------------------------------------
(* ScreensInfo, ScreenSpace. *)

\* getNextScreenName: the name behind o, and the first one behind the last; for a
\* name that is not there the first one, too.  One element.
NextScreens(o, scr) ==
    LET behind == {p \in DOMAIN scr : o \in DOMAIN scr /\ p > o}
        from == IF behind = {} THEN DOMAIN scr ELSE behind
    IN  {p \in from : \A q \in from : p <= q}

\* ScreenSpace::next: from anything but a monitor to the primary screen, on to the
\* next one, and instead of back to the primary screen to the desktop.
NextSpaces(space, scr, prim) ==
    IF space \notin Monitor THEN {prim}
    ELSE {IF o = prim THEN Desktop ELSE o : o \in NextScreens(space, scr)}

\* A monitor that is missing, or the only one, stands for the desktop.
IsValid(space, scr) ==
    space \in Monitor => Cardinality(DOMAIN scr) > 1 /\ space \in DOMAIN scr

\* mapTabletToScreen.  The matrix of a monitor or region depends on the layout.
MatrixOf(space, scr) ==
    LET target == IF IsValid(space, scr) THEN space ELSE Desktop
    IN  [target |-> target,
         layout |-> IF target \in Monitor \cup Region
                    THEN [o \in DOMAIN scr |-> scr[o].geometry]
                    ELSE <<>>]

-----------------------------------------------------------------------------
(* TabletHandler. *)

\* The values for the tools given, but not for those the tablet has not.
For(tools, new, old) == [t \in AllTools |-> IF t \in tools \cap Tool THEN new[t] ELSE old[t]]

\* Mutant of SavedProfile: what the driver was given is saved.
SavesValidSpace(scr, prof, tools, space, m) ==
    LET valid == [t \in AllTools |-> IF IsValid(space[t], scr) THEN space[t] ELSE Desktop]
    IN  [prof EXCEPT !.space = For(tools, valid, prof.space), !.mode = For(tools, m, prof.mode)]

\* mapDeviceToOutput for the tools given: the profile keeps a monitor that is missing ...
SavedProfile(scr, prof, tools, space, m) ==
    [space |-> For(tools, space, prof.space), mode |-> For(tools, m, prof.mode),
     rotate |-> prof.rotate]

\* ... and the driver gets what the screens allow.
MapDevices(scr, prof, tools, space, m) ==
    /\ saved' = SavedProfile(scr, prof, tools, space, m)
    /\ matrix' = [t \in Tool |-> IF t \in tools THEN MatrixOf(space[t], scr) ELSE matrix[t]]
    /\ mode' = [t \in Tool |-> IF t \in tools THEN m[t] ELSE mode[t]]

\* Mutant of WithStylus: every tool has its own.
KeepsItsOwn(f) == [t \in AllTools |-> f[t]]

\* mapTabletToCurrentScreenSpace: the eraser goes with the stylus.
WithStylus(f) == [t \in AllTools |-> IF t = "touch" THEN f["touch"] ELSE f["stylus"]]
MapTabletToCurrent(scr, prof) ==
    MapDevices(scr, prof, AllTools, WithStylus(prof.space), WithStylus(prof.mode))

\* mapPenToScreenSpace: always in absolute mode.
MapPen(space) ==
    /\ MapDevices(screens, saved, Pen, [t \in AllTools |-> space],
                  [t \in AllTools |-> "absolute"])
    /\ UNCHANGED <<screenVars, rotation>>

Invert(r) == CASE r = "cw" -> "ccw" [] r = "ccw" -> "cw" [] OTHER -> r

\* autoRotateTablet: when it turns the tablet, for a screen that was turned or for
\* NoOutput when there is none ...
TurnsTablet(scr, prof, output) ==
    LET space == prof.space["stylus"]
        alone == Cardinality(DOMAIN scr) = 1
    IN  /\ prof.rotate["stylus"] \in {"auto", "auto-inverted"}
        /\ space \in Monitor \/ alone
        /\ output \in {NoOutput, space} \/ alone

\* ... and which way: without a screen, that of the monitor named in the profile.
Turn(scr, prof, output) ==
    LET o == IF output = NoOutput THEN prof.space["stylus"] ELSE output
        r == IF o \in DOMAIN scr THEN scr[o].orientation ELSE "none"
    IN  IF prof.rotate["stylus"] = "auto-inverted" THEN Invert(r) ELSE r

AutoRotated(scr, prof, output) ==
    [t \in Tool |-> IF TurnsTablet(scr, prof, output) THEN Turn(scr, prof, output)
                    ELSE rotation[t]]

\* Mutant of AppliedRotation: any setting of the profile goes to the driver.
AppliesAutoSetting(prof, turned) == [t \in Tool |-> prof.rotate[t]]

\* TabletBackend::setProfile: a setting that is a rotation goes to the driver.
AppliedRotation(prof, turned) ==
    [t \in Tool |-> IF prof.rotate[t] \in Rotation THEN prof.rotate[t] ELSE turned[t]]

\* setProfile, of a profile with this content: turned, mapped, saved and applied.
SetProfileContent(content) ==
    /\ MapTabletToCurrent(screens, content)
    /\ rotation' = AppliedRotation(content, AutoRotated(screens, content, NoOutput))
    /\ UNCHANGED screenVars

\* onTogglePenMode: the mapping stays, the mode of the stylus changes and the eraser
\* goes with it.
OnTogglePenMode ==
    /\ "stylus" \in Tool
    /\ LET toggled == IF saved.mode["stylus"] = "relative" THEN "absolute" ELSE "relative"
       IN  MapDevices(screens, saved, Pen, WithStylus(saved.space),
                      [t \in AllTools |-> toggled])
    /\ UNCHANGED <<screenVars, rotation>>

OnToggleScreenMapping ==
    \E space \in NextSpaces(saved.space["stylus"], screens, primary) : MapPen(space)

OnMapToFullScreen == MapPen(Desktop)

OnMapToScreen1 == MapPen(primary)

OnMapToScreen2 ==
    /\ Cardinality(DOMAIN screens) > 1
    /\ \E space \in NextSpaces(primary, screens, primary) : MapPen(space)

\* The applet sets a property of a tool; the profile is not told.
SetMode(t, m) ==
    /\ mode' = [mode EXCEPT ![t] = m]
    /\ UNCHANGED <<screenVars, saved, matrix, rotation>>

SetRotation(t, r) ==
    /\ rotation' = [rotation EXCEPT ![t] = r]
    /\ UNCHANGED <<screenVars, saved, matrix, mode>>

-----------------------------------------------------------------------------
(* The screens.  Qt has changed its list when it emits the signal. *)

\* Mutant of FollowScreens: only the stylus and the eraser are mapped again.
FollowsWithPenOnly ==
    /\ MapDevices(screens', saved, Pen, WithStylus(saved.space), WithStylus(saved.mode))
    /\ UNCHANGED rotation

\* onScreenAddedRemoved, onScreenGeometryChanged
FollowScreens ==
    /\ MapTabletToCurrent(screens', saved)
    /\ UNCHANGED rotation

ScreenAdded(o, screen) ==
    /\ o \notin DOMAIN screens
    /\ screens' = [p \in DOMAIN screens \cup {o} |-> IF p = o THEN screen ELSE screens[p]]
    /\ primary' \in {primary, o}
    /\ FollowScreens

\* X keeps one screen.
ScreenRemoved(o) ==
    /\ o \in DOMAIN screens
    /\ DOMAIN screens # {o}
    /\ screens' = [p \in DOMAIN screens \ {o} |-> screens[p]]
    /\ primary' \in DOMAIN screens'
    /\ primary # o => primary' = primary
    /\ FollowScreens

PrimaryScreenChanged(o) ==
    /\ o \in DOMAIN screens \ {primary}
    /\ primary' = o
    /\ UNCHANGED screens
    /\ FollowScreens

GeometryChanged(o, g) ==
    /\ o \in DOMAIN screens
    /\ screens[o].geometry # g
    /\ screens' = [screens EXCEPT ![o].geometry = g]
    /\ UNCHANGED primary
    /\ FollowScreens

OnScreenRotated(o, r) ==
    /\ o \in DOMAIN screens
    /\ screens[o].orientation # r
    /\ screens' = [screens EXCEPT ![o].orientation = r]
    /\ UNCHANGED primary
    /\ rotation' = AutoRotated(screens', saved, o)
    /\ MapTabletToCurrent(screens', saved)

-----------------------------------------------------------------------------
\* A tablet has been added and its profile set.
MappingInit ==
    \E content \in Contents :
        /\ screens \in ScreenMaps
        /\ primary \in DOMAIN screens
        /\ saved = SavedProfile(screens, content, AllTools, WithStylus(content.space),
                                  WithStylus(content.mode))
        /\ matrix = [t \in Tool |-> MatrixOf(WithStylus(content.space)[t], screens)]
        /\ mode = [t \in Tool |-> WithStylus(content.mode)[t]]
        /\ rotation = AppliedRotation(content, [t \in Tool |->
                          IF TurnsTablet(screens, content, NoOutput)
                          THEN Turn(screens, content, NoOutput) ELSE "none"])

Handler ==
    \/ \E content \in Contents : SetProfileContent(content)
    \/ OnTogglePenMode
    \/ OnToggleScreenMapping
    \/ OnMapToFullScreen
    \/ OnMapToScreen1
    \/ OnMapToScreen2

ScreenChange ==
    \/ \E o \in Output, screen \in Screen : ScreenAdded(o, screen)
    \/ \E o \in Output : ScreenRemoved(o)
    \/ \E o \in Output : PrimaryScreenChanged(o)
    \/ \E o \in Output, g \in Geometry : GeometryChanged(o, g)
    \/ \E o \in Output, r \in Orientation : OnScreenRotated(o, r)

Client ==
    \/ \E t \in ClientTools, m \in Mode : SetMode(t, m)
    \/ \E t \in ClientTools, r \in ClientRotations : SetRotation(t, r)

MappingNext == Handler \/ ScreenChange \/ Client

MappingSpec == MappingInit /\ [][MappingNext]_mappingVars
-----------------------------------------------------------------------------
(* Properties. *)

MappingTypeOK ==
    /\ screens \in ScreenMaps
    /\ primary \in DOMAIN screens
    /\ saved \in Content
    /\ mode \in [Tool -> Mode]
    /\ rotation \in [Tool -> Rotation]

\* Every tool reaches the part of the desktop its profile says, as the screens are now:
\* no matrix is left from an older layout, a monitor that is gone stands for the whole
\* desktop, and one that comes back is mapped to again.
MatrixFollowsProfile ==
    \A t \in Tool : matrix[t] = MatrixOf(saved.space[t], screens)

\* The two ends of the pen are saved with the same mapping and mode, whatever the
\* profile held before it was set.
EraserFollowsStylus ==
    "eraser" \in Tool /\ "stylus" \in Tool =>
        /\ saved.space["eraser"] = saved.space["stylus"]
        /\ saved.mode["eraser"] = saved.mode["stylus"]

\* Screens that come, go, move and turn never change what the user has saved
\* (tablethandler.cpp: "do not override this in the saved profile, because it breaks
\* user settings if they disconnect external tablet").
ScreensKeepProfile == [][ScreenChange => saved' = saved]_mappingVars

\* A screen that is turned turns the tablet only where the profile leaves it to the
\* screens, and with several of them only the one the stylus is mapped to; nothing else
\* about the screens turns it.
ScreensTurnAutoOnly ==
    [][ScreenChange /\ rotation' # rotation =>
          /\ saved.rotate["stylus"] \notin Rotation
          /\ Cardinality(DOMAIN screens) > 1 =>
                saved.space["stylus"] \in {o \in DOMAIN screens :
                    screens'[o].orientation # screens[o].orientation}]_mappingVars

\* Screens act on the tablet, never on the profile, and turn it only where they may.
ScreensOnlyAct == ScreensKeepProfile /\ ScreensTurnAutoOnly
=============================================================================
