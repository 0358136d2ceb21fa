--------------------------- MODULE SettingsPages ---------------------------
(***************************************************************************)
(* What the pages of the settings module make of a profile, and what the   *)
(* driver is told of it.                                                   *)
(*                                                                         *)
(*   file --loadFromProfile--> form --saveToProfile--> file                *)
(*   file --setProfile, the daemon--> driver                               *)
(*   form --pressure curve dialog, while it is open--> driver              *)
(*                                                                         *)
(* Stylus, button, tablet and touch page load and save one after the other *)
(* and meet in the devices of a profile: three of them write the stylus or *)
(* what follows it, the tablet page tells the touch page how the tablet is *)
(* turned.  Which tablet and profile are chosen when, with dialogs that    *)
(* nest, is ProfileSession; what the daemon does about screens and         *)
(* rotation is ScreenMapping.                                              *)
(*                                                                         *)
(* A stored value is a string; "" is an entry that is not there.           *)
(***************************************************************************)
EXTENDS PressureCurve, SequencesExt

CONSTANTS
    Profile,     \* names of profiles
    Presets,     \* what each of them contains at first; some do not exist
    Tablets,     \* the tablet is one of these
    XButtons,    \* further buttons X knows, which no tablet button is named for
    Rotations,   \* bound: what the user selects as rotation
    Edits,       \* bound: what the user sets widgets to
    Spaces,      \* bound: the screen spaces the user selects
    MaxActs      \* bound: acts of the user

Device == {"pad", "stylus", "eraser", "touch"}
Buttons == <<"Button1", "Button2", "Button3">>  \* bound: the page has 18 for the pad
Strips == {"StripLeftUp", "StripLeftDown", "StripRightUp", "StripRightDown"}
Wheels == {"AbsWheelUp", "AbsWheelDown"}
Wheels2 == {"AbsWheel2Up", "AbsWheel2Down"}
Shortcuts == ToSet(Buttons) \cup Strips \cup Wheels \cup Wheels2
Numbers == {"Threshold", "RawSample", "Suppress", "ScrollDistance", "ZoomDistance", "TapTime"}
Boxes == {"TabletPcButton", "Touch", "Gesture", "InvertScroll"}
Property == Shortcuts \cup Numbers \cup Boxes
            \cup {"PressureCurve", "Rotate", "Mode", "ScreenSpace", "ScreenMap"}

\* A widget is named for the entry it is loaded from; the selectors of ring and wheel
\* are loaded from the same.
StylusPage ==
    {"stylus"} \X (ToSet(Buttons) \cup {"Threshold", "PressureCurve", "TabletPcButton",
                                        "RawSample", "Suppress"})
    \cup {"eraser"} \X {"Threshold", "PressureCurve"}
ButtonPage == {"pad"} \X (ToSet(Buttons) \cup Strips) \cup {"ring", "wheel"} \X Wheels
TabletPage == {"stylus"} \X {"Mode", "ScreenSpace", "ScreenMap"}
TouchPage == {"touch"} \X {"Touch", "Mode", "ScreenSpace", "ScreenMap", "Gesture",
                           "ScrollDistance", "InvertScroll", "ZoomDistance", "TapTime"}
Widget == StylusPage \cup ButtonPage \cup TabletPage \cup TouchPage

FixedRotation == {"none", "cw", "half", "ccw"}
Rotation == FixedRotation \cup {"auto", "auto-inverted"}

NoEntries == [p \in Property |-> ""]
NoContents == [d \in Device |-> NoEntries]

ASSUME InputAssumption ==
    /\ Presets \in [Profile -> [Device -> [Property -> STRING]]]
    /\ \A t \in Tablets :
          /\ t.buttons \in 0..Len(Buttons) /\ t.left \in BOOLEAN /\ t.right \in BOOLEAN
          /\ t.ring \in BOOLEAN /\ t.wheel \in BOOLEAN
          /\ t.touch \in {"none", "builtin", "paired"}
          /\ DOMAIN t.map \subseteq ToSet(Buttons)
          /\ \A b \in DOMAIN t.map : t.map[b] \in ToSet(Buttons) \cup XButtons
    /\ \A e \in Edits :
          e.widget \in Widget /\ e.widget[2] # "PressureCurve" /\ e.value # ""
    /\ Rotations \subseteq FixedRotation /\ MaxActs \in Nat

VARIABLES
    tablet,   \* the tablet that is selected, with what the database says of it
    file,     \* the profiles of the tablet; those of a paired sensor have its touch
    driver,   \* what was set last, for each device; of the pad, by button of X
    profile,  \* the profile that is selected
    form,     \* what the widgets show
    turn,     \* rotation selector, its boxes, and _tabletRotation of the touch page
    changed,  \* profileChanged
    curve,    \* the pressure curve dialog
    saved,    \* ghost: profiles as they were saved from this form
    reset,    \* ghost: the form was reset, and no profile has been set since
    acts      \* what MaxActs counts

vars == <<tablet, file, driver, profile, form, turn, changed, curve, saved, reset, acts>>

Turn == [combo : FixedRotation, auto : BOOLEAN, invert : BOOLEAN, told : Rotation]
Closed == [device |-> "none"]

Has(c) == c # NoContents
Put(c, d, entries) == [c EXCEPT ![d] = [p \in Property |-> IF p \in DOMAIN entries
                                                           THEN entries[p] ELSE @[p]]]

-----------------------------------------------------------------------------
(* Loading. *)

\* A map that has the area of a space without a name only is read without it.
NamelessMap == "desktop|nameless"
DesktopMap == "desktop"

\* The tracking of pen and touch: setTrackingMode, setScreenMap, setScreenSpace.
ReadTracking(p, v) ==
    CASE v = NamelessMap /\ p = "ScreenMap" -> DesktopMap
      [] v = "" /\ p = "Mode"               -> "relative"
      [] OTHER                              -> v

\* What a widget shows for an entry: shortcuts that are not set are "0", sliders stop
\* at their minimum.
Read(p, v) ==
    IF p \in {"Mode", "ScreenSpace", "ScreenMap"} THEN ReadTracking(p, v)
    ELSE IF v # "" THEN v
    ELSE CASE p \in Shortcuts               -> "0"
           [] p = "RawSample"               -> "1"
           [] p \in Numbers \ {"RawSample"} -> "0"
           [] p \in Boxes                   -> "off"
           [] OTHER                         -> ""

Source(w) == IF w[1] \in {"ring", "wheel"} THEN "pad" ELSE w[1]

\* Mutant of LoadForm: the touch page takes its mode from the stylus.
LoadsOneMode(c) ==
    [w \in Widget |-> IF w = <<"touch", "Mode">> THEN Read("Mode", c["stylus"]["Mode"])
                      ELSE Read(w[2], c[Source(w)][w[2]])]

\* loadFromProfile of all pages.
LoadForm(c) == [w \in Widget |-> Read(w[2], c[Source(w)][w[2]])]

Invert(r) == CASE r = "cw" -> "ccw" [] r = "ccw" -> "cw" [] OTHER -> r

GetRotation(u) == IF u.auto THEN IF u.invert THEN "auto-inverted" ELSE "auto" ELSE u.combo

OnRotationChanged(u) == [u EXCEPT !.told = Invert(GetRotation(u))]

\* Mutant of SetRotation: nothing is said of a rotation that is loaded.
TurnsSilently(u, r) ==
    CASE r = "auto"          -> [u EXCEPT !.combo = "none", !.auto = TRUE]
      [] r = "auto-inverted" -> [u EXCEPT !.combo = "none", !.auto = TRUE, !.invert = TRUE]
      [] OTHER               -> [u EXCEPT !.combo = IF r \in FixedRotation THEN r ELSE "none"]

\* The boxes are checked here and never cleared.
SetRotation(u, r) ==
    OnRotationChanged(
        CASE r = "auto"          -> [u EXCEPT !.combo = "none", !.auto = TRUE]
          [] r = "auto-inverted" -> [u EXCEPT !.combo = "none", !.auto = TRUE, !.invert = TRUE]
          [] OTHER -> [u EXCEPT !.combo = IF r \in FixedRotation THEN r ELSE "none"])

LoadTurn(c, u) == SetRotation(u, c["stylus"]["Rotate"])

-----------------------------------------------------------------------------
(* Saving.  f is the form, c the contents before. *)

StylusShared == ToSet(Buttons) \cup {"RawSample", "Suppress"}
SavePropertiesToDeviceProfile(c, f, d) ==
    Put(c, d, [p \in StylusShared \cup {"Threshold", "PressureCurve"} |->
                  f[IF p \in StylusShared THEN <<"stylus", p>> ELSE <<d, p>>]])

SaveStylusPage(c, f) ==
    Put(SavePropertiesToDeviceProfile(SavePropertiesToDeviceProfile(c, f, "stylus"), f, "eraser"),
        "stylus", [p \in {"TabletPcButton"} |-> f[<<"stylus", p>>]])

Number(b) == CHOOSE i \in DOMAIN Buttons : Buttons[i] = b

\* Mutant of SaveButtonPage: what the hidden selectors hold is saved, too.
SavesAllButtons(c, f, t) ==
    Put(c, "pad", [p \in ToSet(Buttons) \cup Strips |-> f[<<"pad", p>>]])

HasStrip(p, t) == IF p \in {"StripLeftUp", "StripLeftDown"} THEN t.left ELSE t.right

\* Ring and wheel share their entries: the value is that of the ring, if it is set.
Turned(f, t, p) ==
    IF ~t.ring /\ ~t.wheel THEN ""
    ELSE IF f[<<"ring", p>>] # "0" THEN f[<<"ring", p>>]
    ELSE f[<<"wheel", p>>]

\* What the tablet does not have is removed.
ButtonEntry(f, t, p) ==
    CASE p \in ToSet(Buttons) -> IF Number(p) <= t.buttons THEN f[<<"pad", p>>] ELSE ""
      [] p \in Strips         -> IF HasStrip(p, t) THEN f[<<"pad", p>>] ELSE ""
      [] p \in Wheels         -> Turned(f, t, p)
      [] p = "AbsWheel2Up"    -> Turned(f, t, "AbsWheelUp")
      [] p = "AbsWheel2Down"  -> Turned(f, t, "AbsWheelDown")

SaveButtonPage(c, f, t) == Put(c, "pad", [p \in Shortcuts |-> ButtonEntry(f, t, p)])

WithRotate(entries, r) ==
    [p \in DOMAIN entries \cup {"Rotate"} |-> IF p = "Rotate" THEN r ELSE entries[p]]

\* What the getters of the tablet page and of the touch page give.
PenEntries(f) == [p \in {w[2] : w \in TabletPage} |-> f[<<"stylus", p>>]]
TouchEntries(f) == [p \in {w[2] : w \in TouchPage} |-> f[<<"touch", p>>]]

\* The touch page, which comes later, overwrites the rotation of the touch device.
SaveTabletPage(c, f, u, t) ==
    LET pen == WithRotate(PenEntries(f), GetRotation(u))
        turned == [p \in {"Rotate"} |-> GetRotation(u)]
        pad == [p \in {"Rotate", "ScreenSpace", "ScreenMap"} |-> ""]
        written == Put(Put(Put(c, "pad", pad), "stylus", pen), "eraser", pen)
    IN  IF t.touch = "builtin" THEN Put(written, "touch", turned) ELSE written

SaveTouchPage(c, f, u, t) ==
    IF t.touch = "none" THEN c
    ELSE Put(c, "touch", WithRotate(TouchEntries(f), u.told))

\* saveProfile
SaveForm(c, f, u, t) ==
    SaveTouchPage(SaveTabletPage(SaveButtonPage(SaveStylusPage(c, f), f, t), f, u, t), f, u, t)

-----------------------------------------------------------------------------
(* The daemon. *)

\* mapTabletToCurrentScreenSpace: the eraser is mapped like the stylus, and that is
\* saved.
Mapped(c) ==
    Put(c, "eraser", [p \in {"Mode", "ScreenSpace"} |-> c["stylus"][p]])

\* convertParameter
ButtonMap(t, d, p) == IF d = "pad" /\ p \in DOMAIN t.map THEN t.map[p] ELSE p

\* What may be in a profile at first.  One that is there is still there when it was
\* mapped, and its curves were drawn with the dialog.
ASSUME PresetAssumption ==
    \A p \in Profile :
        /\ Has(Presets[p]) => Has(Mapped(Presets[p]))
        /\ \A d \in {"stylus", "eraser"} :
              LET drawn == Presets[p][d]["PressureCurve"]
              IN  drawn # "" => \E q \in DOMAIN Texts : Opposite(q) /\ drawn = Texts[q]

ASSUME MapAssumption == XButtons \cap Property = {}

\* TabletBackend::setProfile: entries that are there are set in the order of the
\* adaptors, of which buttons alone can meet.  Rotation and mapping are ScreenMapping's.
Driven == Property \ {"Rotate", "ScreenSpace", "ScreenMap"}
DriverKey == Driven \cup XButtons
Devices(t) == Device \ (IF t.touch = "none" THEN {"touch"} ELSE {})

SetDevice(before, c, d, t) ==
    [x \in DriverKey |->
        LET given == {p \in Driven : ButtonMap(t, d, p) = x /\ c[d][p] # ""}
            last == IF given \cap ToSet(Buttons) = {} THEN CHOOSE p \in given : TRUE
                    ELSE CHOOSE p \in given : \A q \in given : Number(q) <= Number(p)
        IN  IF given = {} THEN before[x] ELSE c[d][last]]

SetProfile(before, c, t) ==
    [d \in Device |-> IF d \in Devices(t) THEN SetDevice(before[d], c, d, t) ELSE before[d]]

\* setProperty of the pressure curve; xsetwacom takes no empty one.
SetCurve(before, d, v) ==
    IF v = "" THEN before ELSE [before EXCEPT ![d]["PressureCurve"] = v]

-----------------------------------------------------------------------------
(* The user. *)

Act == curve = Closed /\ acts < MaxActs /\ acts' = acts + 1

\* What is there to be edited: of the pad, what the tablet has; of touch, what is not
\* disabled by the box for touch or the one for gestures.
Present(w, t) ==
    CASE w[2] \in ToSet(Buttons) -> Number(w[2]) <= t.buttons
      [] w[1] = "ring"           -> t.ring
      [] w[1] = "wheel"          -> t.wheel
      [] OTHER                   -> HasStrip(w[2], t)

TouchEnabled(w, f, t) ==
    /\ t.touch # "none"
    /\ w[2] \in Numbers \cup {"InvertScroll"} => f[<<"touch", "Gesture">>] = "on"
    /\ w[2] \in {"Mode", "ScreenSpace", "ScreenMap", "Gesture"} => f[<<"touch", "Touch">>] = "on"

Shown(w, f, t) ==
    /\ w \in ButtonPage => Present(w, t)
    /\ w \in TouchPage => TouchEnabled(w, f, t)

EditOnly == UNCHANGED <<tablet, file, profile, saved, reset>>

Edit(e) ==
    /\ Act
    /\ Shown(e.widget, form, tablet)
    /\ form[e.widget] # e.value
    /\ form' = [form EXCEPT ![e.widget] = e.value]
    /\ changed' = TRUE
    /\ EditOnly /\ UNCHANGED <<driver, turn, curve>>

EditTurn(u) ==
    /\ turn' = OnRotationChanged(u)
    /\ changed' = TRUE
    /\ EditOnly /\ UNCHANGED <<driver, form, curve>>

SelectRotation(r) ==
    /\ Act
    /\ ~turn.auto /\ turn.combo # r
    /\ EditTurn([turn EXCEPT !.combo = r])

\* setAutoRotationEnabled
OnAutoRotateChanged ==
    /\ Act
    /\ EditTurn(IF turn.auto THEN [turn EXCEPT !.auto = FALSE, !.invert = FALSE]
                ELSE [turn EXCEPT !.auto = TRUE, !.combo = "none"])

InvertToggled ==
    /\ Act
    /\ turn.auto
    /\ EditTurn([turn EXCEPT !.invert = ~@])

\* Space and areas come from the dialog for the areas, which begins with the desktop
\* and keeps the areas of the spaces it was at.
OnTabletMappingClicked(d, s) ==
    /\ Act
    /\ Shown(<<d, "ScreenMap">>, form, tablet)
    /\ s \in Spaces \cup {form[<<d, "ScreenSpace">>]}
    /\ form' = [form EXCEPT ![<<d, "ScreenSpace">>] = s,
                            ![<<d, "ScreenMap">>] = CASE s = ""        -> NamelessMap
                                                      [] s = "desktop" -> DesktopMap
                                                      [] OTHER         -> "desktop|" \o s]
    /\ changed' = TRUE
    /\ EditOnly /\ UNCHANGED <<driver, turn, curve>>

OpenPressureCurveDialog(d) ==
    /\ Act
    /\ LET start == form[<<d, "PressureCurve">>]
       IN  curve' = [device |-> d, start |-> start, points |-> Text(ControlPoints(start)),
                     widget |-> SetControlPoints(ControlPoints(start)), down |-> FALSE]
    /\ EditOnly /\ UNCHANGED <<driver, form, turn, changed>>

InCurveDialog == EditOnly /\ UNCHANGED <<form, turn, changed>>
Grabs == acts < MaxActs /\ acts' = acts + 1

\* updateControlPoints: the driver has each curve as it is drawn.
UpdateControlPoints(v) == driver' = SetCurve(driver, curve.device, v)

MousePress(pos) ==
    /\ curve # Closed /\ ~curve.down
    /\ Grabs
    /\ curve' = [curve EXCEPT !.widget = SetNearestPoint(@, pos), !.down = TRUE]
    /\ InCurveDialog /\ UNCHANGED driver

\* A point that is held is moved; the text is told in any case.
Drag(pos) ==
    LET moved == MoveControlPoint(curve.widget, pos)
    IN  /\ curve' = [curve EXCEPT !.widget = moved, !.points = PointsString(moved)]
        /\ UpdateControlPoints(PointsString(moved))

MouseMove(pos) ==
    /\ curve # Closed /\ curve.down
    /\ Drag(pos)
    /\ InCurveDialog /\ UNCHANGED acts

MouseRelease ==
    /\ curve # Closed /\ curve.down
    /\ curve' = [curve EXCEPT !.widget.active = 0, !.down = FALSE]
    /\ InCurveDialog /\ UNCHANGED <<driver, acts>>

\* tabletEvent: a pen that is pressed takes a point, or moves the one that is held ...
PenPressed(pos) ==
    /\ curve # Closed
    /\ \/ /\ curve.widget.active > 0
          /\ Drag(pos)
          /\ UNCHANGED acts
       \/ /\ curve.widget.active = 0
          /\ Grabs
          /\ curve' = [curve EXCEPT !.widget = SetNearestPoint(@, pos)]
          /\ UNCHANGED driver
    /\ InCurveDialog

\* ... and one that is not lets it go.
PenLifted ==
    /\ curve # Closed /\ curve.widget.active > 0
    /\ curve' = [curve EXCEPT !.widget.active = 0]
    /\ InCurveDialog /\ UNCHANGED <<driver, acts>>

AcceptCurve ==
    /\ curve # Closed
    /\ IF curve.points = curve.start THEN UNCHANGED <<form, changed>>
       ELSE /\ form' = [form EXCEPT ![<<curve.device, "PressureCurve">>] = curve.points]
            /\ changed' = TRUE
    /\ curve' = Closed
    /\ EditOnly /\ UNCHANGED <<driver, turn, acts>>

RejectCurve ==
    /\ curve # Closed
    /\ driver' = SetCurve(driver, curve.device, curve.start)
    /\ curve' = Closed
    /\ EditOnly /\ UNCHANGED <<form, turn, changed, acts>>

\* reloadProfile, then applyProfile, from files f and what the driver had before.
LoadAndApply(f, before, p) ==
    /\ file' = [f EXCEPT ![p] = Mapped(@)]
    /\ driver' = SetProfile(before, Mapped(f[p]), tablet)
    /\ form' = LoadForm(f[p])
    /\ turn' = LoadTurn(f[p], turn)
    /\ profile' = p
    /\ changed' = FALSE
    /\ reset' = FALSE

\* saveProfile into p, which the daemon then sets.
Written(f, p) == [f EXCEPT ![p] = Mapped(SaveForm(@, form, turn, tablet))]

Save ==
    /\ Act
    /\ file' = Written(file, profile)
    /\ driver' = SetProfile(driver, file'[profile], tablet)
    /\ changed' = FALSE
    /\ saved' = saved \cup {profile}
    /\ reset' = FALSE
    /\ UNCHANGED <<tablet, profile, form, turn, curve>>

\* The module is told to load: reloadProfile, and the daemon is told nothing.
Reset ==
    /\ Act
    /\ form' = LoadForm(file[profile])
    /\ turn' = LoadTurn(file[profile], turn)
    /\ changed' = FALSE
    /\ reset' = TRUE
    /\ UNCHANGED <<tablet, file, driver, profile, curve, saved>>

\* showSaveChanges: changes may be saved, into the profile that is the current one now.
SwitchProfile(f, ours, current, p) ==
    \/ /\ LoadAndApply(f, driver, p)
       /\ saved' = ours
    \/ /\ changed
       /\ LET written == Written(f, current)
          IN  LoadAndApply(written, SetProfile(driver, written[current], tablet), p)
       /\ saved' = ours \cup {current}

SelectProfile(p) ==
    /\ Act
    /\ p # profile /\ Has(file[p])
    /\ SwitchProfile(file, saved, profile, p)
    /\ UNCHANGED <<tablet, curve>>

\* createNewProfile: the defaults are put over what there is.
DefaultPad == [p \in Wheels |-> IF p = "AbsWheelUp" THEN "4" ELSE "5"]
DefaultStylus ==
    [p \in ToSet(Buttons) \cup {"PressureCurve", "RawSample", "Suppress", "Threshold",
                                "TabletPcButton", "Mode", "Rotate"} |->
        CASE p = "Button1" -> "1" [] p = "Button2" -> "2" [] p = "Button3" -> "3"
          [] p = "PressureCurve" -> Text(Straight) [] p = "RawSample" -> "4"
          [] p = "Suppress" -> "2" [] p = "Threshold" -> "27" [] p = "TabletPcButton" -> "off"
          [] p = "Mode" -> "absolute" [] p = "Rotate" -> "auto"]
DefaultTouch ==
    [p \in ({w[2] : w \in TouchPage} \ {"ScreenSpace", "ScreenMap"}) \cup {"Rotate"} |->
        CASE p = "ScrollDistance" -> "20" [] p = "ZoomDistance" -> "50" [] p = "TapTime" -> "250"
          [] p = "Touch" -> "on" [] p \in {"Gesture", "InvertScroll"} -> "off"
          [] p = "Mode" -> "absolute" [] p = "Rotate" -> "auto"]

Created(c, t) ==
    LET pen == Put(Put(Put(c, "pad", DefaultPad), "stylus", DefaultStylus), "eraser", DefaultStylus)
    IN  IF t.touch = "none" THEN pen ELSE Put(pen, "touch", DefaultTouch)

\* Mutant of AddProfile: the profile is selected, but was not created.
AddsName(p) ==
    /\ Act
    /\ SwitchProfile(file, saved \ {p}, p, p)
    /\ UNCHANGED <<tablet, curve>>

AddProfile(p) ==
    /\ Act
    /\ SwitchProfile([file EXCEPT ![p] = Created(@, tablet)], saved \ {p}, p, p)
    /\ UNCHANGED <<tablet, curve>>

-----------------------------------------------------------------------------
NothingSet == [d \in Device |-> [x \in DriverKey |-> ""]]
EmptyTurn == [combo |-> "none", auto |-> FALSE, invert |-> FALSE, told |-> "none"]

\* showConfig, with the profile the daemon has set.
Init ==
    /\ tablet \in Tablets
    /\ profile \in {p \in Profile : Has(Presets[p])}
    /\ file = [Presets EXCEPT ![profile] = Mapped(@)]
    /\ driver = SetProfile(NothingSet, file[profile], tablet)
    /\ form = LoadForm(file[profile])
    /\ turn = LoadTurn(file[profile], EmptyTurn)
    /\ changed = FALSE
    /\ curve = Closed
    /\ saved = {}
    /\ reset = FALSE
    /\ acts = 0

Next ==
    \/ \E e \in Edits : Edit(e)
    \/ \E r \in Rotations : SelectRotation(r)
    \/ OnAutoRotateChanged
    \/ InvertToggled
    \/ \E d \in {"stylus", "touch"}, s \in Spaces \cup {""} : OnTabletMappingClicked(d, s)
    \/ \E d \in {"stylus", "eraser"} : OpenPressureCurveDialog(d)
    \/ \E pos \in MousePoints : MousePress(pos) \/ MouseMove(pos) \/ PenPressed(pos)
    \/ MouseRelease
    \/ PenLifted
    \/ AcceptCurve
    \/ RejectCurve
    \/ Save
    \/ Reset
    \/ \E p \in Profile : SelectProfile(p) \/ AddProfile(p)

Spec == Init /\ [][Next]_vars

-----------------------------------------------------------------------------
(* Properties. *)

TypeOK ==
    /\ DOMAIN form = Widget
    /\ turn \in Turn
    /\ profile \in Profile /\ Has(file[profile])
    /\ \A p \in Profile : DOMAIN file[p] = Device
    /\ \A d \in Device : DOMAIN driver[d] = DriverKey
    /\ changed \in BOOLEAN /\ reset \in BOOLEAN
    /\ curve # Closed => /\ curve.device \in {"stylus", "eraser"}
                         /\ curve.widget.active \in 0..2 /\ curve.down \in BOOLEAN
    /\ saved \subseteq Profile

\* Nothing is lost between form and file: a page without changes shows what would be
\* loaded from its profile once that was saved here, and saving it again would change
\* nothing.  Known exceptions: the rotation, of which the page keeps the check boxes of
\* the profile shown before, an area of a space that has no name, and ring and wheel, of
\* which one is hidden and may win.
Survives(w) ==
    /\ Shown(w, form, tablet)
    /\ w[1] # "wheel" /\ (w[1] = "ring" => form[w] # "0")
    /\ form[w] # NamelessMap
SavedIsShown ==
    ~changed /\ profile \in saved =>
        LET c == file[profile]
            again == SaveForm(c, form, turn, tablet)
        IN  /\ \A w \in Widget : Survives(w) => form[w] = LoadForm(c)[w]
            /\ \A d \in Device, p \in Property \ {"Rotate", "ScreenMap"} :
                  again[d][p] = c[d][p]

\* The touch page always knows how the tablet page has the tablet turned, whether it was
\* loaded, selected or a box was checked; a profile saved here turns the touch device by
\* that rotation, which is the one of the stylus the other way round.
TouchTurnsWithPage ==
    /\ turn.told = Invert(GetRotation(turn))
    /\ \A p \in saved : tablet.touch # "none" =>
          file[p]["touch"]["Rotate"] = Invert(file[p]["stylus"]["Rotate"])

\* Tablet button i has a button of X for itself, or is the last of those that share one.
SetLast(t, i) ==
    \A k \in (i + 1)..t.buttons :
        ButtonMap(t, "pad", Buttons[k]) # ButtonMap(t, "pad", Buttons[i])

DoesAsShown(i) ==
    driver["pad"][ButtonMap(tablet, "pad", Buttons[i])] = form[<<"pad", Buttons[i]>>]

\* Once the profile was saved here, a button of X that buttons of the tablet are mapped to
\* does what the page shows for the last one of them, on every tablet: entries for buttons
\* the tablet does not have, or had in a profile written elsewhere, set none of these.
\* The page counts on a button that another one is mapped to being mapped elsewhere itself;
\* not every tablet is so, and what is shown for the others that share one is not done.
ButtonsDoAsShown ==
    ~changed /\ profile \in saved =>
        \A i \in 1..tablet.buttons : SetLast(tablet, i) => DoesAsShown(i)

\* The driver has the pressure curve the page shows, or the dialog while it is open: a
\* curve that was tried and rejected, or changed and discarded, is taken back.  Not so
\* where the profile has no curve, as there is nothing to go back to.  However the points
\* are dragged, out of the widget or by mouse and pen at once, the driver gets none that
\* it would refuse.
CurveIsDriven ==
    \A d \in {"stylus", "eraser"} :
        /\ Mirrored(driver[d]["PressureCurve"])
        /\ ~reset /\ file[profile][d]["PressureCurve"] # "" =>
              driver[d]["PressureCurve"] =
                  IF curve.device = d THEN curve.points ELSE form[<<d, "PressureCurve">>]

\* The driver does what the pages show, when nothing is left to be saved or decided.
DriverDoesAsShown == ButtonsDoAsShown /\ CurveIsDriven
=============================================================================
