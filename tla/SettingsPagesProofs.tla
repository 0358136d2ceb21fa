------------------------- MODULE SettingsPagesProofs -------------------------
(***************************************************************************)
(* Four proofs about the settings pages, for any presets, tablets and      *)
(* edits.                                                                  *)
(*                                                                         *)
(* Why touch and stylus turn together (IInv): the tablet page tells the    *)
(* touch page each rotation it comes to have, and of the pages that are    *)
(* saved one after the other the touch page writes the touch device last.  *)
(*                                                                         *)
(* Why nothing is lost between form and file (PagesInv): SavedRows says,   *)
(* entry by entry, which page has the last word on it when all are saved;  *)
(* what is loaded from that is what was shown, as a widget shows its own   *)
(* value again (Readable), and saving it writes the same.  The daemon's    *)
(* mapping of the eraser finds the eraser mapped already.                  *)
(*                                                                         *)
(* Why the driver does as shown (DriverInv): a profile that was saved here *)
(* has no entry for a button that the tablet does not have, so none takes  *)
(* a button of X from one that it has; a curve is that of the form until   *)
(* the dialog draws another, and the dialog knows what it started with.    *)
(* All curves drawn are mirrored, as the two points always are.            *)
(*                                                                         *)
(* Types follow from the three.                                            *)
(***************************************************************************)
EXTENDS SettingsPages, TLAPS

\* A profile has all entries of all devices.
IsContents(c) == c = [d \in Device |-> [p \in Property |-> c[d][p]]]

IsFile(f) ==
    /\ f = [p \in Profile |-> f[p]]
    /\ \A p \in Profile : IsContents(f[p])

TurnedAlike(c) == c["touch"]["Rotate"] = Invert(c["stylus"]["Rotate"])
Told(u) == u.told = Invert(GetRotation(u))

\* Of the profiles in S all turn touch and stylus alike in f.
AlikeIn(S, f) == \A p \in S : tablet.touch # "none" => TurnedAlike(f[p])

\* The contents of entries and widgets may be anything.
IInv ==
    /\ IsFile(file)
    /\ profile \in Profile
    /\ saved \subseteq Profile
    /\ turn \in Turn
    /\ TouchTurnsWithPage

-----------------------------------------------------------------------------
(* What the parts of a save leave in a profile.                            *)

\* Put changes the entries given, of one device.
LEMMA PutWrites ==
    ASSUME NEW c, IsContents(c), NEW d \in Device, NEW entries
    PROVE  /\ IsContents(Put(c, d, entries))
           /\ \A e \in Device : e # d => Put(c, d, entries)[e] = c[e]
           /\ \A p \in Property : Put(c, d, entries)[d][p] =
                  IF p \in DOMAIN entries THEN entries[p] ELSE c[d][p]
BY DEF Put, IsContents

LEMMA RotateIsProperty == "Rotate" \in Property
BY DEF Property

\* The daemon writes no rotation.
LEMMA MappedKeeps ==
    ASSUME NEW c, IsContents(c)
    PROVE  IsContents(Mapped(c)) /\ (TurnedAlike(c) => TurnedAlike(Mapped(c)))
<1>1. "eraser" \in Device /\ "stylus" \in Device /\ "touch" \in Device
  BY DEF Device
<1> QED BY <1>1, PutWrites DEF Mapped, TurnedAlike

LEMMA StylusPageKeeps ==
    ASSUME NEW c, IsContents(c), NEW f
    PROVE  IsContents(SaveStylusPage(c, f))
<1>1. "stylus" \in Device /\ "eraser" \in Device
  BY DEF Device
<1>2. \A x, d : IsContents(x) /\ d \in Device => IsContents(SavePropertiesToDeviceProfile(x, f, d))
  BY PutWrites DEF SavePropertiesToDeviceProfile
<1> QED BY <1>1, <1>2, PutWrites DEF SaveStylusPage

LEMMA ButtonPageKeeps ==
    ASSUME NEW c, IsContents(c), NEW f, NEW t
    PROVE  IsContents(SaveButtonPage(c, f, t))
<1>1. "pad" \in Device
  BY DEF Device
<1> QED BY <1>1, PutWrites DEF SaveButtonPage

\* The tablet page writes the rotation it shows into the stylus ...
LEMMA TabletPageTurns ==
    ASSUME NEW c, IsContents(c), NEW f, NEW u, NEW t
    PROVE  /\ IsContents(SaveTabletPage(c, f, u, t))
           /\ SaveTabletPage(c, f, u, t)["stylus"]["Rotate"] = GetRotation(u)
<1> DEFINE turned == [p \in {"Rotate"} |-> GetRotation(u)]
           pen == WithRotate(PenEntries(f), GetRotation(u))
           pad == [p \in {"Rotate", "ScreenSpace", "ScreenMap"} |-> ""]
           padded == Put(c, "pad", pad)
           drawn == Put(padded, "stylus", pen)
           erased == Put(drawn, "eraser", pen)
<1>1. "pad" \in Device /\ "stylus" \in Device /\ "eraser" \in Device /\ "touch" \in Device
  BY DEF Device
<1>2. "Rotate" \in DOMAIN pen /\ pen["Rotate"] = GetRotation(u)
  BY DEF WithRotate
<1> HIDE DEF turned, pen, pad
<1>3. IsContents(padded)
  BY <1>1, PutWrites
<1> HIDE DEF padded
<1>4. IsContents(drawn) /\ drawn["stylus"]["Rotate"] = GetRotation(u)
  BY <1>1, <1>2, <1>3, PutWrites, RotateIsProperty
<1> HIDE DEF drawn
<1>5. IsContents(erased) /\ erased["stylus"]["Rotate"] = GetRotation(u)
  BY <1>1, <1>4, PutWrites
<1> HIDE DEF erased
<1>6. /\ IsContents(Put(erased, "touch", turned))
      /\ Put(erased, "touch", turned)["stylus"]["Rotate"] = GetRotation(u)
  BY <1>1, <1>5, PutWrites
<1>7. SaveTabletPage(c, f, u, t) =
          IF t.touch = "builtin" THEN Put(erased, "touch", turned) ELSE erased
  BY DEF SaveTabletPage, turned, pen, pad, padded, drawn, erased
<1> QED BY <1>5, <1>6, <1>7

\* ... and the touch page the one it was told into the touch device.
LEMMA TouchPageTurns ==
    ASSUME NEW c, IsContents(c), NEW f, NEW u, NEW t
    PROVE  /\ IsContents(SaveTouchPage(c, f, u, t))
           /\ SaveTouchPage(c, f, u, t)["stylus"] = c["stylus"]
           /\ t.touch # "none" => SaveTouchPage(c, f, u, t)["touch"]["Rotate"] = u.told
<1> DEFINE entries == WithRotate(TouchEntries(f), u.told)
<1>1. "stylus" \in Device /\ "touch" \in Device
  BY DEF Device
<1>2. "Rotate" \in DOMAIN entries /\ entries["Rotate"] = u.told
  BY DEF WithRotate
<1>3. SaveTouchPage(c, f, u, t) =
          IF t.touch = "none" THEN c ELSE Put(c, "touch", entries)
  BY DEF SaveTouchPage
<1> HIDE DEF entries
<1> QED BY <1>1, <1>2, <1>3, PutWrites, RotateIsProperty

\* A profile that is saved turns touch and stylus alike.
LEMMA SaveTurnsAlike ==
    ASSUME NEW c, IsContents(c), NEW f, NEW u, Told(u), NEW t
    PROVE  /\ IsContents(Mapped(SaveForm(c, f, u, t)))
           /\ t.touch # "none" => TurnedAlike(Mapped(SaveForm(c, f, u, t)))
<1> DEFINE before == SaveButtonPage(SaveStylusPage(c, f), f, t)
           turned == SaveTabletPage(before, f, u, t)
<1>1. IsContents(before)
  BY StylusPageKeeps, ButtonPageKeeps
<1> HIDE DEF before
<1>2. IsContents(turned) /\ turned["stylus"]["Rotate"] = GetRotation(u)
  BY <1>1, TabletPageTurns
<1> HIDE DEF turned
<1>3. SaveForm(c, f, u, t) = SaveTouchPage(turned, f, u, t)
  BY DEF SaveForm, before, turned
<1>4. /\ IsContents(SaveForm(c, f, u, t))
      /\ t.touch # "none" => TurnedAlike(SaveForm(c, f, u, t))
  BY <1>2, <1>3, TouchPageTurns DEF TurnedAlike, Told
<1> QED BY <1>4, MappedKeeps

\* Defaults are put into what there is.
LEMMA CreatedKeeps ==
    ASSUME NEW c, IsContents(c), NEW t
    PROVE  IsContents(Created(c, t))
<1>1. "pad" \in Device /\ "stylus" \in Device /\ "eraser" \in Device /\ "touch" \in Device
  BY DEF Device
<1>2. IsContents(Put(Put(Put(c, "pad", DefaultPad), "stylus", DefaultStylus), "eraser", DefaultStylus))
  BY <1>1, PutWrites
<1> QED BY <1>1, <1>2, PutWrites DEF Created

\* Inverting a rotation gives one.
LEMMA TurnTypes ==
    ASSUME NEW u \in Turn
    PROVE  GetRotation(u) \in Rotation /\ Invert(GetRotation(u)) \in Rotation
BY DEF Turn, GetRotation, Invert, Rotation, FixedRotation

\* What is loaded or selected is told.
LEMMA ChangesAreTold ==
    ASSUME NEW u \in Turn
    PROVE  OnRotationChanged(u) \in Turn /\ Told(OnRotationChanged(u))
<1>1. OnRotationChanged(u) \in Turn
  BY TurnTypes DEF OnRotationChanged, Turn
<1>2. GetRotation(OnRotationChanged(u)) = GetRotation(u)
  BY DEF OnRotationChanged, GetRotation, Turn
<1>3. OnRotationChanged(u).told = Invert(GetRotation(u))
  BY DEF OnRotationChanged, Turn
<1> QED BY <1>1, <1>2, <1>3 DEF Told

LEMMA LoadingTells ==
    ASSUME NEW c, NEW u \in Turn
    PROVE  LoadTurn(c, u) \in Turn /\ Told(LoadTurn(c, u))
<1> DEFINE r == c["stylus"]["Rotate"]
           v == CASE r = "auto"          -> [u EXCEPT !.combo = "none", !.auto = TRUE]
                  [] r = "auto-inverted" -> [u EXCEPT !.combo = "none", !.auto = TRUE, !.invert = TRUE]
                  [] OTHER -> [u EXCEPT !.combo = IF r \in FixedRotation THEN r ELSE "none"]
<1>1. v \in Turn
  BY DEF Turn, FixedRotation
<1>2. LoadTurn(c, u) = OnRotationChanged(v)
  BY DEF LoadTurn, SetRotation
<1> HIDE DEF v
<1> QED BY <1>1, <1>2, ChangesAreTold

-----------------------------------------------------------------------------
(* The file.                                                               *)

\* A saved profile joins those that turn alike.
LEMMA WrittenKeeps ==
    ASSUME NEW f, IsFile(f), NEW p \in Profile, NEW S \in SUBSET Profile, AlikeIn(S, f),
           Told(turn)
    PROVE  IsFile(Written(f, p)) /\ AlikeIn(S \cup {p}, Written(f, p))
<1> DEFINE c == Mapped(SaveForm(f[p], form, turn, tablet))
<1>1. IsContents(c) /\ (tablet.touch # "none" => TurnedAlike(c))
  BY SaveTurnsAlike DEF IsFile
<1>2. Written(f, p) = [q \in Profile |-> IF q = p THEN c ELSE f[q]]
  BY DEF Written, IsFile
<1> HIDE DEF c
<1> QED BY <1>1, <1>2 DEF IsFile, AlikeIn

\* What the daemon maps stays as it was turned.
LEMMA AppliedKeeps ==
    ASSUME NEW f, IsFile(f), NEW p \in Profile, NEW S \in SUBSET Profile, AlikeIn(S, f)
    PROVE  IsFile([f EXCEPT ![p] = Mapped(@)]) /\ AlikeIn(S, [f EXCEPT ![p] = Mapped(@)])
<1>1. IsContents(Mapped(f[p])) /\ (TurnedAlike(f[p]) => TurnedAlike(Mapped(f[p])))
  BY MappedKeeps DEF IsFile
<1>2. [f EXCEPT ![p] = Mapped(@)] = [q \in Profile |-> IF q = p THEN Mapped(f[p]) ELSE f[q]]
  BY DEF IsFile
<1> QED BY <1>1, <1>2 DEF IsFile, AlikeIn

\* Whatever is done about unsaved changes, the profile selected is loaded.
LEMMA SwitchKeeps ==
    ASSUME IInv, NEW f, IsFile(f), NEW ours \in SUBSET saved, AlikeIn(ours, f),
           NEW current \in Profile, NEW p \in Profile,
           SwitchProfile(f, ours, current, p), UNCHANGED tablet
    PROVE  IInv'
<1>1. turn' \in Turn /\ Told(turn')
  <2>1. \E c : turn' = LoadTurn(c, turn)
    BY DEF SwitchProfile, LoadAndApply
  <2> QED BY <2>1, LoadingTells DEF IInv
<1>2. Told(turn) /\ saved \subseteq Profile
  BY DEF IInv, TouchTurnsWithPage, Told
<1>3. profile' = p
  BY DEF SwitchProfile, LoadAndApply
<1>4. IsFile(file') /\ saved' \subseteq Profile /\ AlikeIn(saved', file')
  <2>1. CASE saved' = ours /\ LoadAndApply(f, driver, p)
    BY <1>2, <2>1, AppliedKeeps DEF LoadAndApply
  <2>2. CASE \E before : saved' = ours \cup {current} /\ LoadAndApply(Written(f, current), before, p)
    <3>1. IsFile(Written(f, current)) /\ AlikeIn(ours \cup {current}, Written(f, current))
      BY <1>2, WrittenKeeps
    <3> DEFINE g == Written(f, current)
               S == ours \cup {current}
    <3>2. file' = [g EXCEPT ![p] = Mapped(@)] /\ saved' = S
      BY <2>2 DEF LoadAndApply
    <3>3. S \in SUBSET Profile
      BY <1>2
    <3> HIDE DEF g, S
    <3>4. IsFile(g) /\ AlikeIn(S, g)
      BY <3>1 DEF g, S
    <3> QED BY <3>2, <3>3, <3>4, AppliedKeeps
  <2> QED BY <2>1, <2>2 DEF SwitchProfile
<1> QED BY <1>1, <1>3, <1>4 DEF IInv, TouchTurnsWithPage, Told, AlikeIn, TurnedAlike, IsFile

-----------------------------------------------------------------------------
LEMMA PresetsAreFiles == IsFile(Presets)
<1>1. Presets \in [Profile -> [Device -> [Property -> STRING]]]
  BY InputAssumption
<1> HIDE DEF Device, Property
<1>2. ASSUME NEW p \in Profile
      PROVE  IsContents(Presets[p])
  <2>1. Presets[p] \in [Device -> [Property -> STRING]]
    BY <1>1
  <2>2. Presets[p] = [d \in Device |-> Presets[p][d]]
    BY <2>1
  <2>3. \A d \in Device : Presets[p][d] = [q \in Property |-> Presets[p][d][q]]
    BY <2>1
  <2> QED BY <2>2, <2>3 DEF IsContents
<1> QED BY <1>1, <1>2 DEF IsFile

LEMMA InitIInv == Init => IInv
<1> SUFFICES ASSUME Init PROVE IInv
  OBVIOUS
<1>1. profile \in Profile /\ saved = {}
  BY DEF Init
<1>2. IsFile(file)
  <2>1. IsFile(Presets)
    BY PresetsAreFiles
  <2> QED BY <1>1, <2>1, AppliedKeeps DEF Init, AlikeIn
<1>3. turn \in Turn /\ Told(turn)
  <2>1. EmptyTurn \in Turn
    BY DEF EmptyTurn, Turn, FixedRotation, Rotation
  <2> QED BY <2>1, LoadingTells DEF Init
<1> QED BY <1>1, <1>2, <1>3 DEF IInv, TouchTurnsWithPage, Told

LEMMA EditTurnKeeps ==
    ASSUME IInv, NEW u \in Turn, EditTurn(u)
    PROVE  IInv'
<1>1. turn' \in Turn /\ Told(turn')
  BY ChangesAreTold DEF EditTurn
<1>2. UNCHANGED <<tablet, file, profile, saved>>
  BY DEF EditTurn, EditOnly
<1> QED BY <1>1, <1>2 DEF IInv, IsFile, TouchTurnsWithPage, Told

LEMMA SaveKeeps == IInv /\ Save => IInv'
<1> SUFFICES ASSUME IInv, Save PROVE IInv'
  OBVIOUS
<1>1. file' = Written(file, profile) /\ saved' = saved \cup {profile}
      /\ UNCHANGED <<tablet, profile, turn>>
  BY DEF Save
<1>2. IsFile(file') /\ AlikeIn(saved', file')
  BY <1>1, WrittenKeeps DEF IInv, TouchTurnsWithPage, Told, AlikeIn, TurnedAlike
<1> QED BY <1>1, <1>2 DEF IInv, IsFile, TouchTurnsWithPage, AlikeIn, TurnedAlike

LEMMA ResetKeeps == IInv /\ Reset => IInv'
<1> SUFFICES ASSUME IInv, Reset PROVE IInv'
  OBVIOUS
<1>1. turn' = LoadTurn(file[profile], turn) /\ UNCHANGED <<tablet, file, profile, saved>>
  BY DEF Reset
<1>2. turn' \in Turn /\ Told(turn')
  BY <1>1, LoadingTells DEF IInv
<1> QED BY <1>1, <1>2 DEF IInv, IsFile, TouchTurnsWithPage, Told

LEMMA SelectKeeps ==
    ASSUME IInv, NEW p \in Profile, SelectProfile(p)
    PROVE  IInv'
<1>1. IsFile(file) /\ AlikeIn(saved, file) /\ profile \in Profile
  BY DEF IInv, TouchTurnsWithPage, AlikeIn, TurnedAlike
<1>2. SwitchProfile(file, saved, profile, p) /\ UNCHANGED tablet
  BY DEF SelectProfile
<1> QED BY <1>1, <1>2, SwitchKeeps

\* A new profile was not saved here, so nothing need be known of its defaults.
LEMMA AddKeeps ==
    ASSUME IInv, NEW p \in Profile, AddProfile(p)
    PROVE  IInv'
<1> DEFINE f == [file EXCEPT ![p] = Created(@, tablet)]
<1>1. IsFile(file) /\ AlikeIn(saved, file) /\ saved \subseteq Profile
  BY DEF IInv, TouchTurnsWithPage, AlikeIn, TurnedAlike
<1>2. f = [q \in Profile |-> IF q = p THEN Created(file[p], tablet) ELSE file[q]]
  BY <1>1 DEF IsFile
<1>3. IsContents(Created(file[p], tablet))
  BY <1>1, CreatedKeeps DEF IsFile
<1> HIDE DEF f
<1>4. IsFile(f) /\ AlikeIn(saved \ {p}, f)
  BY <1>1, <1>2, <1>3 DEF IsFile, AlikeIn
<1>5. SwitchProfile(f, saved \ {p}, p, p) /\ UNCHANGED tablet
  BY DEF AddProfile, f
<1> QED BY <1>4, <1>5, SwitchKeeps

LEMMA InvariantStep == IInv /\ [Next]_vars => IInv'
<1> SUFFICES ASSUME IInv, [Next]_vars PROVE IInv'
  OBVIOUS
<1> USE DEF EditOnly, InCurveDialog
<1>1. CASE UNCHANGED <<tablet, file, profile, turn, saved>>
  BY <1>1 DEF IInv, IsFile, TouchTurnsWithPage
<1>2. CASE \E r \in Rotations : SelectRotation(r)
  <2>1. PICK r \in Rotations : EditTurn([turn EXCEPT !.combo = r])
    BY <1>2 DEF SelectRotation
  <2>2. [turn EXCEPT !.combo = r] \in Turn
    BY InputAssumption DEF IInv, Turn
  <2> QED BY <2>1, <2>2, EditTurnKeeps
<1>3. CASE OnAutoRotateChanged
  <2>1. PICK u \in Turn : EditTurn(u)
    <3>1. /\ [turn EXCEPT !.auto = FALSE, !.invert = FALSE] \in Turn
          /\ [turn EXCEPT !.auto = TRUE, !.combo = "none"] \in Turn
      BY DEF IInv, Turn, FixedRotation
    <3> QED BY <1>3, <3>1 DEF OnAutoRotateChanged
  <2> QED BY <2>1, EditTurnKeeps
<1>4. CASE InvertToggled
  <2>1. [turn EXCEPT !.invert = ~@] \in Turn
    BY DEF IInv, Turn
  <2> QED BY <1>4, <2>1, EditTurnKeeps DEF InvertToggled
<1>5. CASE Save
  BY <1>5, SaveKeeps
<1>6. CASE Reset
  BY <1>6, ResetKeeps
<1>7. CASE \E p \in Profile : SelectProfile(p) \/ AddProfile(p)
  BY <1>7, SelectKeeps, AddKeeps
<1>8. CASE \E e \in Edits : Edit(e)
  BY <1>1, <1>8 DEF Edit
<1>9. CASE \E d \in {"stylus", "touch"}, s \in Spaces \cup {""} : OnTabletMappingClicked(d, s)
  BY <1>1, <1>9 DEF OnTabletMappingClicked
<1>10. CASE \E d \in {"stylus", "eraser"} : OpenPressureCurveDialog(d)
  BY <1>1, <1>10 DEF OpenPressureCurveDialog
<1>11. CASE \E pos \in MousePoints : MousePress(pos) \/ MouseMove(pos) \/ PenPressed(pos)
  BY <1>1, <1>11 DEF MousePress, MouseMove, PenPressed
<1>12. CASE MouseRelease \/ PenLifted
  BY <1>1, <1>12 DEF MouseRelease, PenLifted
<1>13. CASE AcceptCurve \/ RejectCurve
  BY <1>1, <1>13 DEF AcceptCurve, RejectCurve
<1>14. CASE UNCHANGED vars
  BY <1>1, <1>14 DEF vars
<1> QED BY <1>2, <1>3, <1>4, <1>5, <1>6, <1>7, <1>8, <1>9, <1>10, <1>11, <1>12, <1>13, <1>14
        DEF Next

THEOREM InvariantHolds == Spec => []IInv
BY InitIInv, InvariantStep, PTL DEF Spec

\* However a rotation is loaded, selected, saved or discarded, and however profiles are
\* created and switched, the touch device of a profile saved by the module turns with
\* its stylus.
THEOREM TouchAndStylusTurn == Spec => []TouchTurnsWithPage
<1>1. IInv => TouchTurnsWithPage
  BY DEF IInv
<1> QED BY InvariantHolds, <1>1, PTL

-----------------------------------------------------------------------------
(* What a save writes, entry by entry.                                     *)

\* Entries by the page that writes them.
PenKeys == {"Mode", "ScreenSpace", "ScreenMap"}
ScreenKeys == {"ScreenSpace", "ScreenMap"}
EraserKeys == {"Threshold", "PressureCurve"}
StylusKeys == StylusShared \cup EraserKeys \cup {"TabletPcButton"}
TouchKeys == {"Touch", "Mode", "ScreenSpace", "ScreenMap", "Gesture", "ScrollDistance",
              "InvertScroll", "ZoomDistance", "TapTime"}

\* All entries but the rotation.
Unturned == Property \ {"Rotate"}

\* An entry that is not there.
Absent == ""

\* What form f shows for an entry of a device.
Value(f, d, p) == f[<<d, p>>]

\* Contents y are those of c with form f saved; the rotation is left aside.
SavedRows(y, c, f, t) ==
    /\ IsContents(y)
    /\ \A p \in Unturned :
          /\ p \in StylusKeys \cup PenKeys => y["stylus"][p] = Value(f, "stylus", p)
          /\ p \notin StylusKeys \cup PenKeys => y["stylus"][p] = c["stylus"][p]
          /\ p \in StylusShared \cup PenKeys => y["eraser"][p] = Value(f, "stylus", p)
          /\ p \in EraserKeys => y["eraser"][p] = Value(f, "eraser", p)
          /\ p \notin StylusShared \cup PenKeys \cup EraserKeys => y["eraser"][p] = c["eraser"][p]
          /\ p \in Shortcuts => y["pad"][p] = ButtonEntry(f, t, p)
          /\ p \in ScreenKeys => y["pad"][p] = Absent
          /\ p \notin Shortcuts \cup ScreenKeys => y["pad"][p] = c["pad"][p]
          /\ t.touch # "none" /\ p \in TouchKeys => y["touch"][p] = Value(f, "touch", p)
          /\ t.touch = "none" \/ p \notin TouchKeys => y["touch"][p] = c["touch"][p]

-----------------------------------------------------------------------------
LEMMA ButtonNames == ToSet(Buttons) = {"Button1", "Button2", "Button3"}
BY DEF ToSet, Buttons

LEMMA DeviceNames ==
    "pad" \in Device /\ "stylus" \in Device /\ "eraser" \in Device /\ "touch" \in Device
BY DEF Device

LEMMA PutRows ==
    ASSUME NEW c, IsContents(c), NEW d \in Device, NEW entries, NEW y, y = Put(c, d, entries)
    PROVE  \A p \in Unturned : /\ p \in DOMAIN entries => y[d][p] = entries[p]
                               /\ p \notin DOMAIN entries => y[d][p] = c[d][p]
<1>1. \A p \in Unturned : p \in Property
  BY DEF Unturned
<1> QED BY <1>1, PutWrites

LEMMA StylusPageRows ==
    ASSUME NEW c, IsContents(c), NEW f, NEW y, y = SaveStylusPage(c, f)
    PROVE  /\ IsContents(y)
           /\ y["pad"] = c["pad"] /\ y["touch"] = c["touch"]
           /\ \A p \in Unturned :
                 /\ p \in StylusKeys => y["stylus"][p] = Value(f, "stylus", p)
                 /\ p \notin StylusKeys => y["stylus"][p] = c["stylus"][p]
                 /\ p \in StylusShared => y["eraser"][p] = Value(f, "stylus", p)
                 /\ p \in EraserKeys => y["eraser"][p] = Value(f, "eraser", p)
                 /\ p \notin StylusShared \cup EraserKeys => y["eraser"][p] = c["eraser"][p]
<1> DEFINE shared(d) == [p \in StylusShared \cup {"Threshold", "PressureCurve"} |->
                            f[IF p \in StylusShared THEN <<"stylus", p>> ELSE <<d, p>>]]
           box == [p \in {"TabletPcButton"} |-> f[<<"stylus", p>>]]
           common == shared("stylus")
           rubber == shared("eraser")
           a == Put(c, "stylus", common)
           b == Put(a, "eraser", rubber)
<1>1. y = Put(b, "stylus", box)
  BY DEF SaveStylusPage, SavePropertiesToDeviceProfile
<1>2. \A p \in Unturned :
          /\ p = "TabletPcButton" => p \in DOMAIN box /\ box[p] = Value(f, "stylus", p)
          /\ p # "TabletPcButton" => p \notin DOMAIN box
  BY DEF Value
<1>3. \A p : p \in EraserKeys => p \notin StylusShared
  BY ButtonNames DEF EraserKeys, StylusShared
<1>4. \A p \in Unturned :
          /\ p \in StylusShared \cup EraserKeys => p \in DOMAIN common /\ common[p] = Value(f, "stylus", p)
          /\ p \notin StylusShared \cup EraserKeys => p \notin DOMAIN common
  BY DEF EraserKeys, Value
<1>5. \A p \in Unturned :
          /\ p \in StylusShared => p \in DOMAIN rubber /\ rubber[p] = Value(f, "stylus", p)
          /\ p \in EraserKeys => p \in DOMAIN rubber /\ rubber[p] = Value(f, "eraser", p)
          /\ p \notin StylusShared \cup EraserKeys => p \notin DOMAIN rubber
  BY <1>3 DEF EraserKeys, Value
<1> HIDE DEF box, common, rubber
<1>6. /\ IsContents(a) /\ a["pad"] = c["pad"] /\ a["touch"] = c["touch"]
      /\ a["eraser"] = c["eraser"]
  BY PutWrites, DeviceNames
<1>7. \A p \in Unturned : /\ p \in DOMAIN common => a["stylus"][p] = common[p]
                          /\ p \notin DOMAIN common => a["stylus"][p] = c["stylus"][p]
  BY PutRows, DeviceNames
<1> HIDE DEF a
<1>8. /\ IsContents(b) /\ b["pad"] = a["pad"] /\ b["touch"] = a["touch"]
      /\ b["stylus"] = a["stylus"]
  BY <1>6, PutWrites, DeviceNames
<1>9. \A p \in Unturned : /\ p \in DOMAIN rubber => b["eraser"][p] = rubber[p]
                          /\ p \notin DOMAIN rubber => b["eraser"][p] = a["eraser"][p]
  BY <1>6, PutRows, DeviceNames
<1> HIDE DEF b
<1>10. /\ IsContents(y) /\ y["pad"] = b["pad"] /\ y["touch"] = b["touch"]
       /\ y["eraser"] = b["eraser"]
  BY <1>1, <1>8, PutWrites, DeviceNames
<1>11. \A p \in Unturned : /\ p \in DOMAIN box => y["stylus"][p] = box[p]
                           /\ p \notin DOMAIN box => y["stylus"][p] = b["stylus"][p]
  BY <1>1, <1>8, PutRows, DeviceNames
<1>12. \A p \in Unturned : /\ p \in StylusKeys => y["stylus"][p] = Value(f, "stylus", p)
                           /\ p \notin StylusKeys => y["stylus"][p] = c["stylus"][p]
  BY <1>2, <1>4, <1>7, <1>8, <1>11 DEF StylusKeys
<1>13. \A p \in Unturned :
          /\ p \in StylusShared => y["eraser"][p] = Value(f, "stylus", p)
          /\ p \in EraserKeys => y["eraser"][p] = Value(f, "eraser", p)
          /\ p \notin StylusShared \cup EraserKeys => y["eraser"][p] = c["eraser"][p]
  BY <1>5, <1>6, <1>9, <1>10
<1> QED BY <1>6, <1>8, <1>10, <1>12, <1>13

LEMMA ButtonPageRows ==
    ASSUME NEW c, IsContents(c), NEW f, NEW t, NEW y, y = SaveButtonPage(c, f, t)
    PROVE  /\ IsContents(y)
           /\ y["stylus"] = c["stylus"] /\ y["eraser"] = c["eraser"] /\ y["touch"] = c["touch"]
           /\ \A p \in Unturned :
                 /\ p \in Shortcuts => y["pad"][p] = ButtonEntry(f, t, p)
                 /\ p \notin Shortcuts => y["pad"][p] = c["pad"][p]
<1> DEFINE entries == [p \in Shortcuts |-> ButtonEntry(f, t, p)]
<1>1. y = Put(c, "pad", entries)
  BY DEF SaveButtonPage
<1>2. \A p : /\ p \in Shortcuts => p \in DOMAIN entries /\ entries[p] = ButtonEntry(f, t, p)
             /\ p \notin Shortcuts => p \notin DOMAIN entries
  OBVIOUS
<1> HIDE DEF entries
<1>3. /\ IsContents(y)
      /\ y["stylus"] = c["stylus"] /\ y["eraser"] = c["eraser"] /\ y["touch"] = c["touch"]
  BY <1>1, PutWrites, DeviceNames
<1>4. \A p \in Unturned : /\ p \in DOMAIN entries => y["pad"][p] = entries[p]
                          /\ p \notin DOMAIN entries => y["pad"][p] = c["pad"][p]
  BY <1>1, PutRows, DeviceNames
<1> QED BY <1>2, <1>3, <1>4

LEMMA KeyNames ==
    /\ {w[2] : w \in TabletPage} = PenKeys
    /\ {w[2] : w \in TouchPage} = TouchKeys
    /\ \A p \in Unturned : p \in Property /\ p # "Rotate"
<1>1. \A p : (\E w \in TabletPage : w[2] = p) <=> p \in PenKeys
  <2>1. \A w \in TabletPage : w[2] \in PenKeys
    BY DEF TabletPage, PenKeys
  <2>2. \A p \in PenKeys : <<"stylus", p>> \in TabletPage /\ <<"stylus", p>>[2] = p
    BY DEF TabletPage, PenKeys
  <2> HIDE DEF TabletPage, PenKeys
  <2> QED BY <2>1, <2>2
<1>2. \A p : (\E w \in TouchPage : w[2] = p) <=> p \in TouchKeys
  <2>1. \A w \in TouchPage : w[2] \in TouchKeys
    BY DEF TouchPage, TouchKeys
  <2>2. \A p \in TouchKeys : <<"touch", p>> \in TouchPage /\ <<"touch", p>>[2] = p
    BY DEF TouchPage, TouchKeys
  <2> QED BY <2>1, <2>2
<1>3. \A p \in Unturned : p \in Property /\ p # "Rotate"
  BY DEF Unturned
<1>4. {w[2] : w \in TabletPage} = PenKeys
  BY <1>1
<1>5. {w[2] : w \in TouchPage} = TouchKeys
  BY <1>2
<1> QED BY <1>3, <1>4, <1>5

LEMMA TabletPageRows ==
    ASSUME NEW c, IsContents(c), NEW f, NEW u, NEW t, NEW y, y = SaveTabletPage(c, f, u, t)
    PROVE  /\ IsContents(y)
           /\ \A p \in Unturned :
                 /\ p \in PenKeys => y["stylus"][p] = Value(f, "stylus", p)
                 /\ p \in PenKeys => y["eraser"][p] = Value(f, "stylus", p)
                 /\ p \notin PenKeys => y["stylus"][p] = c["stylus"][p]
                 /\ p \notin PenKeys => y["eraser"][p] = c["eraser"][p]
                 /\ p \in ScreenKeys => y["pad"][p] = Absent
                 /\ p \notin ScreenKeys => y["pad"][p] = c["pad"][p]
                 /\ y["touch"][p] = c["touch"][p]
<1> DEFINE turned == [p \in {"Rotate"} |-> GetRotation(u)]
           pen == WithRotate(PenEntries(f), GetRotation(u))
           pad == [p \in {"Rotate", "ScreenSpace", "ScreenMap"} |-> ""]
           padded == Put(c, "pad", pad)
           drawn == Put(padded, "stylus", pen)
           erased == Put(drawn, "eraser", pen)
<1>1. y = IF t.touch = "builtin" THEN Put(erased, "touch", turned) ELSE erased
  BY DEF SaveTabletPage
<1>2. \A p : p \in DOMAIN turned => p = "Rotate"
  OBVIOUS
<1>3. \A p \in Unturned :
          /\ p \in ScreenKeys => p \in DOMAIN pad /\ pad[p] = Absent
          /\ p \notin ScreenKeys => p \notin DOMAIN pad
  BY DEF Absent, ScreenKeys, Unturned
<1>4. \A p \in Unturned :
          /\ p \in PenKeys => p \in DOMAIN pen /\ pen[p] = Value(f, "stylus", p)
          /\ p \notin PenKeys => p \notin DOMAIN pen
  BY KeyNames DEF Value, WithRotate, PenEntries
<1> HIDE DEF turned, pen, pad
<1>5. /\ IsContents(padded)
      /\ padded["stylus"] = c["stylus"] /\ padded["eraser"] = c["eraser"]
      /\ padded["touch"] = c["touch"]
  BY PutWrites, DeviceNames
<1>6. \A p \in Unturned :
          /\ p \in ScreenKeys => padded["pad"][p] = Absent
          /\ p \notin ScreenKeys => padded["pad"][p] = c["pad"][p]
  <2>1. \A p \in Unturned : /\ p \in DOMAIN pad => padded["pad"][p] = pad[p]
                            /\ p \notin DOMAIN pad => padded["pad"][p] = c["pad"][p]
    BY PutRows, DeviceNames
  <2> HIDE DEF padded
  <2> QED BY <1>3, <2>1
<1> HIDE DEF padded
<1>7. /\ IsContents(drawn)
      /\ drawn["pad"] = padded["pad"] /\ drawn["eraser"] = padded["eraser"]
      /\ drawn["touch"] = padded["touch"]
  BY <1>5, PutWrites, DeviceNames
<1>8. \A p \in Unturned :
          /\ p \in PenKeys => drawn["stylus"][p] = Value(f, "stylus", p)
          /\ p \notin PenKeys => drawn["stylus"][p] = padded["stylus"][p]
  <2>1. \A p \in Unturned : /\ p \in DOMAIN pen => drawn["stylus"][p] = pen[p]
                            /\ p \notin DOMAIN pen => drawn["stylus"][p] = padded["stylus"][p]
    BY <1>5, PutRows, DeviceNames
  <2> HIDE DEF drawn
  <2> QED BY <1>4, <2>1
<1> HIDE DEF drawn
<1>9. /\ IsContents(erased)
      /\ erased["pad"] = drawn["pad"] /\ erased["stylus"] = drawn["stylus"]
      /\ erased["touch"] = drawn["touch"]
  BY <1>7, PutWrites, DeviceNames
<1>10. \A p \in Unturned :
          /\ p \in PenKeys => erased["eraser"][p] = Value(f, "stylus", p)
          /\ p \notin PenKeys => erased["eraser"][p] = drawn["eraser"][p]
  <2>1. \A p \in Unturned : /\ p \in DOMAIN pen => erased["eraser"][p] = pen[p]
                            /\ p \notin DOMAIN pen => erased["eraser"][p] = drawn["eraser"][p]
    BY <1>7, PutRows, DeviceNames
  <2> HIDE DEF erased
  <2> QED BY <1>4, <2>1
<1> HIDE DEF erased
<1>11. /\ IsContents(y)
       /\ y["pad"] = erased["pad"] /\ y["stylus"] = erased["stylus"]
       /\ y["eraser"] = erased["eraser"]
       /\ \A p \in Unturned : y["touch"][p] = erased["touch"][p]
  BY <1>1, <1>2, <1>9, KeyNames, PutWrites, DeviceNames
<1>12. \A p \in Unturned : /\ p \in PenKeys => y["stylus"][p] = Value(f, "stylus", p)
                           /\ p \notin PenKeys => y["stylus"][p] = c["stylus"][p]
  BY <1>5, <1>8, <1>9, <1>11
<1>13. \A p \in Unturned : /\ p \in PenKeys => y["eraser"][p] = Value(f, "stylus", p)
                           /\ p \notin PenKeys => y["eraser"][p] = c["eraser"][p]
  BY <1>5, <1>7, <1>10, <1>11
<1>14. \A p \in Unturned : /\ p \in ScreenKeys => y["pad"][p] = Absent
                           /\ p \notin ScreenKeys => y["pad"][p] = c["pad"][p]
  BY <1>6, <1>7, <1>9, <1>11
<1>15. \A p \in Unturned : y["touch"][p] = c["touch"][p]
  BY <1>5, <1>7, <1>9, <1>11
<1> QED BY <1>11, <1>12, <1>13, <1>14, <1>15

LEMMA TouchPageRows ==
    ASSUME NEW c, IsContents(c), NEW f, NEW u, NEW t, NEW y, y = SaveTouchPage(c, f, u, t)
    PROVE  /\ IsContents(y)
           /\ y["pad"] = c["pad"] /\ y["stylus"] = c["stylus"] /\ y["eraser"] = c["eraser"]
           /\ \A p \in Unturned :
                 /\ t.touch # "none" /\ p \in TouchKeys => y["touch"][p] = Value(f, "touch", p)
                 /\ t.touch = "none" \/ p \notin TouchKeys => y["touch"][p] = c["touch"][p]
<1> DEFINE entries == WithRotate(TouchEntries(f), u.told)
<1>1. CASE t.touch = "none"
  BY <1>1 DEF SaveTouchPage
<1>2. CASE t.touch # "none"
  <2>1. y = Put(c, "touch", entries)
    BY <1>2 DEF SaveTouchPage
  <2>2. \A p \in Unturned :
            /\ p \in TouchKeys => p \in DOMAIN entries /\ entries[p] = Value(f, "touch", p)
            /\ p \notin TouchKeys => p \notin DOMAIN entries
    BY KeyNames DEF Value, WithRotate, TouchEntries
  <2> HIDE DEF entries
  <2>3. /\ IsContents(y)
        /\ y["pad"] = c["pad"] /\ y["stylus"] = c["stylus"] /\ y["eraser"] = c["eraser"]
    BY <2>1, PutWrites, DeviceNames
  <2>4. \A p \in Unturned : /\ p \in DOMAIN entries => y["touch"][p] = entries[p]
                            /\ p \notin DOMAIN entries => y["touch"][p] = c["touch"][p]
    BY <2>1, PutRows, DeviceNames
  <2> QED BY <1>2, <2>2, <2>3, <2>4
<1> QED BY <1>1, <1>2

LEMMA SaveRows ==
    ASSUME NEW c, IsContents(c), NEW f, NEW u, NEW t
    PROVE  SavedRows(SaveForm(c, f, u, t), c, f, t)
<1>1. PICK x1 : x1 = SaveStylusPage(c, f)
  OBVIOUS
<1>2. PICK x2 : x2 = SaveButtonPage(x1, f, t)
  OBVIOUS
<1>3. PICK x3 : x3 = SaveTabletPage(x2, f, u, t)
  OBVIOUS
<1>4. PICK x4 : x4 = SaveTouchPage(x3, f, u, t)
  OBVIOUS
<1>5. SaveForm(c, f, u, t) = x4
  BY <1>1, <1>2, <1>3, <1>4 DEF SaveForm
<1>6. IsContents(x1)
  BY <1>1, StylusPageKeeps
<1>7. IsContents(x2)
  BY <1>2, <1>6, ButtonPageKeeps
<1>8. /\ IsContents(x3)
      /\ \A p \in Unturned :
            /\ p \in PenKeys => x3["stylus"][p] = Value(f, "stylus", p)
            /\ p \in PenKeys => x3["eraser"][p] = Value(f, "stylus", p)
            /\ p \notin PenKeys => x3["stylus"][p] = x2["stylus"][p]
            /\ p \notin PenKeys => x3["eraser"][p] = x2["eraser"][p]
            /\ p \in ScreenKeys => x3["pad"][p] = Absent
            /\ p \notin ScreenKeys => x3["pad"][p] = x2["pad"][p]
            /\ x3["touch"][p] = x2["touch"][p]
  BY <1>3, <1>7, TabletPageRows
<1>9. IsContents(x4)
  BY <1>4, <1>8, TouchPageTurns
<1>10. \A p : p \in ScreenKeys => p \notin Shortcuts
  BY ButtonNames DEF Shortcuts, Strips, Wheels, Wheels2, ScreenKeys
<1>11. \A p : p \in PenKeys => p \notin StylusKeys /\ p \notin EraserKeys
  BY ButtonNames DEF PenKeys, StylusKeys, StylusShared, EraserKeys
<1>12. ASSUME NEW p \in Unturned
       PROVE  /\ p \in StylusKeys \cup PenKeys => x4["stylus"][p] = Value(f, "stylus", p)
              /\ p \notin StylusKeys \cup PenKeys => x4["stylus"][p] = c["stylus"][p]
  <2>1. /\ p \in StylusKeys => x1["stylus"][p] = Value(f, "stylus", p)
        /\ p \notin StylusKeys => x1["stylus"][p] = c["stylus"][p]
    BY <1>1, StylusPageRows
  <2>2. x2["stylus"] = x1["stylus"]
    BY <1>2, <1>6, ButtonPageRows
  <2>3. /\ p \in PenKeys => x3["stylus"][p] = Value(f, "stylus", p)
        /\ p \notin PenKeys => x3["stylus"][p] = x2["stylus"][p]
    BY <1>8
  <2>4. x4["stylus"] = x3["stylus"]
    BY <1>4, <1>8, TouchPageRows
  <2> QED BY <2>1, <2>2, <2>3, <2>4
<1>13. ASSUME NEW p \in Unturned
       PROVE  /\ p \in StylusShared \cup PenKeys => x4["eraser"][p] = Value(f, "stylus", p)
              /\ p \in EraserKeys => x4["eraser"][p] = Value(f, "eraser", p)
              /\ p \notin StylusShared \cup PenKeys \cup EraserKeys => x4["eraser"][p] = c["eraser"][p]
  <2>1. /\ p \in StylusShared => x1["eraser"][p] = Value(f, "stylus", p)
        /\ p \in EraserKeys => x1["eraser"][p] = Value(f, "eraser", p)
        /\ p \notin StylusShared \cup EraserKeys => x1["eraser"][p] = c["eraser"][p]
    BY <1>1, StylusPageRows
  <2>2. x2["eraser"] = x1["eraser"]
    BY <1>2, <1>6, ButtonPageRows
  <2>3. /\ p \in PenKeys => x3["eraser"][p] = Value(f, "stylus", p)
        /\ p \notin PenKeys => x3["eraser"][p] = x2["eraser"][p]
    BY <1>8
  <2>4. x4["eraser"] = x3["eraser"]
    BY <1>4, <1>8, TouchPageRows
  <2> QED BY <1>11, <2>1, <2>2, <2>3, <2>4
<1>14. ASSUME NEW p \in Unturned
       PROVE  /\ p \in Shortcuts => x4["pad"][p] = ButtonEntry(f, t, p)
              /\ p \in ScreenKeys => x4["pad"][p] = Absent
              /\ p \notin Shortcuts \cup ScreenKeys => x4["pad"][p] = c["pad"][p]
  <2>1. x1["pad"] = c["pad"]
    BY <1>1, StylusPageRows
  <2>2. /\ p \in Shortcuts => x2["pad"][p] = ButtonEntry(f, t, p)
        /\ p \notin Shortcuts => x2["pad"][p] = x1["pad"][p]
    BY <1>2, <1>6, ButtonPageRows
  <2>3. /\ p \in ScreenKeys => x3["pad"][p] = Absent
        /\ p \notin ScreenKeys => x3["pad"][p] = x2["pad"][p]
    BY <1>8
  <2>4. x4["pad"] = x3["pad"]
    BY <1>4, <1>8, TouchPageRows
  <2> QED BY <1>10, <2>1, <2>2, <2>3, <2>4
<1>15. ASSUME NEW p \in Unturned
       PROVE  /\ t.touch # "none" /\ p \in TouchKeys => x4["touch"][p] = Value(f, "touch", p)
              /\ t.touch = "none" \/ p \notin TouchKeys => x4["touch"][p] = c["touch"][p]
  <2>1. x1["touch"] = c["touch"]
    BY <1>1, StylusPageRows
  <2>2. x2["touch"] = x1["touch"]
    BY <1>2, <1>6, ButtonPageRows
  <2>3. x3["touch"][p] = x2["touch"][p]
    BY <1>8
  <2>4. /\ t.touch # "none" /\ p \in TouchKeys => x4["touch"][p] = Value(f, "touch", p)
        /\ t.touch = "none" \/ p \notin TouchKeys => x4["touch"][p] = x3["touch"][p]
    BY <1>4, <1>8, TouchPageRows
  <2> QED BY <2>1, <2>2, <2>3, <2>4
<1> QED BY <1>5, <1>9, <1>12, <1>13, <1>14, <1>15 DEF SavedRows

-----------------------------------------------------------------------------
(* What a form shows again of what it saved.                               *)

\* A form that has what can be read from a profile; areas without a name cannot.
Readable(f) ==
    /\ f = [w \in Widget |-> f[w]]
    /\ \A w \in Widget : w[2] # "ScreenMap" => Read(w[2], f[w]) = f[w]

LEMMA ReadTwice == \A p, v : Read(p, Read(p, v)) = Read(p, v)
<1> SUFFICES ASSUME NEW p, NEW v PROVE Read(p, Read(p, v)) = Read(p, v)
  OBVIOUS
<1>1. CASE p \in {"Mode", "ScreenSpace", "ScreenMap"}
  <2>1. \A s : Read(p, s) = ReadTracking(p, s)
    BY <1>1 DEF Read
  <2>2. ReadTracking(p, ReadTracking(p, v)) = ReadTracking(p, v)
    BY <1>1 DEF ReadTracking, NamelessMap, DesktopMap
  <2> QED BY <2>1, <2>2
<1>2. CASE p \notin {"Mode", "ScreenSpace", "ScreenMap"}
  <2>1. \A s : s # Absent => Read(p, s) = s
    BY <1>2 DEF Read, Absent
  <2>2. CASE Read(p, v) = Absent
    BY <2>1, <2>2
  <2>3. CASE Read(p, v) # Absent
    BY <2>1, <2>3
  <2> QED BY <2>2, <2>3
<1> QED BY <1>1, <1>2

LEMMA LoadedIsReadable ==
    ASSUME NEW c
    PROVE  Readable(LoadForm(c))
BY ReadTwice DEF Readable, LoadForm

\* The widgets by their page.
LEMMA Widgets ==
    /\ \A p \in StylusKeys \cup PenKeys : <<"stylus", p>> \in Widget
    /\ \A p \in EraserKeys : <<"eraser", p>> \in Widget
    /\ \A p \in ToSet(Buttons) \cup Strips : <<"pad", p>> \in Widget
    /\ \A p \in Wheels : <<"ring", p>> \in Widget /\ <<"wheel", p>> \in Widget
    /\ \A p \in TouchKeys : <<"touch", p>> \in Widget
<1>1. \A p \in StylusKeys \cup PenKeys : <<"stylus", p>> \in StylusPage \cup TabletPage
  BY DEF StylusKeys, StylusShared, EraserKeys, PenKeys, StylusPage, TabletPage
<1>2. \A p \in EraserKeys : <<"eraser", p>> \in StylusPage
  BY DEF EraserKeys, StylusPage
<1>3. /\ \A p \in ToSet(Buttons) \cup Strips : <<"pad", p>> \in ButtonPage
      /\ \A p \in Wheels : <<"ring", p>> \in ButtonPage /\ <<"wheel", p>> \in ButtonPage
  BY DEF ButtonPage
<1>4. \A p \in TouchKeys : <<"touch", p>> \in TouchPage
  BY DEF TouchKeys, TouchPage
<1> QED BY <1>1, <1>2, <1>3, <1>4 DEF Widget

\* What a form that was loaded shows.
LEMMA LoadedValues ==
    ASSUME NEW c, NEW p
    PROVE  /\ <<"stylus", p>> \in Widget => Value(LoadForm(c), "stylus", p) = Read(p, c["stylus"][p])
           /\ <<"eraser", p>> \in Widget => Value(LoadForm(c), "eraser", p) = Read(p, c["eraser"][p])
           /\ <<"pad", p>> \in Widget => Value(LoadForm(c), "pad", p) = Read(p, c["pad"][p])
           /\ <<"touch", p>> \in Widget => Value(LoadForm(c), "touch", p) = Read(p, c["touch"][p])
           /\ <<"ring", p>> \in Widget => Value(LoadForm(c), "ring", p) = Read(p, c["pad"][p])
           /\ <<"wheel", p>> \in Widget => Value(LoadForm(c), "wheel", p) = Read(p, c["pad"][p])
BY DEF Value, LoadForm, Source

LEMMA ReadableValues ==
    ASSUME NEW f, Readable(f)
    PROVE  \A d, p : <<d, p>> \in Widget /\ p # "ScreenMap" => Read(p, Value(f, d, p)) = Value(f, d, p)
BY DEF Readable, Value

\* Which entries of the pad are written for what.
LEMMA ButtonEntries ==
    ASSUME NEW f, NEW t
    PROVE  /\ \A p \in ToSet(Buttons) :
                 /\ Number(p) <= t.buttons => ButtonEntry(f, t, p) = Value(f, "pad", p)
                 /\ ~(Number(p) <= t.buttons) => ButtonEntry(f, t, p) = Absent
           /\ \A p \in Strips :
                 /\ HasStrip(p, t) => ButtonEntry(f, t, p) = Value(f, "pad", p)
                 /\ ~HasStrip(p, t) => ButtonEntry(f, t, p) = Absent
           /\ \A p \in Wheels : ButtonEntry(f, t, p) = Turned(f, t, p)
           /\ ButtonEntry(f, t, "AbsWheel2Up") = Turned(f, t, "AbsWheelUp")
           /\ ButtonEntry(f, t, "AbsWheel2Down") = Turned(f, t, "AbsWheelDown")
<1>1. \A p \in ToSet(Buttons) : p \notin Strips /\ p \notin Wheels /\ p \notin Wheels2
  BY ButtonNames DEF Strips, Wheels, Wheels2
<1>2. \A p \in Strips : p \notin Wheels /\ p \notin Wheels2
  BY DEF Strips, Wheels, Wheels2
<1>3. \A p \in Wheels : p \notin Wheels2
  BY DEF Wheels, Wheels2
<1>4. \A p \in ToSet(Buttons) \cup Strips \cup Wheels : p # "AbsWheel2Up" /\ p # "AbsWheel2Down"
  BY <1>1, <1>2, <1>3 DEF Wheels2
<1>5. \A p \in {"AbsWheel2Up", "AbsWheel2Down"} : p \notin ToSet(Buttons) \cup Strips \cup Wheels
  BY <1>4
<1>6. \A p \in ToSet(Buttons) :
          ButtonEntry(f, t, p) = IF Number(p) <= t.buttons THEN f[<<"pad", p>>] ELSE ""
  BY <1>1, <1>4 DEF ButtonEntry
<1>7. \A p \in Strips : ButtonEntry(f, t, p) = IF HasStrip(p, t) THEN f[<<"pad", p>>] ELSE ""
  BY <1>1, <1>2, <1>4 DEF ButtonEntry
<1>8. \A p \in Wheels : ButtonEntry(f, t, p) = Turned(f, t, p)
  BY <1>1, <1>2, <1>4 DEF ButtonEntry
<1>9. ButtonEntry(f, t, "AbsWheel2Up") = Turned(f, t, "AbsWheelUp")
  BY <1>5 DEF ButtonEntry
<1>10. ButtonEntry(f, t, "AbsWheel2Down") = Turned(f, t, "AbsWheelDown")
  BY <1>5 DEF ButtonEntry
<1> QED BY <1>6, <1>7, <1>8, <1>9, <1>10 DEF Value, Absent

LEMMA TurnedValues ==
    ASSUME NEW f, NEW t, NEW p
    PROVE  /\ ~t.ring /\ ~t.wheel => Turned(f, t, p) = Absent
           /\ t.ring \/ t.wheel => \/ Turned(f, t, p) = Value(f, "ring", p)
                                   \/ Turned(f, t, p) = Value(f, "wheel", p)
           /\ t.ring /\ f[<<"ring", p>>] # "0" => Turned(f, t, p) = Value(f, "ring", p)
BY DEF Turned, Value, Absent

\* To save twice is to save once.
LEMMA SavedAgain ==
    ASSUME NEW x, NEW f, NEW t, NEW y, SavedRows(y, x, f, t), NEW z, SavedRows(z, y, f, t)
    PROVE  \A d \in Device, p \in Unturned : z[d][p] = y[d][p]
<1> SUFFICES ASSUME NEW p \in Unturned
    PROVE  /\ z["stylus"][p] = y["stylus"][p] /\ z["eraser"][p] = y["eraser"][p]
           /\ z["pad"][p] = y["pad"][p] /\ z["touch"][p] = y["touch"][p]
  BY DEF Device
<1>1. z["stylus"][p] = y["stylus"][p]
  BY DEF SavedRows
<1>2. z["eraser"][p] = y["eraser"][p]
  BY DEF SavedRows
<1>3. z["pad"][p] = y["pad"][p]
  BY DEF SavedRows
<1>4. z["touch"][p] = y["touch"][p]
  BY DEF SavedRows
<1> QED BY <1>1, <1>2, <1>3, <1>4

\* The eraser is mapped like the stylus already.
LEMMA SavedIsMapped ==
    ASSUME NEW x, NEW f, NEW t, NEW y, SavedRows(y, x, f, t)
    PROVE  Mapped(y) = y
<1> DEFINE entries == [p \in {"Mode", "ScreenSpace"} |-> y["stylus"][p]]
<1>1. \A p \in Property : p \in DOMAIN entries => entries[p] = y["eraser"][p]
  <2>1. \A p \in {"Mode", "ScreenSpace"} : p \in Unturned /\ p \in PenKeys
    BY DEF Unturned, Property, PenKeys
  <2>2. \A p \in PenKeys : p \in Unturned => y["eraser"][p] = y["stylus"][p]
    BY DEF SavedRows
  <2> QED BY <2>1, <2>2
<1>2. Mapped(y) = Put(y, "eraser", entries)
  BY DEF Mapped
<1> HIDE DEF entries
<1>3. IsContents(y) /\ IsContents(Mapped(y))
  BY MappedKeeps DEF SavedRows
<1>4. \A d \in Device, p \in Property : Mapped(y)[d][p] = y[d][p]
  <2>1. \A p \in Property : Mapped(y)["eraser"][p] = y["eraser"][p]
    BY <1>1, <1>2, <1>3, PutWrites, DeviceNames
  <2>2. \A d \in Device : d # "eraser" => Mapped(y)[d] = y[d]
    BY <1>2, <1>3, PutWrites, DeviceNames
  <2> QED BY <2>1, <2>2
<1> QED BY <1>3, <1>4 DEF IsContents

\* The pad of a profile that was saved has what a form that loads it saves again.
LEMMA LoadedPad ==
    ASSUME NEW x, NEW f, Readable(f), NEW t, NEW y, SavedRows(y, x, f, t)
    PROVE  \A p \in Shortcuts : ButtonEntry(LoadForm(y), t, p) = y["pad"][p]
<1> DEFINE g == LoadForm(y)
<1>1. \A p \in Shortcuts : p \in Unturned /\ p # "ScreenMap"
  BY ButtonNames DEF Shortcuts, Strips, Wheels, Wheels2, Unturned, Property
<1>2. \A p \in Shortcuts : y["pad"][p] = ButtonEntry(f, t, p)
  BY <1>1 DEF SavedRows
<1>3. ToSet(Buttons) \subseteq Shortcuts /\ Strips \subseteq Shortcuts /\ Wheels \subseteq Shortcuts
  BY DEF Shortcuts
<1>4. \A p \in ToSet(Buttons) \cup Strips :
          /\ Value(g, "pad", p) = Read(p, y["pad"][p])
          /\ Read(p, Value(f, "pad", p)) = Value(f, "pad", p)
  <2> SUFFICES ASSUME NEW p \in ToSet(Buttons) \cup Strips
      PROVE  /\ Value(g, "pad", p) = Read(p, y["pad"][p])
             /\ Read(p, Value(f, "pad", p)) = Value(f, "pad", p)
    OBVIOUS
  <2>1. <<"pad", p>> \in Widget /\ p # "ScreenMap"
    BY <1>1, <1>3, Widgets
  <2> QED BY <2>1, LoadedValues, ReadableValues
<1>5. \A p \in Wheels :
          /\ Value(g, "ring", p) = Read(p, y["pad"][p])
          /\ Value(g, "wheel", p) = Read(p, y["pad"][p])
          /\ Read(p, Value(f, "ring", p)) = Value(f, "ring", p)
          /\ Read(p, Value(f, "wheel", p)) = Value(f, "wheel", p)
  BY <1>1, <1>3, Widgets, LoadedValues, ReadableValues
<1> HIDE DEF g
<1>6. \A p \in ToSet(Buttons) \cup Strips : ButtonEntry(g, t, p) = y["pad"][p]
  BY <1>2, <1>3, <1>4, ButtonEntries
<1>7. \A p \in Wheels : Turned(g, t, p) = Turned(f, t, p)
  <2> SUFFICES ASSUME NEW p \in Wheels PROVE Turned(g, t, p) = Turned(f, t, p)
    OBVIOUS
  <2>1. y["pad"][p] = Turned(f, t, p)
    BY <1>2, <1>3, ButtonEntries
  <2>2. CASE ~t.ring /\ ~t.wheel
    BY <2>2, TurnedValues
  <2>3. CASE t.ring \/ t.wheel
    <3>1. Read(p, Turned(f, t, p)) = Turned(f, t, p)
      BY <1>5, <2>3, TurnedValues
    <3>2. Turned(g, t, p) = Read(p, y["pad"][p])
      BY <1>5, <2>3, TurnedValues
    <3> QED BY <2>1, <3>1, <3>2
  <2> QED BY <2>2, <2>3
<1>8. \A p \in Wheels2 : ButtonEntry(g, t, p) = ButtonEntry(f, t, p)
  <2>1. "AbsWheelUp" \in Wheels /\ "AbsWheelDown" \in Wheels
    BY DEF Wheels
  <2> QED BY <1>7, <2>1, ButtonEntries DEF Wheels2
<1>9. \A p \in Wheels : ButtonEntry(g, t, p) = ButtonEntry(f, t, p)
  BY <1>7, ButtonEntries
<1> QED BY <1>2, <1>6, <1>8, <1>9 DEF g, Shortcuts

\* A form that loads a profile that was saved saves what it loaded.
LEMMA LoadedAgain ==
    ASSUME NEW x, NEW f, Readable(f), NEW t, NEW y, SavedRows(y, x, f, t),
           NEW z, SavedRows(z, y, LoadForm(y), t)
    PROVE  \A d \in Device, p \in Unturned \ {"ScreenMap"} : z[d][p] = y[d][p]
<1> DEFINE g == LoadForm(y)
<1> SUFFICES ASSUME NEW p \in Unturned, p # "ScreenMap"
    PROVE  /\ z["stylus"][p] = y["stylus"][p] /\ z["eraser"][p] = y["eraser"][p]
           /\ z["pad"][p] = y["pad"][p] /\ z["touch"][p] = y["touch"][p]
  BY DEF Device
<1>1. p \in StylusShared => p \in StylusKeys
  BY DEF StylusKeys
<1>2. /\ p \in StylusKeys \cup PenKeys => Value(g, "stylus", p) = Read(p, y["stylus"][p])
      /\ p \in EraserKeys => Value(g, "eraser", p) = Read(p, y["eraser"][p])
      /\ p \in TouchKeys => Value(g, "touch", p) = Read(p, y["touch"][p])
  BY Widgets, LoadedValues
<1>3. /\ p \in StylusKeys \cup PenKeys => Read(p, Value(f, "stylus", p)) = Value(f, "stylus", p)
      /\ p \in EraserKeys => Read(p, Value(f, "eraser", p)) = Value(f, "eraser", p)
      /\ p \in TouchKeys => Read(p, Value(f, "touch", p)) = Value(f, "touch", p)
  BY Widgets, ReadableValues
<1>4. p \in Shortcuts => ButtonEntry(g, t, p) = y["pad"][p]
  BY LoadedPad
<1> HIDE DEF g
<1>5. SavedRows(z, y, g, t)
  BY DEF g
<1>6. z["stylus"][p] = y["stylus"][p]
  BY <1>2, <1>3, <1>5 DEF SavedRows
<1>7. z["eraser"][p] = y["eraser"][p]
  <2>1. CASE p \in StylusShared \cup PenKeys
    BY <1>1, <1>2, <1>3, <1>5, <2>1 DEF SavedRows
  <2>2. CASE p \in EraserKeys
    BY <1>2, <1>3, <1>5, <2>2 DEF SavedRows
  <2>3. CASE p \notin StylusShared \cup PenKeys \cup EraserKeys
    BY <1>5, <2>3 DEF SavedRows
  <2> QED BY <2>1, <2>2, <2>3
<1>8. z["pad"][p] = y["pad"][p]
  BY <1>4, <1>5 DEF SavedRows
<1>9. z["touch"][p] = y["touch"][p]
  BY <1>2, <1>3, <1>5 DEF SavedRows
<1> QED BY <1>6, <1>7, <1>8, <1>9

\* As in the property, for a form and a tablet.
SurvivesIn(w, f, t) ==
    /\ Shown(w, f, t)
    /\ w[1] # "wheel" /\ (w[1] = "ring" => f[w] # "0")
    /\ f[w] # NamelessMap

\* Nothing is lost between form f and contents c.
Shows(c, f, t) ==
    /\ \A w \in Widget : SurvivesIn(w, f, t) => f[w] = LoadForm(c)[w]
    /\ \A u : \A d \in Device, p \in Unturned \ {"ScreenMap"} : SaveForm(c, f, u, t)[d][p] = c[d][p]

\* Shortcuts for the buttons the tablet has, and none for others.
PadIsSaved(c, t) ==
    \A b \in ToSet(Buttons) : /\ Number(b) <= t.buttons => c["pad"][b] # ""
                              /\ ~(Number(b) <= t.buttons) => c["pad"][b] = ""

IsSaved(c, t) ==
    /\ Has(c) /\ Mapped(c) = c
    /\ PadIsSaved(c, t)
    /\ Shows(c, LoadForm(c), t)

\* The pages of the widgets, and the entries they are loaded from.
LEMMA WidgetPages ==
    ASSUME NEW w \in Widget
    PROVE  \E d, p :
              /\ w = <<d, p>> /\ p \in Unturned
              /\ \/ d = "stylus" /\ p \in StylusKeys \cup PenKeys
                 \/ d = "eraser" /\ p \in EraserKeys
                 \/ d = "pad" /\ p \in ToSet(Buttons) \cup Strips /\ w \in ButtonPage
                 \/ d \in {"ring", "wheel"} /\ p \in Wheels /\ w \in ButtonPage
                 \/ d = "touch" /\ p \in TouchKeys /\ w \in TouchPage
<1>1. CASE w \in StylusPage
  <2>1. CASE w \in {"stylus"} \X (ToSet(Buttons) \cup {"Threshold", "PressureCurve",
                                     "TabletPcButton", "RawSample", "Suppress"})
    BY <2>1, ButtonNames DEF StylusKeys, StylusShared, EraserKeys, Unturned, Property, Shortcuts, Numbers, Boxes
  <2>2. CASE w \in {"eraser"} \X {"Threshold", "PressureCurve"}
    BY <2>2 DEF EraserKeys, Unturned, Property, Numbers
  <2> QED BY <1>1, <2>1, <2>2 DEF StylusPage
<1>2. CASE w \in TabletPage
  BY <1>2 DEF TabletPage, PenKeys, Unturned, Property
<1>3. CASE w \in ButtonPage
  <2>1. \A p \in Shortcuts : p \in Unturned
    BY ButtonNames DEF Shortcuts, Strips, Wheels, Wheels2, Unturned, Property
  <2> QED BY <1>3, <2>1 DEF ButtonPage, Shortcuts
<1>4. CASE w \in TouchPage
  BY <1>4 DEF TouchPage, TouchKeys, Unturned, Property, Numbers, Boxes
<1> QED BY <1>1, <1>2, <1>3, <1>4 DEF Widget

\* What is shown can be read back from what was saved.
LEMMA SavedIsLoaded ==
    ASSUME NEW x, NEW f, Readable(f), NEW t, NEW y, SavedRows(y, x, f, t),
           NEW w \in Widget, SurvivesIn(w, f, t)
    PROVE  f[w] = LoadForm(y)[w]
<1>1. PICK d, p :
              /\ w = <<d, p>> /\ p \in Unturned
              /\ \/ d = "stylus" /\ p \in StylusKeys \cup PenKeys
                 \/ d = "eraser" /\ p \in EraserKeys
                 \/ d = "pad" /\ p \in ToSet(Buttons) \cup Strips /\ w \in ButtonPage
                 \/ d \in {"ring", "wheel"} /\ p \in Wheels /\ w \in ButtonPage
                 \/ d = "touch" /\ p \in TouchKeys /\ w \in TouchPage
  BY WidgetPages
<1>2. f[w] = Value(f, d, p) /\ LoadForm(y)[w] = Value(LoadForm(y), d, p)
  BY <1>1 DEF Value
<1>3. Read(p, Value(f, d, p)) = Value(f, d, p)
  <2>1. CASE p # "ScreenMap"
    BY <1>1, <2>1, ReadableValues
  <2>2. CASE p = "ScreenMap"
    BY <1>2, <2>2 DEF SurvivesIn, Read, ReadTracking
  <2> QED BY <2>1, <2>2
<1> SUFFICES Value(LoadForm(y), d, p) = Read(p, Value(f, d, p))
  BY <1>2, <1>3
<1>4. CASE d = "stylus" /\ p \in StylusKeys \cup PenKeys
  <2>1. y["stylus"][p] = Value(f, "stylus", p)
    BY <1>1, <1>4 DEF SavedRows
  <2> QED BY <1>1, <1>4, <2>1, LoadedValues
<1>5. CASE d = "eraser" /\ p \in EraserKeys
  <2>1. y["eraser"][p] = Value(f, "eraser", p)
    BY <1>1, <1>5 DEF SavedRows
  <2> QED BY <1>1, <1>5, <2>1, LoadedValues
<1>6. CASE d = "pad" /\ p \in ToSet(Buttons) \cup Strips /\ w \in ButtonPage
  <2>1. Present(w, t)
    BY <1>6 DEF SurvivesIn, Shown
  <2>2. \A b \in ToSet(Buttons) : b \notin Strips
    BY ButtonNames DEF Strips
  <2>3. /\ p \in ToSet(Buttons) => Number(p) <= t.buttons
        /\ p \in Strips => HasStrip(p, t)
    BY <1>1, <1>6, <2>1, <2>2 DEF Present
  <2>4. ButtonEntry(f, t, p) = Value(f, "pad", p)
    BY <1>6, <2>3, ButtonEntries
  <2>5. p \in Shortcuts
    BY <1>6 DEF Shortcuts
  <2>6. y["pad"][p] = Value(f, "pad", p)
    BY <1>1, <2>4, <2>5 DEF SavedRows
  <2> QED BY <1>1, <1>6, <2>6, LoadedValues
<1>7. CASE d = "ring" /\ p \in Wheels /\ w \in ButtonPage
  <2>1. t.ring /\ f[<<"ring", p>>] # "0"
    <3>1. \A b \in ToSet(Buttons) : b \notin Wheels
      BY ButtonNames DEF Wheels
    <3> QED BY <1>1, <1>7, <3>1 DEF SurvivesIn, Shown, Present
  <2>2. ButtonEntry(f, t, p) = Value(f, "ring", p)
    <3>1. Turned(f, t, p) = Value(f, "ring", p)
      BY <2>1 DEF Turned, Value
    <3> QED BY <1>7, <3>1, ButtonEntries
  <2>3. p \in Shortcuts
    BY <1>7 DEF Shortcuts
  <2>4. y["pad"][p] = Value(f, "ring", p)
    BY <1>1, <2>2, <2>3 DEF SavedRows
  <2> QED BY <1>1, <1>7, <2>4, LoadedValues
<1>8. CASE d = "wheel"
  BY <1>1, <1>8 DEF SurvivesIn
<1>9. CASE d = "touch" /\ p \in TouchKeys /\ w \in TouchPage
  <2>1. t.touch # "none"
    BY <1>9 DEF SurvivesIn, Shown, TouchEnabled
  <2>2. y["touch"][p] = Value(f, "touch", p)
    BY <1>1, <1>9, <2>1 DEF SavedRows
  <2> QED BY <1>1, <1>9, <2>2, LoadedValues
<1> QED BY <1>1, <1>4, <1>5, <1>6, <1>7, <1>8, <1>9

\* A profile that is saved shows what the form did, and what a form that loads it does.
LEMMA SaveShows ==
    ASSUME NEW x, IsContents(x), NEW f, Readable(f), NEW u, NEW t,
           NEW y, y = Mapped(SaveForm(x, f, u, t))
    PROVE  IsContents(y) /\ IsSaved(y, t) /\ Shows(y, f, t)
<1>1. SavedRows(y, x, f, t)
  <2>1. PICK z : z = SaveForm(x, f, u, t)
    OBVIOUS
  <2>2. SavedRows(z, x, f, t)
    BY <2>1, SaveRows
  <2>3. Mapped(z) = z
    BY <2>2, SavedIsMapped
  <2>4. y = z
    BY <2>1, <2>3
  <2> QED BY <2>2, <2>4
<1>2. IsContents(y) /\ Mapped(y) = y
  <2>1. IsContents(y)
    BY <1>1 DEF SavedRows
  <2>2. Mapped(y) = y
    BY <1>1, SavedIsMapped
  <2> QED BY <2>1, <2>2
<1>3. Shows(y, f, t)
  <2>1. \A w \in Widget : SurvivesIn(w, f, t) => f[w] = LoadForm(y)[w]
    BY <1>1, SavedIsLoaded
  <2>2. ASSUME NEW v, NEW d \in Device, NEW p \in Unturned \ {"ScreenMap"}
        PROVE  SaveForm(y, f, v, t)[d][p] = y[d][p]
    <3>1. SavedRows(SaveForm(y, f, v, t), y, f, t)
      BY <1>2, SaveRows
    <3>2. p \in Unturned
      OBVIOUS
    <3> QED BY <1>1, <3>1, <3>2, SavedAgain
  <2> QED BY <2>1, <2>2 DEF Shows
<1>4. Shows(y, LoadForm(y), t)
  <2>1. ASSUME NEW v, NEW d \in Device, NEW p \in Unturned \ {"ScreenMap"}
        PROVE  SaveForm(y, LoadForm(y), v, t)[d][p] = y[d][p]
    <3>1. SavedRows(SaveForm(y, LoadForm(y), v, t), y, LoadForm(y), t)
      BY <1>2, SaveRows
    <3> QED BY <1>1, <3>1, LoadedAgain
  <2> QED BY <2>1 DEF Shows
<1>5. Has(y)
  <2>1. "RawSample" \in Unturned /\ "RawSample" \in StylusKeys
    BY ButtonNames DEF Unturned, Property, Numbers, StylusKeys, StylusShared
  <2>2. y["stylus"]["RawSample"] = Value(f, "stylus", "RawSample")
    BY <1>1, <2>1 DEF SavedRows
  <2>3. Read("RawSample", Value(f, "stylus", "RawSample")) = Value(f, "stylus", "RawSample")
    BY <2>1, Widgets, ReadableValues
  <2>4. Read("RawSample", Absent) # Absent
    BY ButtonNames DEF Read, Absent, Shortcuts, Strips, Wheels, Wheels2
  <2>5. NoContents["stylus"]["RawSample"] = Absent
    BY <2>1, DeviceNames DEF NoContents, NoEntries, Unturned, Absent
  <2> QED BY <2>2, <2>3, <2>4, <2>5 DEF Has
<1>6. PadIsSaved(y, t)
  <2> SUFFICES ASSUME NEW b \in ToSet(Buttons)
      PROVE  /\ Number(b) <= t.buttons => y["pad"][b] # Absent
             /\ ~(Number(b) <= t.buttons) => y["pad"][b] = Absent
    BY DEF PadIsSaved, Absent
  <2>1. b \in Unturned /\ b # "ScreenMap" /\ b \in Shortcuts
    BY ButtonNames DEF Unturned, Property, Shortcuts
  <2>2. y["pad"][b] = ButtonEntry(f, t, b)
    BY <1>1, <2>1 DEF SavedRows
  <2>3. Read(b, Value(f, "pad", b)) = Value(f, "pad", b)
    BY <2>1, Widgets, ReadableValues
  <2>4. Read(b, Absent) # Absent
    BY ButtonNames DEF Read, Absent, Shortcuts, Numbers, Boxes
  <2> QED BY <2>2, <2>3, <2>4, ButtonEntries
<1> QED BY <1>2, <1>3, <1>4, <1>5, <1>6 DEF IsSaved

-----------------------------------------------------------------------------
(* The pages and the file.                                                 *)

\* What is known of the profiles in f, of which those in S were saved.
FileIn(f, S) ==
    /\ IsFile(f)
    /\ \A q \in Profile : Has(f[q]) => Has(Mapped(f[q]))
    /\ \A q \in S : IsSaved(f[q], tablet)

PagesInv ==
    /\ tablet \in Tablets
    /\ Readable(form)
    /\ changed \in BOOLEAN /\ reset \in BOOLEAN
    /\ FileIn(file, saved)
    /\ Has(file[profile])
    /\ ~changed /\ profile \in saved => Shows(file[profile], form, tablet)

LEMMA MappedTwice ==
    ASSUME NEW c, IsContents(c)
    PROVE  Mapped(Mapped(c)) = Mapped(c)
<1> DEFINE entries == [p \in {"Mode", "ScreenSpace"} |-> c["stylus"][p]]
           m == Mapped(c)
           again == [p \in {"Mode", "ScreenSpace"} |-> m["stylus"][p]]
<1>1. m = Put(c, "eraser", entries) /\ Mapped(m) = Put(m, "eraser", again)
  BY DEF Mapped
<1>2. m["stylus"] = c["stylus"] /\ IsContents(m) /\ IsContents(Mapped(m))
  BY <1>1, MappedKeeps, PutWrites, DeviceNames
<1>3. again = entries
  BY <1>2
<1> HIDE DEF entries, again, m
<1>4. \A p \in Property : Mapped(m)["eraser"][p] = m["eraser"][p]
  BY <1>1, <1>2, <1>3, PutWrites, DeviceNames
<1>5. \A d \in Device : d # "eraser" => Mapped(m)[d] = m[d]
  BY <1>1, <1>2, PutWrites, DeviceNames
<1>6. Mapped(m) = m
  <2>1. \A d \in Device, p \in Property : Mapped(m)[d][p] = m[d][p]
    BY <1>4, <1>5
  <2> QED BY <1>2, <2>1 DEF IsContents
<1> QED BY <1>6 DEF m

LEMMA WrittenSaves ==
    ASSUME NEW f, NEW S \in SUBSET Profile, FileIn(f, S), Readable(form), NEW p \in Profile,
           NEW g, g = Written(f, p)
    PROVE  /\ FileIn(g, S \cup {p}) /\ Has(g[p])
           /\ \A q \in Profile : q # p => g[q] = f[q]
           /\ Shows(g[p], form, tablet)
<1>1. PICK y : y = Mapped(SaveForm(f[p], form, turn, tablet))
  OBVIOUS
<1>2. IsContents(f[p])
  BY DEF FileIn, IsFile
<1>3. IsContents(y) /\ IsSaved(y, tablet) /\ Shows(y, form, tablet)
  BY <1>1, <1>2, SaveShows
<1>4. g = [q \in Profile |-> IF q = p THEN y ELSE f[q]]
  BY <1>1 DEF Written, FileIn, IsFile
<1>5. g[p] = y /\ \A q \in Profile : q # p => g[q] = f[q]
  BY <1>4
<1>6. IsFile(g)
  BY <1>3, <1>4 DEF FileIn, IsFile
<1>7. Has(y) /\ Mapped(y) = y
  BY <1>3 DEF IsSaved
<1>8. \A q \in Profile : Has(g[q]) => Has(Mapped(g[q]))
  BY <1>5, <1>7 DEF FileIn
<1>9. \A q \in S \cup {p} : IsSaved(g[q], tablet)
  BY <1>3, <1>5 DEF FileIn
<1> QED BY <1>3, <1>5, <1>6, <1>7, <1>8, <1>9 DEF FileIn

LEMMA AppliedStays ==
    ASSUME NEW f, NEW S \in SUBSET Profile, FileIn(f, S), NEW p \in Profile, Has(f[p]),
           NEW g, g = [f EXCEPT ![p] = Mapped(@)]
    PROVE  /\ FileIn(g, S) /\ Has(g[p]) /\ g[p] = Mapped(f[p])
           /\ p \in S => g[p] = f[p] /\ Shows(g[p], LoadForm(f[p]), tablet)
<1>1. IsContents(f[p]) /\ IsContents(Mapped(f[p]))
  BY MappedKeeps DEF FileIn, IsFile
<1>2. g = [q \in Profile |-> IF q = p THEN Mapped(f[p]) ELSE f[q]]
  BY DEF FileIn, IsFile
<1>3. g[p] = Mapped(f[p]) /\ \A q \in Profile : q # p => g[q] = f[q]
  BY <1>2
<1>4. IsFile(g)
  BY <1>1, <1>2 DEF FileIn, IsFile
<1>5. Has(Mapped(f[p])) /\ Mapped(Mapped(f[p])) = Mapped(f[p])
  BY <1>1, MappedTwice DEF FileIn
<1>6. \A q \in Profile : Has(g[q]) => Has(Mapped(g[q]))
  BY <1>3, <1>5 DEF FileIn
<1>7. p \in S => g[p] = f[p] /\ Shows(f[p], LoadForm(f[p]), tablet)
  BY <1>3 DEF FileIn, IsSaved
<1>8. \A q \in S : g[q] = f[q]
  BY <1>3, <1>7
<1>9. \A q \in S : IsSaved(g[q], tablet)
  BY <1>8 DEF FileIn
<1> QED BY <1>3, <1>4, <1>5, <1>6, <1>7, <1>9 DEF FileIn

\* A widget is set to what can be read.
LEMMA ReadsBack ==
    /\ \A p, v : v # "" /\ p # "ScreenMap" => Read(p, v) = v
    /\ \A v : Read("ScreenSpace", v) = v
    /\ \A v : Read("PressureCurve", v) = v
<1>1. \A p, v : v # "" /\ p # "ScreenMap" => Read(p, v) = v
  BY DEF Read, ReadTracking
<1>2. \A v : Read("ScreenSpace", v) = v
  BY DEF Read, ReadTracking
<1>3. \A v : Read("PressureCurve", v) = v
  BY ButtonNames DEF Read, Shortcuts, Strips, Wheels, Wheels2, Numbers, Boxes
<1> QED BY <1>1, <1>2, <1>3

LEMMA SettingIsReadable ==
    ASSUME NEW f, Readable(f), NEW w, NEW v, w[2] # "ScreenMap" => Read(w[2], v) = v
    PROVE  Readable([f EXCEPT ![w] = v])
<1> DEFINE g == [f EXCEPT ![w] = v]
<1>1. g = [x \in Widget |-> IF x = w THEN v ELSE f[x]]
  BY DEF Readable
<1> HIDE DEF g
<1>2. g = [x \in Widget |-> g[x]]
  BY <1>1
<1>3. ASSUME NEW x \in Widget, x[2] # "ScreenMap"
      PROVE  Read(x[2], g[x]) = g[x]
  <2>1. CASE x = w
    BY <1>1, <1>3, <2>1
  <2>2. CASE x # w
    BY <1>1, <1>3, <2>2 DEF Readable
  <2> QED BY <2>1, <2>2
<1>4. Readable(g)
  BY <1>2, <1>3 DEF Readable
<1> QED BY <1>4 DEF g

\* What is changed on the pages has to be saved first.
LEMMA EditingKeepsPages ==
    ASSUME PagesInv, UNCHANGED <<tablet, file, profile, saved, reset>>, Readable(form'),
           changed' = TRUE \/ UNCHANGED <<form, changed>>
    PROVE  PagesInv'
BY DEF PagesInv, FileIn, IsFile

LEMMA LoadKeepsPages ==
    ASSUME tablet \in Tablets, NEW f, NEW S \in SUBSET Profile, FileIn(f, S), NEW before,
           NEW p \in Profile, Has(f[p]), LoadAndApply(f, before, p), saved' = S,
           UNCHANGED tablet
    PROVE  PagesInv'
<1>1. file' = [f EXCEPT ![p] = Mapped(@)] /\ form' = LoadForm(f[p]) /\ profile' = p
      /\ changed' = FALSE /\ reset' = FALSE
  BY DEF LoadAndApply
<1>2. /\ FileIn(file', S) /\ Has(file'[p])
      /\ p \in S => Shows(file'[p], form', tablet)
  BY <1>1, AppliedStays
<1>3. Readable(form')
  BY <1>1, LoadedIsReadable
<1>4. /\ FileIn(file', saved') /\ Has(file'[profile'])
      /\ profile' \in saved' => Shows(file'[profile'], form', tablet)
  BY <1>1, <1>2
<1>5. /\ IsFile(file')
      /\ \A q \in Profile : Has(file'[q]) => Has(Mapped(file'[q]))
      /\ \A q \in saved' : IsSaved(file'[q], tablet)
  BY <1>4 DEF FileIn
<1> QED BY <1>1, <1>3, <1>4, <1>5 DEF PagesInv, FileIn, IsFile

LEMMA SwitchKeepsPages ==
    ASSUME PagesInv, saved \subseteq Profile, NEW f, NEW ours \in SUBSET Profile,
           FileIn(f, ours), NEW current \in Profile, NEW p \in Profile, Has(f[p]),
           SwitchProfile(f, ours, current, p), UNCHANGED tablet
    PROVE  PagesInv'
<1>1. tablet \in Tablets /\ Readable(form)
  BY DEF PagesInv
<1>2. CASE LoadAndApply(f, driver, p) /\ saved' = ours
  BY <1>1, <1>2, LoadKeepsPages
<1>3. CASE \E before : LoadAndApply(Written(f, current), before, p) /\ saved' = ours \cup {current}
  <2>1. PICK g, S, before : /\ g = Written(f, current) /\ S = ours \cup {current}
                            /\ LoadAndApply(g, before, p) /\ saved' = S
    BY <1>3
  <2>2. /\ FileIn(g, S) /\ Has(g[current])
        /\ \A q \in Profile : q # current => g[q] = f[q]
    BY <1>1, <2>1, WrittenSaves
  <2>3. Has(g[p]) /\ S \in SUBSET Profile
    BY <2>1, <2>2
  <2> QED BY <1>1, <2>1, <2>2, <2>3, LoadKeepsPages
<1> QED BY <1>2, <1>3 DEF SwitchProfile

LEMMA CreatedStays ==
    ASSUME NEW c, IsContents(c), NEW t, NEW y, y = Created(c, t)
    PROVE  IsContents(y) /\ Has(y) /\ Has(Mapped(y))
<1>1. IsContents(y)
  BY CreatedKeeps
<1>2. y["pad"]["AbsWheelUp"] = "4"
  <2> DEFINE a == Put(c, "pad", DefaultPad)
             b == Put(a, "stylus", DefaultStylus)
             e == Put(b, "eraser", DefaultStylus)
  <2>1. "AbsWheelUp" \in Property
    BY DEF Property, Shortcuts, Wheels
  <2>2. "AbsWheelUp" \in DOMAIN DefaultPad /\ DefaultPad["AbsWheelUp"] = "4"
    BY DEF DefaultPad, Wheels
  <2>3. IsContents(a) /\ a["pad"]["AbsWheelUp"] = DefaultPad["AbsWheelUp"]
    BY <2>1, <2>2, PutWrites, DeviceNames
  <2>4. y = IF t.touch = "none" THEN e ELSE Put(e, "touch", DefaultTouch)
    BY DEF Created
  <2> HIDE DEF a
  <2>5. IsContents(b) /\ b["pad"] = a["pad"]
    BY <2>3, PutWrites, DeviceNames
  <2> HIDE DEF b
  <2>6. IsContents(e) /\ e["pad"] = b["pad"]
    BY <2>5, PutWrites, DeviceNames
  <2> HIDE DEF e
  <2>7. y["pad"] = e["pad"]
    BY <2>4, <2>6, PutWrites, DeviceNames
  <2> QED BY <2>2, <2>3, <2>5, <2>6, <2>7
<1>3. Mapped(y)["pad"] = y["pad"]
  BY <1>1, PutWrites, DeviceNames DEF Mapped
<1>4. NoContents["pad"]["AbsWheelUp"] = ""
  BY DeviceNames DEF NoContents, NoEntries, Property, Shortcuts, Wheels
<1> QED BY <1>1, <1>2, <1>3, <1>4 DEF Has

LEMMA InitPages == Init => PagesInv
<1> SUFFICES ASSUME Init PROVE PagesInv
  OBVIOUS
<1>1. profile \in Profile /\ Has(Presets[profile]) /\ saved = {} /\ tablet \in Tablets
  BY DEF Init
<1>2. FileIn(Presets, {})
  <2>1. IsFile(Presets)
    BY PresetsAreFiles
  <2> QED BY <2>1, PresetAssumption DEF FileIn
<1>3. file = [Presets EXCEPT ![profile] = Mapped(@)]
  BY DEF Init
<1>4. FileIn(file, {}) /\ Has(file[profile])
  BY <1>1, <1>2, <1>3, AppliedStays
<1>5. Readable(form)
  BY LoadedIsReadable DEF Init
<1> QED BY <1>1, <1>4, <1>5 DEF PagesInv, Init

LEMMA EditKeepsPages ==
    ASSUME PagesInv, NEW e \in Edits, Edit(e)
    PROVE  PagesInv'
<1>1. form' = [form EXCEPT ![e.widget] = e.value] /\ changed' = TRUE
      /\ UNCHANGED <<tablet, file, profile, saved, reset>>
  BY DEF Edit, EditOnly
<1>2. e.widget[2] # "ScreenMap" => Read(e.widget[2], e.value) = e.value
  BY InputAssumption, ReadsBack
<1>3. Readable(form')
  BY <1>1, <1>2, SettingIsReadable DEF PagesInv
<1> QED BY <1>1, <1>3, EditingKeepsPages

LEMMA MappingKeepsPages ==
    ASSUME PagesInv, NEW d, NEW s, OnTabletMappingClicked(d, s)
    PROVE  PagesInv'
<1>1. changed' = TRUE /\ UNCHANGED <<tablet, file, profile, saved, reset>>
  BY DEF OnTabletMappingClicked, EditOnly
<1>2. PICK v : form' = [form EXCEPT ![<<d, "ScreenSpace">>] = s, ![<<d, "ScreenMap">>] = v]
  BY DEF OnTabletMappingClicked
<1>3. PICK g : g = [form EXCEPT ![<<d, "ScreenSpace">>] = s]
  OBVIOUS
<1>4. form' = [g EXCEPT ![<<d, "ScreenMap">>] = v]
  BY <1>2, <1>3
<1>5. Readable(g)
  <2>1. PICK w : w = <<d, "ScreenSpace">>
    OBVIOUS
  <2>2. Read(w[2], s) = s
    BY <2>1, ReadsBack
  <2> QED BY <1>3, <2>1, <2>2, SettingIsReadable DEF PagesInv
<1>6. Readable(form')
  <2>1. <<d, "ScreenMap">>[2] = "ScreenMap"
    OBVIOUS
  <2> QED BY <1>4, <1>5, <2>1, SettingIsReadable
<1> QED BY <1>1, <1>6, EditingKeepsPages

LEMMA AcceptKeepsPages ==
    ASSUME PagesInv, AcceptCurve
    PROVE  PagesInv'
<1>1. UNCHANGED <<tablet, file, profile, saved, reset>>
  BY DEF AcceptCurve, EditOnly
<1>2. CASE UNCHANGED <<form, changed>>
  BY <1>1, <1>2, EditingKeepsPages DEF PagesInv
<1>3. CASE /\ form' = [form EXCEPT ![<<curve.device, "PressureCurve">>] = curve.points]
           /\ changed' = TRUE
  <2>1. PICK w : w = <<curve.device, "PressureCurve">>
    OBVIOUS
  <2>2. Read(w[2], curve.points) = curve.points
    BY <2>1, ReadsBack
  <2>3. Readable(form')
    BY <1>3, <2>1, <2>2, SettingIsReadable DEF PagesInv
  <2> QED BY <1>1, <1>3, <2>3, EditingKeepsPages
<1> QED BY <1>2, <1>3 DEF AcceptCurve

LEMMA SaveKeepsPages ==
    ASSUME IInv, PagesInv, Save
    PROVE  PagesInv'
<1>1. /\ file' = Written(file, profile) /\ saved' = saved \cup {profile}
      /\ changed' = FALSE /\ reset' = FALSE /\ UNCHANGED <<tablet, profile, form>>
  BY DEF Save
<1>2. FileIn(file', saved') /\ Has(file'[profile]) /\ Shows(file'[profile], form, tablet)
  BY <1>1, WrittenSaves DEF IInv, PagesInv
<1> QED BY <1>1, <1>2 DEF PagesInv, FileIn, IsFile

LEMMA ResetKeepsPages ==
    ASSUME PagesInv, Reset
    PROVE  PagesInv'
<1>1. /\ form' = LoadForm(file[profile]) /\ changed' = FALSE /\ reset' = TRUE
      /\ UNCHANGED <<tablet, file, profile, saved>>
  BY DEF Reset
<1>2. Readable(form')
  BY <1>1, LoadedIsReadable
<1>3. profile \in saved => Shows(file[profile], form', tablet)
  BY <1>1 DEF PagesInv, FileIn, IsSaved
<1> QED BY <1>1, <1>2, <1>3 DEF PagesInv, FileIn, IsFile

LEMMA SelectKeepsPages ==
    ASSUME IInv, PagesInv, NEW p \in Profile, SelectProfile(p)
    PROVE  PagesInv'
<1>1. /\ saved \subseteq Profile /\ profile \in Profile /\ FileIn(file, saved)
  BY DEF IInv, PagesInv
<1>2. Has(file[p]) /\ SwitchProfile(file, saved, profile, p) /\ UNCHANGED tablet
  BY DEF SelectProfile
<1> QED BY <1>1, <1>2, SwitchKeepsPages

\* A profile that is created anew is not the one that was saved.
LEMMA AddedStays ==
    ASSUME NEW S \in SUBSET Profile, FileIn(file, S), NEW p \in Profile,
           NEW f, f = [file EXCEPT ![p] = Created(@, tablet)]
    PROVE  FileIn(f, S \ {p}) /\ Has(f[p])
<1>1. PICK y : y = Created(file[p], tablet)
  OBVIOUS
<1>2. f = [q \in Profile |-> IF q = p THEN y ELSE file[q]]
  BY <1>1 DEF FileIn, IsFile
<1>3. IsContents(y) /\ Has(y) /\ Has(Mapped(y))
  BY <1>1, CreatedStays DEF FileIn, IsFile
<1>4. f[p] = y /\ \A q \in Profile : q # p => f[q] = file[q]
  BY <1>2
<1>5. IsFile(f)
  BY <1>2, <1>3 DEF FileIn, IsFile
<1>6. \A q \in Profile : Has(f[q]) => Has(Mapped(f[q]))
  BY <1>3, <1>4 DEF FileIn
<1>7. \A q \in S \ {p} : IsSaved(f[q], tablet)
  BY <1>4 DEF FileIn
<1> QED BY <1>3, <1>4, <1>5, <1>6, <1>7 DEF FileIn

LEMMA AddKeepsPages ==
    ASSUME IInv, PagesInv, NEW p \in Profile, AddProfile(p)
    PROVE  PagesInv'
<1>1. saved \in SUBSET Profile /\ FileIn(file, saved)
  BY DEF IInv, PagesInv
<1>2. PICK f : f = [file EXCEPT ![p] = Created(@, tablet)]
  OBVIOUS
<1>3. FileIn(f, saved \ {p}) /\ Has(f[p])
  BY <1>1, <1>2, AddedStays
<1>4. SwitchProfile(f, saved \ {p}, p, p) /\ UNCHANGED tablet
  BY <1>2 DEF AddProfile
<1>5. saved \ {p} \in SUBSET Profile
  BY <1>1
<1> QED BY <1>1, <1>3, <1>4, <1>5, SwitchKeepsPages

LEMMA PagesStep == IInv /\ PagesInv /\ [Next]_vars => PagesInv'
<1> SUFFICES ASSUME IInv, PagesInv, [Next]_vars PROVE PagesInv'
  OBVIOUS
<1> USE DEF EditOnly, InCurveDialog
<1>1. ASSUME UNCHANGED <<tablet, file, profile, saved, reset>>,
             changed' = TRUE \/ UNCHANGED changed, UNCHANGED form
      PROVE  PagesInv'
  <2>1. Readable(form')
    BY <1>1 DEF PagesInv
  <2> QED BY <1>1, <2>1, EditingKeepsPages
<1>2. CASE \E e \in Edits : Edit(e)
  BY <1>2, EditKeepsPages
<1>3. CASE \E r \in Rotations : SelectRotation(r)
  BY <1>1, <1>3 DEF SelectRotation, EditTurn
<1>4. CASE OnAutoRotateChanged \/ InvertToggled
  BY <1>1, <1>4 DEF OnAutoRotateChanged, InvertToggled, EditTurn
<1>5. CASE \E d \in {"stylus", "touch"}, s \in Spaces \cup {""} : OnTabletMappingClicked(d, s)
  BY <1>5, MappingKeepsPages
<1>6. CASE \E d \in {"stylus", "eraser"} : OpenPressureCurveDialog(d)
  BY <1>1, <1>6 DEF OpenPressureCurveDialog
<1>7. CASE \E pos \in MousePoints : MousePress(pos) \/ MouseMove(pos) \/ PenPressed(pos)
  BY <1>1, <1>7 DEF MousePress, MouseMove, PenPressed
<1>8. CASE MouseRelease \/ PenLifted
  BY <1>1, <1>8 DEF MouseRelease, PenLifted
<1>9. CASE AcceptCurve
  BY <1>9, AcceptKeepsPages
<1>10. CASE RejectCurve
  BY <1>1, <1>10 DEF RejectCurve
<1>11. CASE Save
  BY <1>11, SaveKeepsPages
<1>12. CASE Reset
  BY <1>12, ResetKeepsPages
<1>13. CASE \E p \in Profile : SelectProfile(p) \/ AddProfile(p)
  BY <1>13, SelectKeepsPages, AddKeepsPages
<1>14. CASE UNCHANGED vars
  BY <1>1, <1>14 DEF vars
<1> QED BY <1>2, <1>3, <1>4, <1>5, <1>6, <1>7, <1>8, <1>9, <1>10, <1>11, <1>12, <1>13, <1>14
        DEF Next

\* What the pages show once a profile was saved is what they would load from it, and
\* saving them again changes nothing.
LEMMA PagesShow == IInv /\ PagesInv => SavedIsShown
<1> SUFFICES ASSUME IInv, PagesInv, ~changed, profile \in saved
    PROVE  /\ \A w \in Widget : Survives(w) => form[w] = LoadForm(file[profile])[w]
           /\ \A d \in Device, p \in Property \ {"Rotate", "ScreenMap"} :
                 SaveForm(file[profile], form, turn, tablet)[d][p] = file[profile][d][p]
  BY DEF SavedIsShown
<1>1. Shows(file[profile], form, tablet)
  BY DEF PagesInv
<1>2. \A w \in Widget : Survives(w) => form[w] = LoadForm(file[profile])[w]
  BY <1>1 DEF Shows, Survives, SurvivesIn
<1>3. \A p \in Property \ {"Rotate", "ScreenMap"} : p \in Unturned \ {"ScreenMap"}
  BY DEF Unturned
<1>4. \A d \in Device, p \in Property \ {"Rotate", "ScreenMap"} :
          SaveForm(file[profile], form, turn, tablet)[d][p] = file[profile][d][p]
  <2>1. PICK c, K, L : /\ c = file[profile] /\ K = Property \ {"Rotate", "ScreenMap"}
                       /\ L = Unturned \ {"ScreenMap"}
    OBVIOUS
  <2>2. \A u : \A d \in Device, p \in L : SaveForm(c, form, u, tablet)[d][p] = c[d][p]
    BY <1>1, <2>1 DEF Shows
  <2>3. \A d \in Device, p \in L : SaveForm(c, form, turn, tablet)[d][p] = c[d][p]
    BY ONLY <2>2
  <2>4. \A p \in K : p \in L
    BY <1>3, <2>1
  <2>5. \A d \in Device, p \in K : SaveForm(c, form, turn, tablet)[d][p] = c[d][p]
    BY ONLY <2>3, <2>4
  <2> QED BY <2>1, <2>5
<1> QED BY <1>2, <1>4

\* What is known of file and form holds however they are loaded, edited and saved.
THEOREM PagesHold == Spec => [](IInv /\ PagesInv)
<1>1. Init => IInv /\ PagesInv
  BY InitIInv, InitPages
<1>2. IInv /\ PagesInv /\ [Next]_vars => (IInv /\ PagesInv)'
  BY InvariantStep, PagesStep
<1> QED BY <1>1, <1>2, PTL DEF Spec

\* Nothing is lost between form and file, whatever was edited and switched before.
THEOREM NothingLost == Spec => []SavedIsShown
BY PagesHold, PagesShow, PTL

-----------------------------------------------------------------------------
(* Curves.                                                                 *)

\* The texts of curves that the driver takes.
Drawable == {Texts[q] : q \in {r \in DOMAIN Texts : Opposite(r)}}
Curves == Drawable \cup {""}

\* The points of the dialog are each other's opposite, on a full percent or where the
\* mouse or the pen got to.
Spot == {n \in Int : Percent(n) \in Mark}
Points ==
    {c \in [one : Spot \X Spot, two : Spot \X Spot, active : 0..2] : c.two = Swap(c.one)}

LEMMA MarkNumbers ==
    /\ Mark \subseteq Int
    /\ \A v \in Mark : 100 - v \in Mark
    /\ 0 \in Mark /\ 100 \in Mark
    /\ \A pos \in MousePoints : Clip(pos[1]) \in Spot /\ Clip(pos[2]) \in Spot
<1> DEFINE reached == {Percent(Clip(pos[i])) : pos \in MousePoints, i \in {1, 2}}
<1>1. \A n \in Int : Percent(n) \in Int /\ Clip(n) \in Int
  BY DEF Percent, Clip, Size
<1>2. \A pos \in MousePoints, i \in {1, 2} : pos[i] \in Int
  BY MouseAssumption
<1>3. reached \subseteq Int
  BY <1>1, <1>2
<1>4. \A pos \in MousePoints : Percent(Clip(pos[1])) \in reached /\ Percent(Clip(pos[2])) \in reached
  OBVIOUS
<1>5. Mark = {0, 100} \cup reached \cup {100 - v : v \in reached}
  BY DEF Mark
<1> HIDE DEF reached
<1>6. Mark \subseteq Int
  <2> SUFFICES ASSUME NEW m \in Mark PROVE m \in Int
    OBVIOUS
  <2>1. CASE m \in {0, 100}
    BY <2>1
  <2>2. CASE m \in reached
    BY <1>3, <2>2
  <2>3. CASE \E v \in reached : m = 100 - v
    BY <1>3, <2>3
  <2> QED BY <1>5, <2>1, <2>2, <2>3
<1>7. ASSUME NEW v \in Mark PROVE 100 - v \in Mark
  <2>1. CASE v \in {0, 100}
    BY <1>5, <2>1
  <2>2. CASE v \in reached
    BY <1>5, <2>2
  <2>3. CASE \E r \in reached : v = 100 - r
    <3>1. PICK r \in reached : v = 100 - r
      BY <2>3
    <3>2. 100 - v = r
      BY <1>3, <3>1
    <3> QED BY <1>5, <3>2
  <2> QED BY <1>5, <2>1, <2>2, <2>3
<1>8. 0 \in Mark /\ 100 \in Mark
  BY <1>5
<1>9. \A pos \in MousePoints : Clip(pos[1]) \in Spot /\ Clip(pos[2]) \in Spot
  BY <1>1, <1>2, <1>4, <1>5 DEF Spot
<1> QED BY <1>6, <1>7, <1>8, <1>9

\* Texts are read back.
LEMMA TextsRead ==
    /\ \A q \in DOMAIN Texts : ControlPoints(Texts[q]) = q /\ Texts[q] = Text(q)
    /\ ControlPoints("") = Straight
    /\ DOMAIN Texts = Mark \X Mark \X Mark \X Mark
<1>1. DOMAIN Parsed = {Texts[q] : q \in DOMAIN Texts}
  BY DEF Parsed
<1>2. ASSUME NEW q \in DOMAIN Texts PROVE ControlPoints(Texts[q]) = q
  <2>1. Texts[q] \in DOMAIN Parsed
    BY <1>1
  <2>2. Parsed[Texts[q]] = CHOOSE r \in DOMAIN Texts : Texts[r] = Texts[q]
    BY <1>1, <2>1 DEF Parsed
  <2>3. \A r \in DOMAIN Texts : Texts[r] = Texts[q] => r = q
    BY TextAssumption
  <2>4. (CHOOSE r \in DOMAIN Texts : Texts[r] = Texts[q]) = q
    BY <2>3
  <2> QED BY <2>1, <2>2, <2>4 DEF ControlPoints
<1>3. "" \notin DOMAIN Parsed
  BY <1>1, TextAssumption
<1>4. \A q \in DOMAIN Texts : Texts[q] = Text(q)
  BY DEF Texts
<1>5. DOMAIN Texts = Mark \X Mark \X Mark \X Mark
  BY DEF Texts
<1> QED BY <1>2, <1>3, <1>4, <1>5 DEF ControlPoints

LEMMA CurvesRead ==
    ASSUME NEW v \in Curves
    PROVE  /\ ControlPoints(v) \in DOMAIN Texts /\ Opposite(ControlPoints(v)) /\ Mirrored(v)
           /\ Text(ControlPoints(v)) \in Drawable
           /\ v # "" => Text(ControlPoints(v)) = v
<1>1. CASE v = ""
  <2>1. ControlPoints(v) = Straight
    BY <1>1, TextsRead
  <2>2. Straight \in DOMAIN Texts /\ Opposite(Straight)
    <3>1. 0 \in Mark /\ 100 \in Mark
      BY MarkNumbers
    <3>2. Straight \in Mark \X Mark \X Mark \X Mark
      BY <3>1 DEF Straight
    <3>3. Opposite(Straight)
      BY DEF Straight, Opposite
    <3> QED BY <3>2, <3>3, TextsRead
  <2>3. Texts[Straight] = Text(Straight) /\ Texts[Straight] \in Drawable
    BY <2>2, TextsRead DEF Drawable
  <2> QED BY <1>1, <2>1, <2>2, <2>3 DEF Mirrored
<1>2. CASE v \in Drawable
  <2>1. PICK q \in DOMAIN Texts : Opposite(q) /\ v = Texts[q]
    BY <1>2 DEF Drawable
  <2>2. ControlPoints(v) = q /\ Text(q) = v
    BY <2>1, TextsRead
  <2> QED BY <1>2, <2>1, <2>2 DEF Mirrored
<1> QED BY <1>1, <1>2 DEF Curves

\* Points to text, and back.
LEMMA PointsAreDrawable ==
    ASSUME NEW c \in Points
    PROVE  PointsString(c) \in Drawable /\ PointsString(c) # ""
<1> DEFINE q == <<Percent(c.one[1]), 100 - Percent(c.one[2]),
                  Percent(c.two[1]), 100 - Percent(c.two[2])>>
<1>1. /\ c.one[1] \in Spot /\ c.one[2] \in Spot
      /\ c.two[1] = c.one[2] /\ c.two[2] = c.one[1]
  BY DEF Points, Swap
<1>2. /\ Percent(c.one[1]) \in Mark /\ Percent(c.one[2]) \in Mark
      /\ Percent(c.two[1]) = Percent(c.one[2]) /\ Percent(c.two[2]) = Percent(c.one[1])
  BY <1>1 DEF Spot
<1>3. q \in DOMAIN Texts
  BY <1>2, MarkNumbers, TextsRead
<1>4. q[3] = 100 - q[2] /\ q[4] = 100 - q[1]
  <2>1. PICK a, b : a = Percent(c.one[1]) /\ b = Percent(c.one[2])
    OBVIOUS
  <2>2. a \in Int /\ b \in Int
    BY <1>2, <2>1, MarkNumbers
  <2>3. q = <<a, 100 - b, b, 100 - a>>
    BY <1>2, <2>1
  <2> QED BY <2>2, <2>3
<1>5. PointsString(c) = Text(q)
  BY DEF PointsString
<1> HIDE DEF q
<1>6. Texts[q] = Text(q) /\ Texts[q] # "" /\ Texts[q] \in Drawable
  BY <1>3, <1>4, TextsRead, TextAssumption DEF Drawable, Opposite
<1> QED BY <1>5, <1>6

LEMMA ReadPoints ==
    ASSUME NEW q \in DOMAIN Texts, Opposite(q)
    PROVE  SetControlPoints(q) \in Points
<1>1. q[1] \in Mark /\ q[2] \in Mark /\ q[1] \in Int /\ q[2] \in Int
  BY TextsRead, MarkNumbers
<1>2. \A n \in Int : Pixels(n) \in Int /\ Percent(Pixels(n)) = n
  BY DEF Pixels, Percent, Size
<1>3. q[3] = 100 - q[2] /\ 100 - q[4] = q[1] /\ 100 - q[2] \in Mark /\ 100 - q[2] \in Int
  BY <1>1, MarkNumbers DEF Opposite
<1>4. Pixels(q[1]) \in Spot /\ Pixels(100 - q[2]) \in Spot
  BY <1>1, <1>2, <1>3 DEF Spot
<1>5. SetControlPoints(q) = [one |-> <<Pixels(q[1]), Pixels(100 - q[2])>>,
                             two |-> <<Pixels(100 - q[2]), Pixels(q[1])>>, active |-> 0]
  BY <1>3 DEF SetControlPoints
<1> QED BY <1>4, <1>5 DEF Points, Swap

LEMMA TakenPoints ==
    ASSUME NEW c \in Points, NEW pos
    PROVE  /\ SetNearestPoint(c, pos) \in Points
           /\ [c EXCEPT !.active = 0] \in Points
BY DEF SetNearestPoint, Points

LEMMA MovedPoints ==
    ASSUME NEW c \in Points, NEW pos \in MousePoints
    PROVE  MoveControlPoint(c, pos) \in Points
<1>1. PICK x, y : x = Clip(pos[1]) /\ y = Clip(pos[2])
  OBVIOUS
<1>2. x \in Spot /\ y \in Spot
  BY <1>1, MarkNumbers
<1>3. CASE c.active = 1
  <2>1. MoveControlPoint(c, pos) = [c EXCEPT !.one = <<x, y>>, !.two = <<y, x>>]
    BY <1>1, <1>3 DEF MoveControlPoint, Swap
  <2>2. MoveControlPoint(c, pos) = [one |-> <<x, y>>, two |-> <<y, x>>, active |-> c.active]
    BY <2>1 DEF Points
  <2>3. Swap(<<x, y>>) = <<y, x>>
    BY DEF Swap
  <2>4. c.active \in 0..2
    BY DEF Points
  <2> QED BY <1>2, <2>2, <2>3, <2>4 DEF Points
<1>4. CASE c.active = 2
  <2>1. MoveControlPoint(c, pos) = [c EXCEPT !.two = <<x, y>>, !.one = <<y, x>>]
    BY <1>1, <1>4 DEF MoveControlPoint, Swap
  <2>2. MoveControlPoint(c, pos) = [one |-> <<y, x>>, two |-> <<x, y>>, active |-> c.active]
    BY <2>1 DEF Points
  <2>3. Swap(<<y, x>>) = <<x, y>>
    BY DEF Swap
  <2>4. c.active \in 0..2
    BY DEF Points
  <2> QED BY <1>2, <2>2, <2>3, <2>4 DEF Points
<1>5. CASE c.active \notin {1, 2}
  BY <1>5 DEF MoveControlPoint
<1> QED BY <1>3, <1>4, <1>5

-----------------------------------------------------------------------------
(* The driver.                                                             *)

Tips == {"stylus", "eraser"}
IsDriver(dr) == dr = [d \in Device |-> [x \in DriverKey |-> dr[d][x]]]

\* Buttons have their numbers.
LEMMA Numbering ==
    /\ \A i \in 1..3 : Buttons[i] \in ToSet(Buttons) /\ Number(Buttons[i]) = i
    /\ \A b \in ToSet(Buttons) : Number(b) \in 1..3 /\ Buttons[Number(b)] = b
<1>1. \A i \in 1..3 : Buttons[i] \in ToSet(Buttons)
  BY ButtonNames DEF Buttons
<1>2. \A i \in 1..3 : Number(Buttons[i]) = i
  BY DEF Number, Buttons
<1>3. \A b \in ToSet(Buttons) : \E i \in 1..3 : b = Buttons[i]
  BY ButtonNames DEF Buttons
<1> QED BY <1>1, <1>2, <1>3

LEMMA SetsDriver ==
    ASSUME NEW before, IsDriver(before), NEW c, NEW t
    PROVE  IsDriver(SetProfile(before, c, t))
<1> DEFINE after == SetProfile(before, c, t)
<1>1. after = [d \in Device |-> IF d \in Devices(t) THEN SetDevice(before[d], c, d, t) ELSE before[d]]
  BY DEF SetProfile
<1>2. ASSUME NEW d \in Device
      PROVE  after[d] = [x \in DriverKey |-> after[d][x]]
  <2>1. SetDevice(before[d], c, d, t) = [x \in DriverKey |-> SetDevice(before[d], c, d, t)[x]]
    BY DEF SetDevice
  <2>2. before[d] = [x \in DriverKey |-> before[d][x]]
    BY DEF IsDriver
  <2> HIDE DEF after
  <2>3. after[d] = SetDevice(before[d], c, d, t) \/ after[d] = before[d]
    BY <1>1
  <2> QED BY <2>1, <2>2, <2>3
<1> HIDE DEF after
<1>3. IsDriver(after)
  BY <1>1, <1>2 DEF IsDriver
<1> QED BY <1>3 DEF after

\* The last of the buttons that share one of X sets it to what the profile has for it.
LEMMA SetsButtons ==
    ASSUME NEW before, NEW c, NEW t \in Tablets, PadIsSaved(c, t), NEW i \in 1..t.buttons,
           SetLast(t, i)
    PROVE  SetProfile(before, c, t)["pad"][ButtonMap(t, "pad", Buttons[i])] = c["pad"][Buttons[i]]
<1> DEFINE b == Buttons[i]
           x == ButtonMap(t, "pad", b)
           given == {p \in Driven : ButtonMap(t, "pad", p) = x /\ c["pad"][p] # ""}
<1>1. /\ t.buttons \in 0..3 /\ DOMAIN t.map \subseteq ToSet(Buttons)
      /\ \A k \in DOMAIN t.map : t.map[k] \in ToSet(Buttons) \cup XButtons
  BY InputAssumption DEF Buttons
<1>2. i \in 1..3 /\ b \in ToSet(Buttons) /\ Number(b) = i
  BY <1>1, Numbering
<1>3. ToSet(Buttons) \subseteq Driven
  BY ButtonNames DEF Driven, Property, Shortcuts
<1>4. c["pad"][b] # ""
  <2>1. Number(b) <= t.buttons
    BY <1>1, <1>2
  <2> QED BY <1>2, <2>1 DEF PadIsSaved
<1>5. b \in given
  BY <1>2, <1>3, <1>4
<1>6. ASSUME NEW p \in given PROVE p \in ToSet(Buttons) /\ Number(p) \in 1..i
  <2>1. p \in Driven /\ ButtonMap(t, "pad", p) = x /\ c["pad"][p] # ""
    OBVIOUS
  <2> HIDE DEF given
  <2>2. x \in ToSet(Buttons) \cup XButtons
    BY <1>1, <1>2 DEF ButtonMap
  <2>3. CASE p \in ToSet(Buttons)
    <3>1. Number(p) \in 1..3 /\ Buttons[Number(p)] = p
      BY <2>3, Numbering
    <3>2. Number(p) <= t.buttons
      BY <2>1, <2>3 DEF PadIsSaved
    <3>3. Number(p) \in 1..t.buttons
      BY <1>1, <3>1, <3>2
    <3>4. ButtonMap(t, "pad", Buttons[Number(p)]) = ButtonMap(t, "pad", Buttons[i])
      BY <2>1, <3>1
    <3>5. Number(p) \notin (i + 1)..t.buttons
      BY <3>4 DEF SetLast
    <3> QED BY <1>1, <1>2, <2>3, <3>3, <3>5
  <2>4. CASE p \notin ToSet(Buttons)
    <3>1. p = x
      BY <1>1, <2>1, <2>4 DEF ButtonMap
    <3>2. p \in XButtons /\ p \in Property
      BY <2>1, <2>2, <2>4, <3>1 DEF Driven
    <3> QED BY <3>2, MapAssumption
  <2> QED BY <2>3, <2>4
<1>7. \A p \in given : (\A q \in given : Number(q) <= Number(p)) <=> p = b
  <2> HIDE DEF given, b
  <2>1. ASSUME NEW p \in given, \A q \in given : Number(q) <= Number(p) PROVE p = b
    <3>1. Number(p) = i
      BY <1>2, <1>5, <1>6, <2>1
    <3> QED BY <1>2, <1>6, <3>1, Numbering
  <2>2. \A q \in given : Number(q) <= Number(b)
    BY <1>2, <1>6
  <2> QED BY <2>1, <2>2
<1>8. x \in DriverKey
  BY <1>1, <1>2, <1>3 DEF ButtonMap, DriverKey
<1> HIDE DEF given, x
<1>9. SetProfile(before, c, t)["pad"][x] = SetDevice(before["pad"], c, "pad", t)[x]
  BY DeviceNames DEF SetProfile, Devices
<1>10. SetDevice(before["pad"], c, "pad", t)[x] = c["pad"][b]
  <2>1. given = {p \in Driven : ButtonMap(t, "pad", p) = x /\ c["pad"][p] # ""}
    BY DEF given
  <2>2. given \cap ToSet(Buttons) # {}
    BY <1>2, <1>5
  <2>3. (CHOOSE p \in given : \A q \in given : Number(q) <= Number(p)) = b
    BY <1>5, <1>7
  <2>4. given # {}
    BY <1>5
  <2> QED BY <1>8, <2>1, <2>2, <2>3, <2>4 DEF SetDevice
<1> QED BY <1>9, <1>10 DEF x

\* The curve of a tip in contents or in the driver, and in a form.
CurveOf(c, d) == c[d]["PressureCurve"]
Drawn(f, d) == f[<<d, "PressureCurve">>]

\* A curve that is there is set, of stylus and eraser.
LEMMA SetsCurve ==
    ASSUME NEW before, NEW c, NEW t, NEW d \in Tips
    PROVE  /\ CurveOf(c, d) # Absent => CurveOf(SetProfile(before, c, t), d) = CurveOf(c, d)
           /\ CurveOf(c, d) = Absent => CurveOf(SetProfile(before, c, t), d) = CurveOf(before, d)
<1> DEFINE x == "PressureCurve"
           given == {p \in Driven : ButtonMap(t, d, p) = x /\ c[d][p] # ""}
<1>1. \A p : ButtonMap(t, d, p) = p
  BY DEF ButtonMap, Tips
<1>2. x \in Driven /\ x \in DriverKey /\ x \notin ToSet(Buttons)
  BY ButtonNames DEF Driven, DriverKey, Property
<1>3. d \in Devices(t)
  BY DEF Tips, Devices, Device
<1>4. SetProfile(before, c, t)[d] = SetDevice(before[d], c, d, t)
  BY <1>3 DEF SetProfile, Devices
<1>5. given = IF c[d][x] # "" THEN {x} ELSE {}
  BY <1>1, <1>2
<1> HIDE DEF given
<1>6. CASE c[d][x] # ""
  <2>1. given \cap ToSet(Buttons) = {} /\ given # {} /\ (CHOOSE p \in given : TRUE) = x
    BY <1>2, <1>5, <1>6
  <2> QED BY <1>2, <1>4, <1>6, <2>1 DEF SetDevice, given, CurveOf, Absent
<1>7. CASE c[d][x] = ""
  <2>1. given = {}
    BY <1>5, <1>7
  <2> QED BY <1>2, <1>4, <1>7, <2>1 DEF SetDevice, given, CurveOf, Absent
<1> QED BY <1>6, <1>7

LEMMA SetsOneCurve ==
    ASSUME NEW dr, IsDriver(dr), NEW d \in Tips, NEW v, NEW after, after = SetCurve(dr, d, v)
    PROVE  /\ IsDriver(after) /\ after["pad"] = dr["pad"]
           /\ \A e \in Tips : e # d => CurveOf(after, e) = CurveOf(dr, e)
           /\ v # Absent => CurveOf(after, d) = v
           /\ v = Absent => after = dr
<1>1. CASE v = ""
  BY <1>1 DEF SetCurve, Absent
<1>2. CASE v # ""
  <2>1. after = [dr EXCEPT ![d]["PressureCurve"] = v]
    BY <1>2 DEF SetCurve
  <2>2. "PressureCurve" \in DriverKey /\ d \in Device /\ d # "pad"
    BY ButtonNames DEF DriverKey, Driven, Property, Tips, Device
  <2>3. \A e \in Device : dr[e] = [x \in DriverKey |-> dr[e][x]]
    BY DEF IsDriver
  <2>4. after = [e \in Device |-> IF e = d THEN [dr[d] EXCEPT !["PressureCurve"] = v] ELSE dr[e]]
    BY <2>1 DEF IsDriver
  <2>5. after[d] = [x \in DriverKey |-> IF x = "PressureCurve" THEN v ELSE dr[d][x]]
    BY <2>2, <2>3, <2>4
  <2>6. \A e \in Device : e # d => after[e] = dr[e]
    BY <2>4
  <2>7. \A e \in Device : after[e] = [x \in DriverKey |-> after[e][x]]
    <3>1. after[d] = [x \in DriverKey |-> after[d][x]]
      BY <2>5
    <3> QED BY <2>3, <2>6, <3>1
  <2>8. IsDriver(after)
    BY <2>4, <2>7 DEF IsDriver
  <2>9. after[d]["PressureCurve"] = v
    BY <2>2, <2>5
  <2>10. Tips \subseteq Device
    BY DEF Tips, Device
  <2> QED BY <1>2, <2>2, <2>6, <2>8, <2>9, <2>10, DeviceNames DEF CurveOf, Absent
<1> QED BY <1>1, <1>2

\* What the dialog is while it is open.
IsDialog(c, f) ==
    /\ c \in [device : Tips, start : Curves, points : Drawable, widget : Points, down : BOOLEAN]
    /\ c.start = Drawn(f, c.device)

HasCurves(f) == \A p \in Profile, d \in Tips : CurveOf(f[p], d) \in Curves
DrivesCurves(dr) == IsDriver(dr) /\ \A d \in Tips : CurveOf(dr, d) \in Curves

\* How curves of profile c, form, driver and dialog meet.
CurvesMeet(c, f, dr, dialog, discarded) ==
    \A d \in Tips :
        /\ Drawn(f, d) \in Curves
        /\ CurveOf(c, d) # Absent =>
              /\ Drawn(f, d) # Absent
              /\ ~discarded /\ dialog.device = d => CurveOf(dr, d) = dialog.points
              /\ ~discarded /\ dialog.device # d => CurveOf(dr, d) = Drawn(f, d)

\* The buttons of the tablet that are set last do what profile c has for them.
ButtonsSet(dr, c) ==
    \A i \in 1..tablet.buttons : SetLast(tablet, i) =>
        dr["pad"][ButtonMap(tablet, "pad", Buttons[i])] = c["pad"][Buttons[i]]

DriverInv ==
    /\ HasCurves(file)
    /\ DrivesCurves(driver)
    /\ CurvesMeet(file[profile], form, driver, curve, reset)
    /\ curve = Closed \/ IsDialog(curve, form)
    /\ profile \in saved => ButtonsSet(driver, file[profile])

LEMMA ClosedHasNoTip == \A d \in Tips : Closed.device # d
BY DEF Closed, Tips

LEMMA TipNames == "PressureCurve" \in Unturned /\ \A d \in Tips : d \in Device /\ <<d, "PressureCurve">> \in Widget
BY ButtonNames DEF Unturned, Property, Tips, Device, Widget, StylusPage

\* The daemon maps no curve, and forms load what is there.
LEMMA MappedCurves ==
    ASSUME NEW c, IsContents(c), NEW d \in Tips
    PROVE  CurveOf(Mapped(c), d) = CurveOf(c, d) /\ Drawn(LoadForm(c), d) = CurveOf(c, d)
<1>1. CurveOf(Mapped(c), d) = CurveOf(c, d)
  <2> DEFINE entries == [p \in {"Mode", "ScreenSpace"} |-> c["stylus"][p]]
  <2>1. "PressureCurve" \notin DOMAIN entries
    OBVIOUS
  <2>2. Mapped(c) = Put(c, "eraser", entries)
    BY DEF Mapped
  <2> HIDE DEF entries
  <2>3. CASE d = "eraser"
    <3>1. PICK m : m = Mapped(c)
      OBVIOUS
    <3>2. "PressureCurve" \in Unturned
      BY TipNames
    <3>3. m[d]["PressureCurve"] = c[d]["PressureCurve"]
      BY <2>1, <2>2, <2>3, <3>1, <3>2, DeviceNames, PutRows
    <3> QED BY <3>1, <3>3 DEF CurveOf
  <2>4. CASE d # "eraser"
    <3>1. d \in Device
      BY TipNames
    <3>2. Mapped(c)[d] = c[d]
      BY <2>2, <2>4, <3>1, DeviceNames, PutWrites
    <3> QED BY <3>2 DEF CurveOf
  <2> QED BY <2>3, <2>4
<1>2. LoadForm(c)[<<d, "PressureCurve">>] = Read("PressureCurve", c[d]["PressureCurve"])
  BY TipNames DEF LoadForm, Source, Tips
<1> QED BY <1>1, <1>2, ReadsBack DEF CurveOf, Drawn

\* A profile that is saved has the curves of the form.
LEMMA SavedCurves ==
    ASSUME NEW x, IsContents(x), NEW f, NEW u, NEW t, NEW d \in Tips
    PROVE  CurveOf(Mapped(SaveForm(x, f, u, t)), d) = Drawn(f, d)
<1>1. PICK y : y = SaveForm(x, f, u, t)
  OBVIOUS
<1>2. SavedRows(y, x, f, t)
  BY <1>1, SaveRows
<1>3. "PressureCurve" \in StylusKeys /\ "PressureCurve" \in EraserKeys
  BY DEF StylusKeys, EraserKeys
<1>4. CASE d = "stylus"
  <2>1. y["stylus"]["PressureCurve"] = Value(f, "stylus", "PressureCurve")
    BY <1>2, <1>3, TipNames DEF SavedRows
  <2> QED BY <1>1, <1>2, <1>4, <2>1, SavedIsMapped DEF CurveOf, Drawn, Value
<1>5. CASE d = "eraser"
  <2>1. y["eraser"]["PressureCurve"] = Value(f, "eraser", "PressureCurve")
    BY <1>2, <1>3, TipNames DEF SavedRows
  <2> QED BY <1>1, <1>2, <1>5, <2>1, SavedIsMapped DEF CurveOf, Drawn, Value
<1> QED BY <1>4, <1>5 DEF Tips

\* A profile that is set drives its curves.
LEMMA ProfileDrivesCurves ==
    ASSUME NEW before, DrivesCurves(before), NEW c, NEW t, \A d \in Tips : CurveOf(c, d) \in Curves
    PROVE  DrivesCurves(SetProfile(before, c, t))
<1>1. IsDriver(SetProfile(before, c, t))
  BY SetsDriver DEF DrivesCurves
<1>2. \A d \in Tips : CurveOf(SetProfile(before, c, t), d) \in {CurveOf(c, d), CurveOf(before, d)}
  BY SetsCurve
<1> QED BY <1>1, <1>2 DEF DrivesCurves

LEMMA LoadKeepsDriver ==
    ASSUME tablet \in Tablets, NEW f, NEW S \in SUBSET Profile, FileIn(f, S), HasCurves(f),
           NEW before, DrivesCurves(before), NEW p \in Profile, LoadAndApply(f, before, p),
           saved' = S, curve' = Closed, UNCHANGED tablet
    PROVE  DriverInv'
<1>1. PICK c, m, dr, g : c = f[p] /\ m = Mapped(c) /\ dr = driver' /\ g = form'
  OBVIOUS
<1>2. /\ file' = [f EXCEPT ![p] = Mapped(@)] /\ dr = SetProfile(before, m, tablet)
      /\ g = LoadForm(c) /\ profile' = p /\ reset' = FALSE
  BY <1>1 DEF LoadAndApply
<1>3. IsContents(c)
  BY <1>1 DEF FileIn, IsFile
<1>4. file'[p] = m /\ \A q \in Profile : q # p => file'[q] = f[q]
  BY <1>1, <1>2 DEF FileIn, IsFile
<1>5. \A d \in Tips : /\ CurveOf(m, d) = CurveOf(c, d) /\ Drawn(g, d) = CurveOf(c, d)
                      /\ CurveOf(c, d) \in Curves
  BY <1>1, <1>2, <1>3, MappedCurves DEF HasCurves
<1>6. HasCurves(file')
  BY <1>4, <1>5 DEF HasCurves
<1>7. DrivesCurves(dr)
  BY <1>2, <1>5, ProfileDrivesCurves
<1>8. CurvesMeet(m, g, dr, Closed, FALSE)
  BY <1>2, <1>5, SetsCurve, ClosedHasNoTip DEF CurvesMeet
<1>9. p \in S => ButtonsSet(dr, m)
  <2> SUFFICES ASSUME p \in S PROVE ButtonsSet(dr, m)
    OBVIOUS
  <2>1. PadIsSaved(m, tablet)
    BY <1>1 DEF FileIn, IsSaved
  <2> QED BY <1>2, <2>1, SetsButtons DEF ButtonsSet
<1>10. file'[profile'] = m /\ CurvesMeet(file'[profile'], form', driver', curve', reset')
  BY <1>1, <1>2, <1>4, <1>8
<1>11. profile' \in saved' => ButtonsSet(driver, file[profile])'
  BY <1>1, <1>2, <1>9, <1>10 DEF ButtonsSet
<1>12. DrivesCurves(driver')
  BY <1>1, <1>7
<1> QED BY <1>6, <1>10, <1>11, <1>12 DEF DriverInv

\* A save writes the curves of the form.
LEMMA WrittenCurves ==
    ASSUME NEW f, IsFile(f), HasCurves(f), \A d \in Tips : Drawn(form, d) \in Curves,
           NEW p \in Profile
    PROVE  /\ HasCurves(Written(f, p))
           /\ \A d \in Tips : CurveOf(Written(f, p)[p], d) = Drawn(form, d)
<1>1. PICK y : y = Mapped(SaveForm(f[p], form, turn, tablet))
  OBVIOUS
<1>2. Written(f, p) = [q \in Profile |-> IF q = p THEN y ELSE f[q]]
  BY <1>1 DEF Written, IsFile
<1>3. \A d \in Tips : CurveOf(y, d) = Drawn(form, d)
  BY <1>1, SavedCurves DEF IsFile
<1> QED BY <1>2, <1>3 DEF HasCurves

LEMMA SwitchKeepsDriver ==
    ASSUME PagesInv, DriverInv, NEW f, NEW ours \in SUBSET Profile, FileIn(f, ours),
           HasCurves(f), NEW current \in Profile, NEW p \in Profile,
           SwitchProfile(f, ours, current, p), curve = Closed, UNCHANGED <<tablet, curve>>
    PROVE  DriverInv'
<1>1. tablet \in Tablets /\ Readable(form)
  BY DEF PagesInv
<1>2. DrivesCurves(driver) /\ \A d \in Tips : Drawn(form, d) \in Curves
  BY DEF DriverInv, CurvesMeet
<1>3. CASE LoadAndApply(f, driver, p) /\ saved' = ours
  BY <1>1, <1>2, <1>3, LoadKeepsDriver
<1>4. CASE \E before : /\ before = SetProfile(driver, Written(f, current)[current], tablet)
                       /\ LoadAndApply(Written(f, current), before, p)
                       /\ saved' = ours \cup {current}
  <2>1. PICK g, S, before : /\ g = Written(f, current) /\ S = ours \cup {current}
                            /\ before = SetProfile(driver, g[current], tablet)
                            /\ LoadAndApply(g, before, p) /\ saved' = S
    BY <1>4
  <2>2. FileIn(g, S)
    BY <1>1, <2>1, WrittenSaves
  <2>3. HasCurves(g)
    BY <1>2, <2>1, WrittenCurves DEF FileIn
  <2>4. \A d \in Tips : CurveOf(g[current], d) \in Curves
    BY <2>3 DEF HasCurves
  <2>5. DrivesCurves(before)
    BY <1>2, <2>1, <2>4, ProfileDrivesCurves
  <2>6. S \in SUBSET Profile
    BY <2>1
  <2> QED BY <1>1, <2>1, <2>2, <2>3, <2>5, <2>6, LoadKeepsDriver
<1> QED BY <1>3, <1>4 DEF SwitchProfile

LEMMA SaveKeepsDriver ==
    ASSUME IInv, PagesInv, DriverInv, Save
    PROVE  DriverInv'
<1>1. PICK g, m, dr : g = Written(file, profile) /\ m = g[profile] /\ dr = driver'
  OBVIOUS
<1>2. /\ file' = g /\ dr = SetProfile(driver, m, tablet) /\ reset' = FALSE
      /\ saved' = saved \cup {profile} /\ curve = Closed
      /\ UNCHANGED <<tablet, profile, form, curve>>
  BY <1>1 DEF Save, Act
<1>3. profile \in Profile /\ FileIn(file, saved) /\ tablet \in Tablets /\ Readable(form)
      /\ saved \in SUBSET Profile
  BY DEF IInv, PagesInv
<1>4. HasCurves(file) /\ DrivesCurves(driver) /\ \A d \in Tips : Drawn(form, d) \in Curves
  BY DEF DriverInv, CurvesMeet
<1>5. HasCurves(g) /\ \A d \in Tips : CurveOf(m, d) = Drawn(form, d)
  BY <1>1, <1>3, <1>4, WrittenCurves DEF FileIn
<1>6. DrivesCurves(dr)
  BY <1>2, <1>4, <1>5, ProfileDrivesCurves
<1>7. CurvesMeet(m, form, dr, Closed, FALSE)
  BY <1>2, <1>4, <1>5, SetsCurve, ClosedHasNoTip DEF CurvesMeet
<1>8. ButtonsSet(dr, m)
  <2>1. FileIn(g, saved \cup {profile})
    BY <1>1, <1>3, WrittenSaves
  <2>2. PadIsSaved(m, tablet)
    BY <1>1, <2>1 DEF FileIn, IsSaved
  <2> QED BY <1>2, <1>3, <2>2, SetsButtons DEF ButtonsSet
<1> QED BY <1>1, <1>2, <1>5, <1>6, <1>7, <1>8 DEF DriverInv, ButtonsSet

LEMMA ResetKeepsDriver ==
    ASSUME IInv, DriverInv, Reset
    PROVE  DriverInv'
<1>1. PICK c, g : c = file[profile] /\ g = form'
  OBVIOUS
<1>2. /\ g = LoadForm(c) /\ reset' = TRUE /\ curve = Closed
      /\ UNCHANGED <<tablet, file, driver, profile, curve, saved>>
  BY <1>1 DEF Reset, Act
<1>3. IsContents(c) /\ \A d \in Tips : CurveOf(c, d) \in Curves
  BY <1>1 DEF IInv, IsFile, DriverInv, HasCurves
<1>4. \A d \in Tips : Drawn(g, d) = CurveOf(c, d)
  BY <1>2, <1>3, MappedCurves
<1>5. CurvesMeet(c, g, driver, curve, TRUE)
  BY <1>3, <1>4 DEF CurvesMeet
<1> QED BY <1>1, <1>2, <1>5 DEF DriverInv, ButtonsSet, HasCurves, DrivesCurves, IsDriver

\* Edits that leave the curves alone.
LEMMA OthersKeepDriver ==
    ASSUME DriverInv, UNCHANGED <<tablet, file, driver, profile, curve, saved, reset>>,
           \A d \in Tips : Drawn(form', d) = Drawn(form, d)
    PROVE  DriverInv'
<1>1. PICK g : g = form'
  OBVIOUS
<1>2. \A d \in Tips : Drawn(g, d) = Drawn(form, d)
  BY <1>1
<1>3. CurvesMeet(file[profile], g, driver, curve, reset)
  BY <1>2 DEF DriverInv, CurvesMeet
<1>4. curve = Closed \/ IsDialog(curve, g)
  BY <1>2 DEF DriverInv, IsDialog
<1> QED BY <1>1, <1>3, <1>4 DEF DriverInv, ButtonsSet, HasCurves, DrivesCurves, IsDriver

LEMMA EditKeepsDriver ==
    ASSUME PagesInv, DriverInv, NEW e \in Edits, Edit(e)
    PROVE  DriverInv'
<1>1. form' = [form EXCEPT ![e.widget] = e.value]
      /\ UNCHANGED <<tablet, file, driver, profile, curve, saved, reset>>
  BY DEF Edit, EditOnly
<1>2. \A d : <<d, "PressureCurve">>[2] = "PressureCurve"
  OBVIOUS
<1>3. \A d : <<d, "PressureCurve">> # e.widget
  BY <1>2, InputAssumption
<1>4. \A d \in Tips : Drawn(form', d) = Drawn(form, d)
  BY <1>1, <1>3, TipNames DEF Drawn, PagesInv, Readable
<1> QED BY <1>1, <1>4, OthersKeepDriver

LEMMA MappingKeepsDriver ==
    ASSUME PagesInv, DriverInv, NEW d, NEW s, OnTabletMappingClicked(d, s)
    PROVE  DriverInv'
<1>1. UNCHANGED <<tablet, file, driver, profile, curve, saved, reset>>
  BY DEF OnTabletMappingClicked, EditOnly
<1>2. PICK v : form' = [form EXCEPT ![<<d, "ScreenSpace">>] = s, ![<<d, "ScreenMap">>] = v]
  BY DEF OnTabletMappingClicked
<1>3. \A e : <<e, "PressureCurve">> # <<d, "ScreenSpace">> /\ <<e, "PressureCurve">> # <<d, "ScreenMap">>
  OBVIOUS
<1>4. \A e \in Tips : Drawn(form', e) = Drawn(form, e)
  BY <1>2, <1>3, TipNames DEF Drawn, PagesInv, Readable
<1> QED BY <1>1, <1>4, OthersKeepDriver

LEMMA SelectKeepsDriver ==
    ASSUME IInv, PagesInv, DriverInv, NEW p \in Profile, SelectProfile(p)
    PROVE  DriverInv'
<1>1. saved \in SUBSET Profile /\ profile \in Profile /\ FileIn(file, saved) /\ HasCurves(file)
  BY DEF IInv, PagesInv, DriverInv
<1>2. SwitchProfile(file, saved, profile, p) /\ curve = Closed /\ UNCHANGED <<tablet, curve>>
  BY DEF SelectProfile, Act
<1> QED BY <1>1, <1>2, SwitchKeepsDriver

LEMMA CreatedCurves ==
    ASSUME NEW c, IsContents(c), NEW t, NEW d \in Tips
    PROVE  CurveOf(Created(c, t), d) \in Curves
<1> DEFINE a == Put(c, "pad", DefaultPad)
           b == Put(a, "stylus", DefaultStylus)
           e == Put(b, "eraser", DefaultStylus)
           y == Created(c, t)
<1>1. "PressureCurve" \in DOMAIN DefaultStylus /\ DefaultStylus["PressureCurve"] = Text(Straight)
  BY ButtonNames DEF DefaultStylus
<1>2. Text(Straight) \in Curves
  BY CurvesRead, TextsRead DEF Curves
<1>3. "PressureCurve" \in Property /\ d \in Device /\ d # "touch"
  BY ButtonNames DEF Property, Tips, Device
<1>4. IsContents(a)
  BY PutWrites, DeviceNames
<1>5. y = IF t.touch = "none" THEN e ELSE Put(e, "touch", DefaultTouch)
  BY DEF Created
<1> HIDE DEF a
<1>6. IsContents(b) /\ b["stylus"]["PressureCurve"] = Text(Straight)
  BY <1>1, <1>3, <1>4, PutWrites, DeviceNames
<1> HIDE DEF b
<1>7. /\ IsContents(e) /\ e["stylus"] = b["stylus"]
      /\ e["eraser"]["PressureCurve"] = Text(Straight)
  BY <1>1, <1>3, <1>6, PutWrites, DeviceNames
<1> HIDE DEF e
<1>8. y[d] = e[d]
  BY <1>3, <1>5, <1>7, PutWrites, DeviceNames
<1> HIDE DEF y
<1>9. y[d]["PressureCurve"] = Text(Straight)
  BY <1>6, <1>7, <1>8 DEF Tips
<1> QED BY <1>2, <1>9 DEF y, CurveOf

LEMMA AddKeepsDriver ==
    ASSUME IInv, PagesInv, DriverInv, NEW p \in Profile, AddProfile(p)
    PROVE  DriverInv'
<1>1. PICK f : f = [file EXCEPT ![p] = Created(@, tablet)]
  OBVIOUS
<1>2. saved \in SUBSET Profile /\ saved \ {p} \in SUBSET Profile /\ FileIn(file, saved) /\ HasCurves(file)
  BY DEF IInv, PagesInv, DriverInv
<1>3. FileIn(f, saved \ {p})
  BY <1>1, <1>2, AddedStays
<1>4. HasCurves(f)
  <2>1. PICK y : y = Created(file[p], tablet)
    OBVIOUS
  <2>2. f = [q \in Profile |-> IF q = p THEN y ELSE file[q]]
    BY <1>1, <1>2, <2>1 DEF FileIn, IsFile
  <2>3. \A d \in Tips : CurveOf(y, d) \in Curves
    BY <1>2, <2>1, CreatedCurves DEF FileIn, IsFile
  <2> QED BY <1>2, <2>2, <2>3 DEF HasCurves
<1>5. SwitchProfile(f, saved \ {p}, p, p) /\ curve = Closed /\ UNCHANGED <<tablet, curve>>
  BY <1>1 DEF AddProfile, Act
<1> QED BY <1>2, <1>3, <1>4, <1>5, SwitchKeepsDriver

\* The dialog: what is taken or let go, ...
LEMMA HoldingKeepsDriver ==
    ASSUME DriverInv, curve # Closed, InCurveDialog, UNCHANGED driver,
           NEW w \in Points, NEW b \in BOOLEAN,
           curve' = [curve EXCEPT !.widget = w, !.down = b]
    PROVE  DriverInv'
<1>1. IsDialog(curve, form)
  BY DEF DriverInv
<1>2. PICK k : k = curve'
  OBVIOUS
<1>3. k = [device |-> curve.device, start |-> curve.start, points |-> curve.points,
           widget |-> w, down |-> b]
  BY <1>1, <1>2 DEF IsDialog
<1>4. IsDialog(k, form)
  BY <1>1, <1>3 DEF IsDialog
<1>5. CurvesMeet(file[profile], form, driver, k, reset)
  BY <1>3 DEF DriverInv, CurvesMeet
<1> QED BY <1>2, <1>4, <1>5
        DEF InCurveDialog, EditOnly, DriverInv, ButtonsSet, HasCurves, DrivesCurves, IsDriver

\* ... what is drawn, ...
LEMMA DragKeepsDriver ==
    ASSUME DriverInv, curve # Closed, InCurveDialog, NEW pos \in MousePoints, Drag(pos)
    PROVE  DriverInv'
<1>1. IsDialog(curve, form)
  BY DEF DriverInv
<1>2. PICK k, dr, d, w, s : /\ k = curve' /\ dr = driver' /\ d = curve.device
                            /\ w = MoveControlPoint(curve.widget, pos) /\ s = PointsString(w)
  OBVIOUS
<1>3. d \in Tips /\ w \in Points /\ s \in Drawable /\ s # Absent
  BY <1>1, <1>2, MovedPoints, PointsAreDrawable DEF IsDialog, Absent
<1>4. k = [device |-> d, start |-> curve.start, points |-> s, widget |-> w, down |-> curve.down]
  BY <1>1, <1>2 DEF IsDialog, Drag
<1>5. IsDialog(k, form)
  BY <1>1, <1>2, <1>3, <1>4 DEF IsDialog
<1>6. dr = SetCurve(driver, d, s)
  BY <1>2 DEF Drag, UpdateControlPoints
<1>7. IsDriver(driver) /\ \A e \in Tips : CurveOf(driver, e) \in Curves
  BY DEF DriverInv, DrivesCurves
<1>8. /\ IsDriver(dr) /\ dr["pad"] = driver["pad"] /\ CurveOf(dr, d) = s
      /\ \A e \in Tips : e # d => CurveOf(dr, e) = CurveOf(driver, e)
  BY <1>3, <1>6, <1>7, SetsOneCurve
<1>9. DrivesCurves(dr)
  BY <1>3, <1>7, <1>8 DEF DrivesCurves, Curves
<1>10. CurvesMeet(file[profile], form, dr, k, reset)
  BY <1>2, <1>4, <1>8 DEF DriverInv, CurvesMeet
<1> QED BY <1>2, <1>5, <1>8, <1>9, <1>10
        DEF InCurveDialog, EditOnly, DriverInv, ButtonsSet, HasCurves, DrivesCurves

\* ... and how it is opened and closed.
LEMMA OpenKeepsDriver ==
    ASSUME DriverInv, NEW d \in Tips, OpenPressureCurveDialog(d)
    PROVE  DriverInv'
<1>1. PICK k, start, q : k = curve' /\ start = Drawn(form, d) /\ q = ControlPoints(start)
  OBVIOUS
<1>2. /\ k = [device |-> d, start |-> start, points |-> Text(q), widget |-> SetControlPoints(q),
              down |-> FALSE]
      /\ curve = Closed /\ UNCHANGED <<tablet, file, driver, profile, form, saved, reset>>
  BY <1>1 DEF OpenPressureCurveDialog, Act, EditOnly, Drawn
<1>3. start \in Curves
  BY <1>1 DEF DriverInv, CurvesMeet
<1>4. /\ q \in DOMAIN Texts /\ Opposite(q) /\ Text(q) \in Drawable
      /\ start # Absent => Text(q) = start
  BY <1>1, <1>3, CurvesRead DEF Absent
<1>5. SetControlPoints(q) \in Points
  BY <1>4, ReadPoints
<1>6. IsDialog(k, form)
  BY <1>1, <1>2, <1>3, <1>4, <1>5 DEF IsDialog
<1>7. CurvesMeet(file[profile], form, driver, k, reset)
  <2>1. CurvesMeet(file[profile], form, driver, Closed, reset)
    BY <1>2 DEF DriverInv
  <2>2. k.device = d /\ k.points = Text(q)
    BY <1>2
  <2> QED BY <1>1, <1>4, <2>1, <2>2, ClosedHasNoTip DEF CurvesMeet
<1> QED BY <1>1, <1>2, <1>6, <1>7 DEF DriverInv, ButtonsSet, HasCurves, DrivesCurves, IsDriver

LEMMA RejectKeepsDriver ==
    ASSUME DriverInv, RejectCurve
    PROVE  DriverInv'
<1>1. IsDialog(curve, form)
  BY DEF DriverInv, RejectCurve
<1>2. PICK dr, d, s : dr = driver' /\ d = curve.device /\ s = curve.start
  OBVIOUS
<1>3. d \in Tips /\ s \in Curves /\ s = Drawn(form, d)
  BY <1>1, <1>2 DEF IsDialog
<1>4. dr = SetCurve(driver, d, s) /\ curve' = Closed
      /\ UNCHANGED <<tablet, file, profile, form, saved, reset>>
  BY <1>2 DEF RejectCurve, EditOnly
<1>5. IsDriver(driver) /\ \A e \in Tips : CurveOf(driver, e) \in Curves
  BY DEF DriverInv, DrivesCurves
<1>6. /\ IsDriver(dr) /\ dr["pad"] = driver["pad"]
      /\ \A e \in Tips : e # d => CurveOf(dr, e) = CurveOf(driver, e)
      /\ s # Absent => CurveOf(dr, d) = s
      /\ s = Absent => dr = driver
  BY <1>3, <1>4, <1>5, SetsOneCurve
<1>7. DrivesCurves(dr)
  BY <1>3, <1>5, <1>6 DEF DrivesCurves
<1>8. CurvesMeet(file[profile], form, dr, Closed, reset)
  BY <1>2, <1>3, <1>6, ClosedHasNoTip DEF DriverInv, CurvesMeet
<1> QED BY <1>2, <1>4, <1>6, <1>7, <1>8 DEF DriverInv, ButtonsSet, HasCurves

LEMMA AcceptKeepsDriver ==
    ASSUME PagesInv, DriverInv, AcceptCurve
    PROVE  DriverInv'
<1>1. IsDialog(curve, form)
  BY DEF DriverInv, AcceptCurve
<1>2. PICK g, d, s : g = form' /\ d = curve.device /\ s = curve.points
  OBVIOUS
<1>3. d \in Tips /\ s \in Drawable /\ curve.start = Drawn(form, d)
  BY <1>1, <1>2 DEF IsDialog
<1>4. s \in Curves /\ s # Absent
  BY <1>3, TextAssumption DEF Drawable, Curves, Absent
<1>5. curve' = Closed /\ UNCHANGED <<tablet, file, driver, profile, saved, reset>>
  BY DEF AcceptCurve, EditOnly
<1>6. Drawn(g, d) = s /\ \A e \in Tips : e # d => Drawn(g, e) = Drawn(form, e)
  <2>1. CASE s = curve.start
    BY <1>2, <1>3, <2>1 DEF AcceptCurve
  <2>2. CASE s # curve.start
    <3>1. g = [form EXCEPT ![<<d, "PressureCurve">>] = s]
      BY <1>2, <2>2 DEF AcceptCurve
    <3>2. g = [w \in Widget |-> IF w = <<d, "PressureCurve">> THEN s ELSE form[w]]
      BY <3>1 DEF PagesInv, Readable
    <3> QED BY <1>3, <3>2, TipNames DEF Drawn
  <2> QED BY <2>1, <2>2
<1>7. CurvesMeet(file[profile], g, driver, Closed, reset)
  BY <1>2, <1>4, <1>6, ClosedHasNoTip DEF DriverInv, CurvesMeet
<1> QED BY <1>2, <1>5, <1>7 DEF DriverInv, ButtonsSet, HasCurves, DrivesCurves, IsDriver

LEMMA DialogKeepsDriver ==
    ASSUME DriverInv,
           \/ \E pos \in MousePoints : MousePress(pos) \/ MouseMove(pos) \/ PenPressed(pos)
           \/ MouseRelease \/ PenLifted
    PROVE  DriverInv'
<1>1. curve # Closed /\ IsDialog(curve, form) /\ InCurveDialog
  BY DEF DriverInv, MousePress, MouseMove, PenPressed, MouseRelease, PenLifted
<1>2. curve.widget \in Points /\ curve.down \in BOOLEAN
  BY <1>1 DEF IsDialog
<1>3. curve = [device |-> curve.device, start |-> curve.start, points |-> curve.points,
               widget |-> curve.widget, down |-> curve.down]
  BY <1>1 DEF IsDialog
<1>4. ASSUME NEW pos \in MousePoints, Drag(pos)
      PROVE  DriverInv'
  BY <1>1, <1>4, DragKeepsDriver
<1>5. ASSUME NEW pos, UNCHANGED driver,
             \E b \in BOOLEAN :
                curve' = [curve EXCEPT !.widget = SetNearestPoint(@, pos), !.down = b]
      PROVE  DriverInv'
  <2>1. PICK w, b : /\ w = SetNearestPoint(curve.widget, pos) /\ b \in BOOLEAN
                    /\ curve' = [curve EXCEPT !.widget = w, !.down = b]
    BY <1>5
  <2>2. w \in Points
    BY <1>2, <2>1, TakenPoints
  <2> QED BY <1>1, <1>5, <2>1, <2>2, HoldingKeepsDriver
<1>6. CASE MouseRelease \/ PenLifted
  <2>1. PICK w, b : w = [curve.widget EXCEPT !.active = 0] /\ b \in BOOLEAN
                    /\ curve' = [curve EXCEPT !.widget = w, !.down = b] /\ UNCHANGED driver
    BY <1>2, <1>3, <1>6 DEF MouseRelease, PenLifted
  <2>2. w \in Points
    BY <1>2, <2>1, TakenPoints
  <2> QED BY <1>1, <2>1, <2>2, HoldingKeepsDriver
<1>7. CASE \E pos \in MousePoints : MousePress(pos)
  <2>1. PICK pos \in MousePoints : MousePress(pos)
    BY <1>7
  <2>2. curve' = [curve EXCEPT !.widget = SetNearestPoint(@, pos), !.down = TRUE]
        /\ UNCHANGED driver
    BY <2>1 DEF MousePress
  <2> QED BY <1>5, <2>2
<1>8. CASE \E pos \in MousePoints : MouseMove(pos)
  BY <1>4, <1>8 DEF MouseMove
<1>9. CASE \E pos \in MousePoints : PenPressed(pos)
  <2>1. PICK pos \in MousePoints : PenPressed(pos)
    BY <1>9
  <2>2. CASE Drag(pos)
    BY <1>4, <2>2
  <2>3. CASE curve' = [curve EXCEPT !.widget = SetNearestPoint(@, pos)] /\ UNCHANGED driver
    <3>1. curve' = [curve EXCEPT !.widget = SetNearestPoint(@, pos), !.down = curve.down]
      BY <1>3, <2>3
    <3> QED BY <1>2, <1>5, <2>3, <3>1
  <2> QED BY <2>1, <2>2, <2>3 DEF PenPressed
<1> QED BY <1>6, <1>7, <1>8, <1>9

LEMMA InitDriver == Init => DriverInv
<1> SUFFICES ASSUME Init PROVE DriverInv
  OBVIOUS
<1>1. PICK c, m, g, dr : /\ c = Presets[profile] /\ m = Mapped(c)
                         /\ g = LoadForm(m) /\ dr = SetProfile(NothingSet, m, tablet)
  OBVIOUS
<1>2. profile \in Profile /\ IsFile(Presets)
  BY PresetsAreFiles DEF Init
<1>3. /\ file = [q \in Profile |-> IF q = profile THEN m ELSE Presets[q]]
      /\ file[profile] = m
  BY <1>1, <1>2 DEF Init, IsFile
<1>4. form = g /\ driver = dr /\ curve = Closed /\ saved = {} /\ reset = FALSE
  BY <1>1, <1>3 DEF Init
<1>5. HasCurves(Presets)
  <2>1. ASSUME NEW p \in Profile, NEW d \in Tips PROVE CurveOf(Presets[p], d) \in Curves
    BY PresetAssumption DEF Tips, CurveOf, Curves, Drawable
  <2> QED BY <2>1 DEF HasCurves
<1>6. IsContents(c) /\ IsContents(m)
  BY <1>1, <1>2, MappedKeeps DEF IsFile
<1>7. \A d \in Tips : CurveOf(m, d) \in Curves /\ Drawn(g, d) = CurveOf(m, d)
  BY <1>1, <1>2, <1>5, <1>6, MappedCurves DEF HasCurves
<1>8. HasCurves(file)
  BY <1>3, <1>5, <1>7 DEF HasCurves
<1>9. DrivesCurves(NothingSet)
  <2>1. IsDriver(NothingSet)
    BY DEF IsDriver, NothingSet
  <2>2. \A d \in Tips : CurveOf(NothingSet, d) = ""
    BY TipNames, ButtonNames DEF CurveOf, NothingSet, DriverKey, Driven, Property
  <2> QED BY <2>1, <2>2 DEF DrivesCurves, Curves
<1>10. DrivesCurves(dr)
  BY <1>1, <1>7, <1>9, ProfileDrivesCurves
<1>11. CurvesMeet(m, g, dr, Closed, FALSE)
  BY <1>1, <1>7, SetsCurve, ClosedHasNoTip DEF CurvesMeet
<1> QED BY <1>3, <1>4, <1>8, <1>10, <1>11 DEF DriverInv

LEMMA DriverStep == IInv /\ PagesInv /\ DriverInv /\ [Next]_vars => DriverInv'
<1> SUFFICES ASSUME IInv, PagesInv, DriverInv, [Next]_vars PROVE DriverInv'
  OBVIOUS
<1>1. ASSUME UNCHANGED <<tablet, file, driver, profile, form, curve, saved, reset>>
      PROVE  DriverInv'
  BY <1>1, OthersKeepDriver
<1>2. CASE \E e \in Edits : Edit(e)
  BY <1>2, EditKeepsDriver
<1>3. CASE \E r \in Rotations : SelectRotation(r)
  BY <1>1, <1>3 DEF SelectRotation, EditTurn, EditOnly
<1>4. CASE OnAutoRotateChanged \/ InvertToggled
  BY <1>1, <1>4 DEF OnAutoRotateChanged, InvertToggled, EditTurn, EditOnly
<1>5. CASE \E d \in {"stylus", "touch"}, s \in Spaces \cup {""} : OnTabletMappingClicked(d, s)
  BY <1>5, MappingKeepsDriver
<1>6. CASE \E d \in {"stylus", "eraser"} : OpenPressureCurveDialog(d)
  BY <1>6, OpenKeepsDriver DEF Tips
<1>7. CASE \/ \E pos \in MousePoints : MousePress(pos) \/ MouseMove(pos) \/ PenPressed(pos)
           \/ MouseRelease \/ PenLifted
  BY <1>7, DialogKeepsDriver
<1>8. CASE AcceptCurve
  BY <1>8, AcceptKeepsDriver
<1>9. CASE RejectCurve
  BY <1>9, RejectKeepsDriver
<1>10. CASE Save
  BY <1>10, SaveKeepsDriver
<1>11. CASE Reset
  BY <1>11, ResetKeepsDriver
<1>12. CASE \E p \in Profile : SelectProfile(p) \/ AddProfile(p)
  BY <1>12, SelectKeepsDriver, AddKeepsDriver
<1>13. CASE UNCHANGED vars
  BY <1>1, <1>13 DEF vars
<1> QED BY <1>2, <1>3, <1>4, <1>5, <1>6, <1>7, <1>8, <1>9, <1>10, <1>11, <1>12, <1>13 DEF Next

\* And so does what is known of the driver, and of the pressure curve dialog.
THEOREM DriverHolds == Spec => [](IInv /\ PagesInv /\ DriverInv)
<1>1. Init => IInv /\ PagesInv /\ DriverInv
  BY InitIInv, InitPages, InitDriver
<1>2. IInv /\ PagesInv /\ DriverInv /\ [Next]_vars => (IInv /\ PagesInv /\ DriverInv)'
  BY InvariantStep, PagesStep, DriverStep
<1> QED BY <1>1, <1>2, PTL DEF Spec

LEMMA DriverShows == IInv /\ PagesInv /\ DriverInv => DriverDoesAsShown
<1> SUFFICES ASSUME IInv, PagesInv, DriverInv PROVE DriverDoesAsShown
  OBVIOUS
<1>1. ButtonsDoAsShown
  <2> SUFFICES ASSUME ~changed, profile \in saved, NEW i \in 1..tablet.buttons, SetLast(tablet, i)
      PROVE  driver["pad"][ButtonMap(tablet, "pad", Buttons[i])] = form[<<"pad", Buttons[i]>>]
    BY DEF ButtonsDoAsShown, DoesAsShown
  <2>1. PICK c, b : c = file[profile] /\ b = Buttons[i]
    OBVIOUS
  <2>2. tablet.buttons \in 0..3
    BY InputAssumption DEF PagesInv, Buttons
  <2>3. i \in 1..3 /\ b \in ToSet(Buttons) /\ Number(b) <= tablet.buttons
    BY <2>1, <2>2, Numbering
  <2>4. IsContents(c) /\ Shows(c, form, tablet)
    BY <2>1 DEF IInv, IsFile, PagesInv
  <2>5. b \in Unturned \ {"ScreenMap"} /\ b \in Shortcuts
    BY <2>3, ButtonNames DEF Unturned, Property, Shortcuts
  <2>6. PICK y : y = SaveForm(c, form, turn, tablet)
    OBVIOUS
  <2>7. y["pad"][b] = c["pad"][b]
    BY <2>4, <2>5, <2>6, DeviceNames DEF Shows
  <2>8. y["pad"][b] = Value(form, "pad", b)
    <3>1. SavedRows(y, c, form, tablet)
      BY <2>4, <2>6, SaveRows
    <3>2. y["pad"][b] = ButtonEntry(form, tablet, b)
      BY <2>5, <3>1 DEF SavedRows
    <3> QED BY <2>3, <3>2, ButtonEntries
  <2>9. driver["pad"][ButtonMap(tablet, "pad", b)] = c["pad"][b]
    BY <2>1 DEF DriverInv, ButtonsSet
  <2> QED BY <2>1, <2>7, <2>8, <2>9 DEF Value
<1>2. CurveIsDriven
  <2> SUFFICES ASSUME NEW d \in Tips
      PROVE  /\ Mirrored(CurveOf(driver, d))
             /\ ~reset /\ CurveOf(file[profile], d) # Absent =>
                   CurveOf(driver, d) = IF curve.device = d THEN curve.points ELSE Drawn(form, d)
    BY DEF CurveIsDriven, Tips, CurveOf, Drawn, Absent
  <2>1. Mirrored(CurveOf(driver, d))
    BY CurvesRead DEF DriverInv, DrivesCurves
  <2>2. CurvesMeet(file[profile], form, driver, curve, reset)
    BY DEF DriverInv
  <2> QED BY <2>1, <2>2 DEF CurvesMeet
<1> QED BY <1>1, <1>2 DEF DriverDoesAsShown

\* The driver does what the pages show: a button of X what is shown for the last button of
\* the tablet mapped to it once that was saved, and the pressure curve while it is drawn, accepted or taken back.
THEOREM DriverDoes == Spec => []DriverDoesAsShown
BY DriverHolds, DriverShows, PTL

LEMMA Types == IInv /\ PagesInv /\ DriverInv => TypeOK
<1> SUFFICES ASSUME IInv, PagesInv, DriverInv PROVE TypeOK
  OBVIOUS
<1>1. DOMAIN form = Widget
  <2>1. form = [w \in Widget |-> form[w]]
    BY DEF PagesInv, Readable
  <2> QED BY ONLY <2>1
<1>2. /\ turn \in Turn /\ profile \in Profile /\ saved \subseteq Profile
      /\ Has(file[profile]) /\ changed \in BOOLEAN /\ reset \in BOOLEAN
  BY DEF IInv, PagesInv
<1>3. \A p \in Profile : DOMAIN file[p] = Device
  <2>1. \A p \in Profile : IsContents(file[p])
    BY DEF IInv, IsFile
  <2> QED BY ONLY <2>1 DEF IsContents
<1>4. \A d \in Device : DOMAIN driver[d] = DriverKey
  <2>1. driver = [d \in Device |-> [x \in DriverKey |-> driver[d][x]]]
    BY DEF DriverInv, DrivesCurves, IsDriver
  <2> QED BY ONLY <2>1
<1>5. curve # Closed => /\ curve.device \in {"stylus", "eraser"}
                        /\ curve.widget.active \in 0..2 /\ curve.down \in BOOLEAN
  <2>1. curve # Closed => curve.device \in Tips /\ curve.widget \in Points /\ curve.down \in BOOLEAN
    BY DEF DriverInv, IsDialog
  <2> QED BY <2>1 DEF Tips, Points
<1> QED BY <1>1, <1>2, <1>3, <1>4, <1>5 DEF TypeOK

\* Form, files, driver and dialog keep their types: the profile selected exists, and the
\* dialog is one of stylus or eraser.
THEOREM Typing == Spec => []TypeOK
BY DriverHolds, Types, PTL
=============================================================================
