---------------------------- MODULE DriverAccess ----------------------------
(***************************************************************************)
(* How two processes reach the driver of one tablet.                       *)
(*                                                                         *)
(*   daemon  --xsetwacom, by name-->  |             |  <--X properties, by *)
(*           --X properties, by id--> |  X devices  |      id-- settings   *)
(*           --X properties, by name->|             |      module          *)
(*                                                                         *)
(* X11TabletFinder reads what the devices are, TabletBackendFactory makes  *)
(* adaptors for them and TabletBackend has these write one property after  *)
(* the other; each write is a request of its own (Apply).  Meanwhile the   *)
(* settings module measures the tablet: it reads the area in the driver,   *)
(* resets it, reads the maximum and writes back what it has read.          *)
(*                                                                         *)
(* External is what the driver makes of a request: it turns the area with  *)
(* the tablet, and may or may not take four times -1 for "all of it".      *)
(***************************************************************************)
EXTENDS Integers, Sequences, SequencesExt

CONSTANTS
    XDev,        \* X devices, see Device
    XID,         \* bound: ids of X devices, 0 is none
    Profiles,    \* profiles, see IsProfile
    Asked,       \* bound: <<tool, property, value>> D-Bus clients ask for
    Position,    \* where each profile is in the rotation list; -1 is nowhere
    Empty,       \* an entry that is not there
    LEDs,        \* status LEDs the database knows of the tablet
    Maximum,     \* the whole tablet: <<0, 0, width, height>>
    Word,        \* bound: values are 32 bit wide, Word stands for 2^32
    MaxPlugs,    \* bound: devices plugged or unplugged
    MaxCalls     \* bound: calls of the daemon and measurements

Types == {"cursor", "eraser", "pad", "stylus", "touch"}
HasXinput == {"stylus", "eraser", "touch"}
XsetwacomProperties == {"Rotate", "Area", "Touch"}
XinputProperties == {"CursorAccelProfile", "InvertScroll", "ScreenSpace"}
Property == XsetwacomProperties \cup XinputProperties
Real == {"none", "half"}     \* bound: the quarter turns swap the axes besides
Automatic == {"auto", "auto-inverted"}   \* neither of the real ones is another one inverted

Switch == {"on", "off"}
Spaces == {"desktop", "speed"}
Areas == Int \X Int \X Int \X Int
Device == [name : STRING, tool : STRING, serial : Int, vendor : Int, has : SUBSET STRING,
           buttons : Nat]

\* What can be in an entry that is there.  Rotations and numbers are looked at later.
IsValue(p, v) ==
    /\ v # Empty
    /\ p = "Rotate" => v \notin {"cw", "ccw"}
    /\ p = "Area" => v \in Areas
    /\ p \in {"Touch", "InvertScroll"} => v \in Switch
    /\ p = "ScreenSpace" => v \in Spaces
    /\ p = "CursorAccelProfile" => (v \in Int => v \in 0..(Word - 1))

\* What a profile holds for the tools that have these properties.  Areas and spaces are
\* always there, mapping writes them.  The pages turn all tools with the stylus
\* (TouchTurnsWithPage of SettingsPages).
IsProfile(prof) ==
    /\ DOMAIN prof = HasXinput
    /\ \A t \in HasXinput :
          /\ DOMAIN prof[t] = Property
          /\ \A p \in Property : prof[t][p] = Empty \/ IsValue(p, prof[t][p])
          /\ prof[t].Area # Empty /\ prof[t].ScreenSpace # Empty
          /\ prof["stylus"].Rotate \in Automatic => prof[t].Rotate \in Automatic \cup {Empty}

ASSUME DeviceAssumption == XDev \subseteq Device /\ XID \subseteq Nat \ {0}
ASSUME ProfileAssumption ==
    /\ Empty \notin Switch \cup Real \cup Automatic
    /\ \A prof \in Profiles : IsProfile(prof) /\ Position[prof] \in Int
ASSUME AskedAssumption ==
    \A a \in Asked : /\ a \in Types \X Property \X {a[3]}
                    /\ IsValue(a[2], a[3])
ASSUME NumberAssumption ==
    /\ Word \in Nat /\ Word > 1
    /\ Maximum \in {0} \X {0} \X (Nat \ {0}) \X (Nat \ {0})
    /\ LEDs \in Nat /\ MaxPlugs \in Nat /\ MaxCalls \in Nat

NoDev == [name |-> "", tool |-> "", serial |-> 0, vendor |-> 0, has |-> {}, buttons |-> 0]
NoBackend == [devs |-> <<>>, handles |-> <<>>]
Reset == <<-1, -1, -1, -1>>
Idle == [step |-> "idle", id |-> 0, previous |-> Maximum, read |-> Maximum, alone |-> TRUE]
Unknown == [x |-> 0, y |-> 0, width |-> 0, height |-> 0]

VARIABLES
    list,       \* what XListInputDevices returns: [id, dev]
    driver,     \* what the driver has under each id
    backend,    \* the tablet the daemon controls, with the ids its handles are open on
    profile,    \* the profile in effect, as it is saved
    todo,       \* writes the daemon has still to make
    screen,     \* how the screen is turned
    led,        \* the LED selected in either group of the tablet
    kcm,        \* the measurement under way in the settings module
    measured,   \* the last one
    wanted,     \* history: what has been asked of every tool of the tablet
    crossed,    \* history: ids whose area both processes wrote at one time
    gone,       \* a device of the tablet is gone, the daemon has not served that yet
    plugs, calls

xVars == <<list, gone, plugs>>
daemonVars == <<backend, profile, todo, screen, led, wanted, calls>>
kcmVars == <<kcm, measured>>
vars == <<list, driver, backend, profile, todo, screen, led, kcm, measured, wanted,
          crossed, gone, plugs, calls>>

-----------------------------------------------------------------------------
\* X11InputDevice: values of 32 bits in a long, and a long cut to 32 bits.

AsLong(v) == v % Word
AsInt(v) == IF AsLong(v) >= Word \div 2 THEN AsLong(v) - Word ELSE AsLong(v)

Ids == {list[i].id : i \in DOMAIN list}
At(id) == IF id \in Ids THEN (CHOOSE e \in ToSet(list) : e.id = id).dev ELSE NoDev

Closed == 0

\* findDevice opens the first device of the name.
FindDevice(name) ==
    LET at == {i \in DOMAIN list : list[i].dev.name = name}
    IN  IF name = "" \/ at = {} THEN Closed
        ELSE list[CHOOSE i \in at : \A j \in at : i <= j].id

\* hasProperty, of a device that is open.
HasProperty(id, p) == id # Closed /\ p \in At(id).has

\* Property, type and format are looked at before every read and before every write.
Readable(id, p) == HasProperty(id, p)
Writable(id, p) == HasProperty(id, p)

\* getDeviceButtonMapping is empty for a device that is not open or has no buttons.
ButtonCount(id) == IF id = Closed THEN 0 ELSE At(id).buttons

\* setLongProperty and setFloatProperty: no value, or one that is no number, is refused.
IsNumber(v) == v \in Int

-----------------------------------------------------------------------------
\* X11TabletFinder: what the devices are.

IsTabletDevice(id) == HasProperty(id, "Wacom Tool Type")
ToolTypes == [PAD |-> "pad", ERASER |-> "eraser", CURSOR |-> "cursor", TOUCH |-> "touch",
              STYLUS |-> "stylus"]
IsKnown(dev) == dev.name # "" /\ dev.tool \in DOMAIN ToolTypes
VendorOf(id) ==
    IF HasProperty(id, "Device Product ID") /\ At(id).vendor > 0 THEN At(id).vendor ELSE 0
SerialOf(id) == IF HasProperty(id, "Wacom Serial IDs") THEN AsLong(At(id).serial) ELSE 0
DeviceInfo(id) ==
    [id |-> id, name |-> At(id).name, serial |-> SerialOf(id), vendor |-> VendorOf(id)]

\* One record for all devices of a serial number, made by the first of them; of two
\* devices of one type the later stays.
Visited == {i \in DOMAIN list : IsTabletDevice(list[i].id) /\ IsKnown(list[i].dev)}
OfSerial(serial) == {i \in Visited : SerialOf(list[i].id) = serial}
ToolAt(i) == ToolTypes[list[i].dev.tool]
LastOf(serial, tool) ==
    CHOOSE i \in OfSerial(serial) :
        ToolAt(i) = tool /\ \A j \in OfSerial(serial) : ToolAt(j) = tool => j <= i
FirstOf(serial) == CHOOSE i \in OfSerial(serial) : \A j \in OfSerial(serial) : i <= j

Scan ==
    [serial \in {SerialOf(list[i].id) : i \in Visited} |->
        [company |-> VendorOf(list[FirstOf(serial)].id),
         devs |-> [tool \in {ToolAt(i) : i \in OfSerial(serial)} |->
                      DeviceInfo(list[LastOf(serial, tool)].id)]]]

-----------------------------------------------------------------------------
\* The tablet under control.

\* ScreenRotation::find; setRotation takes a text that is not found for no rotation ...
RotationOf(v) == IF v \in Real \cup Automatic THEN v ELSE "none"

\* Mutant of IsReal: every rotation a profile may have.
IsAny(v) == v # Empty

\* ... and refuses the automatic ones.
IsReal(v) == RotationOf(v) \in Real

NameOf(tool) == IF tool \in DOMAIN backend.devs THEN backend.devs[tool].name ELSE ""
HandleOf(tool) == IF tool \in DOMAIN backend.handles THEN backend.handles[tool] ELSE 0
\* createInstance: adaptors for the tools the tablet has, with a handle on the
\* device that bears the name now.
CreateBackend(devs) ==
    [devs |-> devs,
     handles |-> [t \in DOMAIN devs \cap HasXinput |-> FindDevice(devs[t].name)]]

\* External: the driver turns the area with the tablet.
Turned(a, from, to) ==
    IF from = to THEN a
    ELSE <<Maximum[3] - a[3], Maximum[4] - a[4], Maximum[3] - a[1], Maximum[4] - a[2]>>

\* TabletArea: an area without extent stands for the whole tablet.
IsEmptyArea(a) == a[3] <= a[1] \/ a[4] <= a[2]

\* setArea: what is empty is written as ResetArea.
SetArea(a) == IF IsEmptyArea(a) THEN Maximum ELSE a

\* setParameter: xsetwacom finds the device by its name ...
ByXsetwacom(tool, p, v) ==
    LET id == FindDevice(NameOf(tool))
    IN  IF HasProperty(id, p) /\ (p = "Rotate" => IsReal(v)) THEN id ELSE Closed

\* ... and so do setScrollDirection, which needs five buttons, ...
ScrollDevice(tool) ==
    LET id == FindDevice(NameOf(tool)) IN IF ButtonCount(id) >= 5 THEN id ELSE Closed

\* ... and setCoordinateTransformationMatrix; the rest goes through the handle.
MatrixDevice(tool) ==
    LET id == FindDevice(NameOf(tool)) IN IF Writable(id, "ScreenSpace") THEN id ELSE Closed

ByXinput(tool, p, v) ==
    CASE HandleOf(tool) = Closed -> Closed
      [] HandleOf(tool) # Closed /\ p = "InvertScroll" -> ScrollDevice(tool)
      [] HandleOf(tool) # Closed /\ p = "ScreenSpace" -> MatrixDevice(tool)
      [] OTHER -> IF IsNumber(v) /\ Writable(HandleOf(tool), p) THEN HandleOf(tool) ELSE Closed

\* Where a write of the adaptors ends; Closed if it is refused.
Target(w) ==
    IF w.prop \in XsetwacomProperties THEN ByXsetwacom(w.tool, w.prop, w.value)
    ELSE ByXinput(w.tool, w.prop, w.value)

\* What the driver has after it.
Written(d, w) ==
    CASE w.prop = "Rotate" -> [d EXCEPT !.Rotate = RotationOf(w.value),
                                        !.Area = Turned(@, d.Rotate, RotationOf(w.value))]
      [] w.prop = "Area" -> [d EXCEPT !.Area = SetArea(w.value)]
      [] OTHER -> [d EXCEPT ![w.prop] = w.value]

\* What the adaptors read.  Reading the matrix is not implemented.
ReadByXsetwacom(tool, p) ==
    LET id == FindDevice(NameOf(tool)) IN IF HasProperty(id, p) THEN driver[id][p] ELSE Empty

IsScrollDirectionInverted(tool) ==
    ScrollDevice(tool) # Closed /\ driver[ScrollDevice(tool)].InvertScroll = "on"

ReadByXinput(tool, p) ==
    LET id == HandleOf(tool)
    IN  CASE id = Closed -> Empty
          [] id # Closed /\ p = "InvertScroll" ->
                 IF IsScrollDirectionInverted(tool) THEN "on" ELSE "off"
          [] id # Closed /\ p = "CursorAccelProfile" ->
                 IF Readable(id, p) THEN AsLong(driver[id][p]) ELSE Empty
          [] OTHER -> Empty

GetProperty(tool, p) ==
    IF p \in XsetwacomProperties THEN ReadByXsetwacom(tool, p) ELSE ReadByXinput(tool, p)

-----------------------------------------------------------------------------
\* What the daemon writes to the tools of a tablet, and in which order.

W(tool, p, v) == [tool |-> tool, prop |-> p, value |-> v]

\* An entry that is not empty is written.
EntryWrite(tool, entry, p) == IF entry[p] = Empty THEN <<>> ELSE <<W(tool, p, entry[p])>>

\* Mutant of XsetwacomWrites: the list of xsetwacom has Area before Rotate.
AreaBeforeRotation(tool, entry) ==
    EntryWrite(tool, entry, "Area") \o EntryWrite(tool, entry, "Rotate")
    \o EntryWrite(tool, entry, "Touch")

\* TabletBackend::setProfile of a tool: in the order in which either adaptor lists its
\* properties.
XsetwacomWrites(tool, entry) ==
    EntryWrite(tool, entry, "Rotate") \o EntryWrite(tool, entry, "Area")
    \o EntryWrite(tool, entry, "Touch")

XinputWrites(tool, entry) ==
    EntryWrite(tool, entry, "CursorAccelProfile") \o EntryWrite(tool, entry, "InvertScroll")
    \o EntryWrite(tool, entry, "ScreenSpace")

ToolWrites(devs, prof, tool) ==
    IF tool \in DOMAIN devs \cap DOMAIN prof
    THEN XsetwacomWrites(tool, prof[tool]) \o XinputWrites(tool, prof[tool])
    ELSE <<>>

\* TabletBackend::setProfile: tool by tool.
BackendWrites(devs, prof) ==
    ToolWrites(devs, prof, "cursor") \o ToolWrites(devs, prof, "eraser")
    \o ToolWrites(devs, prof, "pad") \o ToolWrites(devs, prof, "stylus")
    \o ToolWrites(devs, prof, "touch")

\* autoRotateTablet, for the one screen there is.
FollowsScreen(prof) == prof["stylus"].Rotate \in Automatic
RotationWrites(devs, prof, turn) ==
    IF ~FollowsScreen(prof) THEN <<>>
    ELSE <<W("stylus", "Rotate", turn), W("eraser", "Rotate", turn)>>
         \o (IF "touch" \in DOMAIN devs THEN <<W("touch", "Rotate", turn)>> ELSE <<>>)

\* mapTabletToCurrentScreenSpace: the eraser has the space of the stylus ...
Mapped(prof) == [prof EXCEPT !["eraser"].ScreenSpace = prof["stylus"].ScreenSpace]

\* ... and each tool the area that belongs to its space.
MapTool(devs, prof, tool) ==
    IF tool \in DOMAIN devs
    THEN <<W(tool, "ScreenSpace", prof[tool].ScreenSpace), W(tool, "Area", prof[tool].Area)>>
    ELSE <<>>
MapWrites(devs, prof) ==
    MapTool(devs, prof, "stylus") \o MapTool(devs, prof, "eraser")
    \o MapTool(devs, prof, "touch")

-----------------------------------------------------------------------------
\* What has been asked of the driver, and can be had.

Possible(tool, dev, p, v) ==
    /\ v # Empty
    /\ p \in XinputProperties => tool \in HasXinput
    /\ IF p = "InvertScroll" THEN dev.buttons >= 5 ELSE p \in dev.has
    /\ p = "Rotate" => IsReal(v)
    /\ p = "CursorAccelProfile" => IsNumber(v)

\* What is to be had of a value: "none" of a rotation that is not known.
Taken(p, v) == IF p = "Rotate" THEN RotationOf(v) ELSE v

\* What a tool should have after all of it is done: the area that was asked for, on the
\* tablet as it is turned now, or the one it had, turned with the tablet.
After(tool, had, dev, entry) ==
    LET Has(p) == p \in DOMAIN entry /\ Possible(tool, dev, p, entry[p])
        new == [p \in Property |-> IF Has(p) THEN Taken(p, entry[p]) ELSE had[p]]
    IN  [new EXCEPT !.Area = IF Has("Area") THEN SetArea(@)
                             ELSE Turned(@, had.Rotate, new.Rotate)]

\* What a profile asks for on a screen that is turned so, a screen that turns, and a
\* property that is set.
ProfileEntry(prof, t, turn) ==
    IF FollowsScreen(prof) THEN [prof[t] EXCEPT !.Rotate = turn] ELSE prof[t]
RotationEntry(prof, t, turn) ==
    [p \in {"ScreenSpace", "Area"} \cup (IF FollowsScreen(prof) THEN {"Rotate"} ELSE {}) |->
        IF p = "Rotate" THEN turn ELSE prof[t][p]]
PropertyEntry(p, v) == [q \in {p} |-> v]

AfterProfile(devs, had, prof, turn) ==
    [t \in DOMAIN devs |->
        IF t \notin DOMAIN prof THEN had[t]
        ELSE After(t, had[t], At(devs[t].id), ProfileEntry(prof, t, turn))]
AfterRotation(devs, had, prof, turn) ==
    [t \in DOMAIN devs |->
        IF t \notin DOMAIN prof THEN had[t]
        ELSE After(t, had[t], At(devs[t].id), RotationEntry(prof, t, turn))]

\* What the driver has when a measurement under way is done.
Held(id) == IF kcm.id = id THEN [driver[id] EXCEPT !.Area = kcm.previous] ELSE driver[id]

-----------------------------------------------------------------------------
\* X server and user: devices come and go, ids are handed out again.

Fresh == [Rotate |-> "none", Area |-> Maximum, Touch |-> "on", CursorAccelProfile |-> 0,
          InvertScroll |-> "off", ScreenSpace |-> "desktop"]

Tools == DOMAIN backend.devs

Plug(id, d) ==
    /\ plugs < MaxPlugs
    /\ id \notin Ids
    /\ \A e \in ToSet(list) : e.dev.name # d.name
    /\ list' = Append(list, [id |-> id, dev |-> d])
    /\ driver' = [driver EXCEPT ![id] = Fresh]
    /\ crossed' = IF kcm.id = id THEN crossed \cup {id} ELSE crossed \ {id}
    /\ kcm' = [kcm EXCEPT !.alone = @ /\ kcm.id # id]
    /\ plugs' = plugs + 1
    /\ UNCHANGED <<daemonVars, measured, gone>>

Unplug(i) ==
    /\ plugs < MaxPlugs
    /\ list' = RemoveAt(list, i)
    /\ gone' = (gone \/ \E t \in Tools : backend.devs[t].id = list[i].id)
    /\ kcm' = [kcm EXCEPT !.alone = @ /\ kcm.id # list[i].id]
    /\ plugs' = plugs + 1
    /\ UNCHANGED <<driver, daemonVars, measured, crossed>>

-----------------------------------------------------------------------------
\* The daemon: one slot runs at a time, and makes its writes one by one.

Slot == todo = <<>> /\ calls < MaxCalls /\ calls' = calls + 1

\* setStatusLED with the position in the rotation list: four LEDs on either side, and
\* -1 for a profile that is not in the list.
SetStatusLED(pos) ==
    led' = IF LEDs = 0 \/ pos \notin 0..7 THEN led ELSE [led EXCEPT ![pos \div 4] = pos % 4]

\* setProfile of the handler.
SetProfile(devs, had, prof) ==
    /\ profile' = Mapped(prof)
    /\ todo' = RotationWrites(devs, prof, screen) \o MapWrites(devs, Mapped(prof))
               \o BackendWrites(devs, Mapped(prof))
    /\ wanted' = AfterProfile(devs, had, Mapped(prof), screen)
    /\ SetStatusLED(Position[prof])

\* onTabletAdded, with a record of the scan.
TabletAdded(serial, prof) ==
    /\ Slot
    /\ backend = NoBackend
    /\ serial \in DOMAIN Scan
    /\ LET devs == Scan[serial].devs
       IN  /\ backend' = CreateBackend(devs)
           /\ SetProfile(devs, [t \in DOMAIN devs |-> Held(devs[t].id)], prof)
    /\ gone' = FALSE
    /\ UNCHANGED <<list, driver, screen, kcmVars, crossed, plugs>>

ProfileSelected(prof) ==
    /\ Slot
    /\ backend # NoBackend
    /\ SetProfile(backend.devs, wanted, prof)
    /\ UNCHANGED <<xVars, driver, backend, screen, kcmVars, crossed>>

\* onTabletRemoved.
TabletRemoved ==
    /\ todo = <<>>
    /\ gone
    /\ backend' = NoBackend
    /\ gone' = FALSE
    /\ UNCHANGED <<list, driver, profile, todo, screen, led, wanted, calls, kcmVars, crossed, plugs>>

\* onScreenRotated: the mapping is applied again when the tablet has turned.
ScreenRotated(turn) ==
    /\ Slot
    /\ turn # screen
    /\ backend # NoBackend
    /\ screen' = turn
    /\ todo' = RotationWrites(backend.devs, profile, turn) \o MapWrites(backend.devs, profile)
    /\ wanted' = AfterRotation(backend.devs, wanted, profile, turn)
    /\ UNCHANGED <<xVars, driver, backend, profile, led, kcmVars, crossed>>

\* setProperty over D-Bus.
SetProperty(tool, p, v) ==
    /\ Slot
    /\ tool \in Tools
    /\ todo' = <<W(tool, p, v)>>
    /\ wanted' = [wanted EXCEPT ![tool] = After(tool, @, At(backend.devs[tool].id), PropertyEntry(p, v))]
    /\ UNCHANGED <<xVars, driver, backend, profile, screen, led, kcmVars, crossed>>

\* onToggleTouch turns round what the driver has, and saves it.
Toggled == IF GetProperty("touch", "Touch") = "off" THEN "on" ELSE "off"

OnToggleTouch ==
    /\ Slot
    /\ "touch" \in Tools
    /\ todo' = <<W("touch", "Touch", Toggled)>>
    /\ profile' = [profile EXCEPT !["touch"].Touch = Toggled]
    /\ wanted' = [wanted EXCEPT !["touch"] =
                      After("touch", @, At(backend.devs["touch"].id),
                            PropertyEntry("Touch", IF @.Touch = "off" THEN "on" ELSE "off"))]
    /\ UNCHANGED <<xVars, driver, backend, screen, led, kcmVars, crossed>>

\* The next write; one that is refused changes nothing, and nobody asks.
Apply ==
    /\ todo # <<>>
    /\ LET w == Head(todo)
           id == Target(w)
           clash == id # 0 /\ id = kcm.id /\ w.prop \in {"Rotate", "Area"}
       IN  /\ driver' = IF id = 0 THEN driver ELSE [driver EXCEPT ![id] = Written(@, w)]
           /\ kcm' = [kcm EXCEPT !.alone = @ /\ ~clash]
           /\ crossed' = IF clash THEN crossed \cup {id}
                         ELSE IF w.prop = "Area" THEN crossed \ {id} ELSE crossed
    /\ todo' = Tail(todo)
    /\ UNCHANGED <<xVars, backend, profile, screen, led, wanted, calls, measured>>

-----------------------------------------------------------------------------
\* The settings module: X11Wacom::getMaximumTabletArea, request by request.

Returns(area) ==
    /\ kcm' = Idle
    /\ measured' = [area |-> area, alone |-> kcm.alone]

\* Find the device and read what it has.
MeasureStart(name) ==
    /\ kcm.step = "idle"
    /\ calls < MaxCalls
    /\ calls' = calls + 1
    /\ LET id == FindDevice(name)
       IN  IF Readable(id, "Area")
           THEN /\ kcm' = [Idle EXCEPT !.step = "reset", !.id = id, !.previous = driver[id].Area]
                /\ UNCHANGED measured
           ELSE Returns(Unknown)
    /\ UNCHANGED <<xVars, driver, backend, profile, todo, screen, led, wanted, crossed>>

\* External: the driver takes the reset, or the four values as they are.
MeasureReset(taken) ==
    /\ kcm.step = "reset"
    /\ IF Writable(kcm.id, "Area")
       THEN /\ driver' = [driver EXCEPT ![kcm.id].Area = IF taken THEN Maximum ELSE Reset]
            /\ kcm' = [kcm EXCEPT !.step = "read"]
            /\ UNCHANGED measured
       ELSE Returns(Unknown) /\ UNCHANGED driver
    /\ UNCHANGED <<xVars, daemonVars, crossed>>

MeasureRead ==
    /\ kcm.step = "read"
    /\ kcm' = [kcm EXCEPT !.step = "restore",
                          !.read = IF Readable(kcm.id, "Area") THEN driver[kcm.id].Area ELSE <<>>]
    /\ UNCHANGED <<xVars, driver, daemonVars, measured, crossed>>

\* Mutant of AsRead: the far corner for the extent.
CornersAsRead(a) ==
    [x |-> AsInt(AsLong(a[1])), y |-> AsInt(AsLong(a[2])),
     width |-> AsLong(a[3]), height |-> AsLong(a[4])]

\* A rectangle of int values made of the long values read.
AsRead(a) ==
    [x |-> AsInt(AsLong(a[1])), y |-> AsInt(AsLong(a[2])),
     width |-> AsLong(a[3]) - AsLong(a[1]), height |-> AsLong(a[4]) - AsLong(a[2])]

\* The area is written back.
Restored == kcm.previous

MeasureRestore ==
    /\ kcm.step = "restore"
    /\ driver' = IF Writable(kcm.id, "Area") THEN [driver EXCEPT ![kcm.id].Area = Restored]
                 ELSE driver
    /\ Returns(IF kcm.read = <<>> THEN Unknown ELSE AsRead(kcm.read))
    /\ UNCHANGED <<xVars, daemonVars, crossed>>

-----------------------------------------------------------------------------
Init ==
    /\ list = <<>>
    /\ driver = [id \in XID |-> Fresh]
    /\ backend = NoBackend
    /\ profile \in Profiles
    /\ todo = <<>>
    /\ screen = "none"
    /\ led = [side \in 0..1 |-> 0]
    /\ kcm = Idle
    /\ measured = [area |-> Unknown, alone |-> TRUE]
    /\ wanted = <<>>
    /\ crossed = {}
    /\ gone = FALSE
    /\ plugs = 0
    /\ calls = 0

XServer ==
    \/ \E id \in XID, d \in XDev : Plug(id, d)
    \/ \E i \in DOMAIN list : Unplug(i)

Daemon ==
    \/ \E serial \in DOMAIN Scan, prof \in Profiles : TabletAdded(serial, prof)
    \/ \E prof \in Profiles : ProfileSelected(prof)
    \/ TabletRemoved
    \/ \E turn \in Real : ScreenRotated(turn)
    \/ \E a \in Asked : SetProperty(a[1], a[2], a[3])
    \/ OnToggleTouch
    \/ Apply

SettingsModule ==
    \/ \E d \in XDev : MeasureStart(d.name)
    \/ \E taken \in BOOLEAN : MeasureReset(taken)
    \/ MeasureRead
    \/ MeasureRestore

Next == XServer \/ Daemon \/ SettingsModule

Spec == Init /\ [][Next]_vars

-----------------------------------------------------------------------------
Value(p) ==
    CASE p = "Rotate" -> Real
      [] p = "Area" -> Areas
      [] p \in {"Touch", "InvertScroll"} -> Switch
      [] p = "CursorAccelProfile" -> Int
      [] OTHER -> Spaces

\* Only values that mean something reach the driver, whatever profiles and clients
\* hold; the handles are open on devices that had the name when they were opened.
TypeOK ==
    /\ \A id \in XID, p \in Property : driver[id][p] \in Value(p)
    /\ backend # NoBackend =>
          /\ Tools \subseteq Types
          /\ \A t \in Tools : backend.devs[t].id \in XID
          /\ \A t \in Tools \cap HasXinput : backend.handles[t] \in XID
    /\ \A i \in DOMAIN todo : todo[i].prop \in Property
    /\ crossed \subseteq XID
    /\ \A side \in 0..1 : led[side] \in 0..3

\* When the daemon has made its writes every tool of the tablet has what profile and
\* clients asked of it last, with the area laid on the tablet as it is turned, and
\* reading it through the adaptors finds that.  Exempt is an area both processes
\* wrote at one time.
TabletDoesAsAsked ==
    (todo = <<>> /\ backend # NoBackend /\ ~gone) =>
        \A t \in Tools, p \in Property :
            LET id == backend.devs[t].id
            IN  (p = "Area" => id # kcm.id /\ id \notin crossed) =>
                    /\ driver[id][p] = wanted[t][p]
                    /\ (p # "ScreenSpace" /\ Possible(t, At(id), p, wanted[t][p])) =>
                           GetProperty(t, p) = driver[id][p]

\* The settings module takes nothing for the maximum but the whole tablet: either it
\* learns that or that it knows nothing.
MeasuresWhole ==
    measured.alone =>
        \/ measured.area.width <= 0 /\ measured.area.height <= 0
        \/ measured.area = AsRead(Maximum)
=============================================================================
