---------------------------- MODULE TabletLookup ----------------------------
(***************************************************************************)
(* What the daemon knows of a tablet, and the program with which the user  *)
(* tells it more.                                                          *)
(*                                                                         *)
(*   tabletdblocalrc --+                                                   *)
(*   wacom_devicelist -+--> TabletInformation --> the daemon               *)
(*   libwacom ---------+                     \--> dialog of the finder     *)
(*                                                       | save            *)
(*                                                       v                 *)
(*                                                tabletdblocalrc          *)
(*                                                                         *)
(* The finder (kde_wacomtablet_finder) shows one tablet of its list at a   *)
(* time; its widgets tell it of every change, also of those it makes when  *)
(* another tablet is selected.  How tablets come and go is TabletHotplug's;*)
(* here one is looked up each time it is plugged in.                       *)
(***************************************************************************)
EXTENDS Naturals, Sequences, SequencesExt, FiniteSets

CONSTANTS
    Serial,      \* tablets, numbered in the order of their serial numbers as text
    HasLetter,   \* those with a letter in their number, written in hexadecimal
    DeviceList,  \* wacom_devicelist: a group for some tablets
    LibWacom,    \* what libwacom has of some tablets
    Starts,      \* bound: what is plugged in when the finder is started
    XButtons,    \* X buttons that buttons of a tablet send
    ButtonNumbers, \* bound: numbers of buttons the user enters
    MaxActs      \* bound: what is plugged, unplugged and done in the finder

\* A product number in text: "upper" has four digits and capitals, "lower" four digits,
\* "short" leaves out leading zeros.
NoText == [tablet |-> 0, form |-> "upper"]
Text(t, form) == [tablet |-> t, form |-> IF form = "lower" /\ t \notin HasLetter THEN "upper"
                                         ELSE form]
AnyText == [tablet : Serial \cup {0}, form : {"upper", "lower", "short"}]

Parts == {"left", "right", "ring", "wheel"}  \* touch strips, ring and wheel
Leds == {"leds left", "leds right"}
Kinds == {"normal", "parent", "sensor"}
Codes == Nat                                 \* evdev codes

AsBool(v) == v \in {"1", "true", "on", "yes"}
Words == {"1", "true", "on", "yes", "false", "no", ""}  \* "" for any other

Group == [buttons : Nat, map : Seq(Nat), parts : [Parts -> Words], leds : Nat,
          sensor : AnyText, isSensor : Words]

ASSUME DataAssumption ==
    /\ Serial \subseteq Nat \ {0} /\ IsFiniteSet(Serial) /\ HasLetter \subseteq Serial
    /\ Starts \subseteq SUBSET Serial
    /\ DOMAIN DeviceList \subseteq Serial /\ DOMAIN LibWacom \subseteq Serial
    /\ \A t \in DOMAIN DeviceList : DeviceList[t] \in Group
    /\ \A t \in DOMAIN LibWacom :
          LibWacom[t] \in [codes : Seq(Codes), leds : Nat, parts : SUBSET (Parts \ {"wheel"}),
                           paired : Serial \cup {0}]
    /\ XButtons \subseteq Nat \ {0, 4, 5, 6, 7} /\ ButtonNumbers \subseteq Nat /\ MaxActs \in Nat

\* No group of the device lists has a touch sensor and is one.
ASSUME DeviceListAssumption ==
    \A t \in DOMAIN DeviceList :
        ~(DeviceList[t].sensor # NoText /\ AsBool(DeviceList[t].isSensor))

\* BTN_0 to BTN_9, those from BTN_BASE and those from BTN_A; those of a mouse.
KeyCodes == 256..265 \cup 294..303 \cup 304..309
MouseCodes == 272..293

\* libwacom gives no code twice, and numbers a pad by keys or as a mouse.
ASSUME CodesAssumption ==
    \A t \in DOMAIN LibWacom :
        LET codes == LibWacom[t].codes
        IN  /\ IsInjective(codes)
            /\ Range(codes) \subseteq KeyCodes \/ Range(codes) \subseteq MouseCodes

VARIABLES
    connected,  \* tablets
    known,      \* tablets the daemon controls, with what it found out
    local,      \* tabletdblocalrc: groups by tablet
    list,       \* m_tabletList
    index,      \* of the tablet that is selected; 0 if there is none
    widgets,    \* what the widgets show
    mapping,    \* HWButtonDialog, while it is open
    acts        \* what MaxActs counts

lookupVars == <<connected, known, local, list, index, widgets, mapping, acts>>

Information == [buttons : Nat, map : Seq(Nat), parts : SUBSET Parts, leds : Nat,
         sensor : AnyText, isSensor : BOOLEAN]
Entry == [tablet : Serial, buttons : Nat, map : Seq(Nat), parts : SUBSET (Parts \cup Leds),
          paired : AnyText, hasPaired : BOOLEAN, isSensor : BOOLEAN]
Widgets == [parts : SUBSET (Parts \cup Leds), buttons : Nat, kind : Kinds,
            combo : Nat, comboEnabled : BOOLEAN]
NotMapping == [max |-> 0, got |-> <<>>]

-----------------------------------------------------------------------------
(* The databases. *)

GetInformation(g) ==
    [buttons |-> g.buttons, map |-> g.map, parts |-> {p \in Parts : AsBool(g.parts[p])},
     leds |-> g.leds, sensor |-> g.sensor, isSensor |-> AsBool(g.isSensor)]

InDatabase(db, t) == t \in DOMAIN db \cup DOMAIN DeviceList

\* The local database comes first.
LookupTablet(db, t) == GetInformation(IF t \in DOMAIN db THEN db[t] ELSE DeviceList[t])

SkipWheelButtons(b) == IF b > 3 THEN b + 4 ELSE b

ConvertMouseEvdev(code) ==
    CASE code = 272 -> 1 [] code = 273 -> 3 [] code = 274 -> 2
      [] code = 277 -> 9 [] code = 278 -> 8 [] OTHER -> 0

\* BTN_MISC is 256, BTN_MOUSE 272, BTN_BASE 294, BTN_GAMEPAD 304.
ConvertEvdev(code) ==
    CASE code >= 304 -> SkipWheelButtons(code - 304 + 11)
      [] code >= 294 /\ code < 304 -> SkipWheelButtons(code - 294 + 17)
      [] code >= 272 /\ code < 294 -> ConvertMouseEvdev(code)
      [] code >= 256 /\ code < 272 -> SkipWheelButtons(code - 256 + 1)
      [] OTHER -> 0

\* lookupTabletInfo: a code that is not known ends it half-way; what was set is kept.
LookupTabletInfo(t) ==
    LET device == LibWacom[t]
        numbers == [i \in DOMAIN device.codes |-> ConvertEvdev(device.codes[i])]
        begun == [buttons |-> Len(numbers), map |-> <<>>, parts |-> {}, leds |-> device.leds,
                  sensor |-> NoText, isSensor |-> FALSE]
    IN  IF \E i \in DOMAIN numbers : numbers[i] < 1 THEN begun
        ELSE [begun EXCEPT !.map = numbers, !.parts = device.parts,
                           !.sensor = IF device.paired = 0 THEN NoText
                                      ELSE Text(device.paired, "short")]

\* A tablet that is in none of them has no name and is ignored.
Identified(db, t) == InDatabase(db, t) \/ t \in DOMAIN LibWacom

LookupInformation(db, t) == IF InDatabase(db, t) THEN LookupTablet(db, t) ELSE LookupTabletInfo(t)

-----------------------------------------------------------------------------
(* The list of the finder.  It asks the databases and not libwacom. *)

NewEntry(t) ==
    [tablet |-> t, buttons |-> 0, map |-> <<>>, parts |-> {}, paired |-> NoText,
     hasPaired |-> FALSE, isSensor |-> FALSE]

\* Buttons without an entry are mapped to themselves.
HwMapping(info) ==
    [i \in 1..info.buttons |-> IF i \in DOMAIN info.map THEN info.map[i] ELSE i]

LoadEntry(db, t) ==
    IF ~InDatabase(db, t) THEN NewEntry(t)
    ELSE LET info == LookupTablet(db, t)
         IN  [tablet |-> t, buttons |-> info.buttons, map |-> HwMapping(info),
              parts |-> info.parts \cup (IF info.leds > 4 THEN {"leds left"} ELSE {})
                                   \cup (IF info.leds > 0 THEN {"leds right"} ELSE {}),
              paired |-> info.sensor, hasPaired |-> info.sensor # NoText,
              isSensor |-> info.isSensor]

KindOf(e) == CASE e.hasPaired -> "parent" [] e.isSensor -> "sensor" [] OTHER -> "normal"

\* onNormalTabletSet, onParentTabletSet, onTouchSensorSet
WithKind(e, k) == [e EXCEPT !.isSensor = (k = "sensor"), !.hasPaired = (k = "parent")]

\* A radio button that is checked tells of it, if it was not before.
Check(p, k, condition) ==
    IF condition /\ p.kind # k THEN [entry |-> WithKind(p.entry, k), kind |-> k] ELSE p

\* onPairedIdChanged
PairWith(l, e, j) == [e EXCEPT !.paired = Text(l[j].tablet, "lower")]

\* The place of the sensor in the list, if it is there.
Place(l, e, otherwise) ==
    LET places == {j \in DOMAIN l : Text(l[j].tablet, "lower") = e.paired}
    IN  IF places = {} THEN otherwise ELSE CHOOSE j \in places : \A k \in places : j <= k

\* Mutant of Selected: a tablet that is neither checks no radio button.
KeepsKind(l, i, w) ==
    LET e == l[i]
        combo == Place(l, e, w.combo)
    IN  [entry |-> e,
         widgets |-> [parts |-> e.parts, buttons |-> e.buttons,
                      kind |-> IF KindOf(e) = "normal" THEN w.kind ELSE KindOf(e),
                      combo |-> combo, comboEnabled |-> e.hasPaired]]

\* changeTabletSelection: what the entry is once all widgets are set, and they.
Selected(l, i, w) ==
    LET e == l[i]
        radio == Check(Check(Check([entry |-> e, kind |-> w.kind],
                                   "normal", ~e.isSensor /\ ~e.hasPaired),
                             "sensor", e.isSensor),
                       "parent", e.hasPaired)
        combo == Place(l, e, w.combo)
    IN  [entry |-> IF combo = w.combo THEN radio.entry ELSE PairWith(l, radio.entry, combo),
         widgets |-> [parts |-> e.parts, buttons |-> e.buttons, kind |-> radio.kind,
                      combo |-> combo, comboEnabled |-> e.hasPaired]]

\* A QMap of the serial numbers, which are text: the i-th has i - 1 before it.
InOrder(S) ==
    [i \in 1..Cardinality(S) |-> CHOOSE t \in S : Cardinality({u \in S : u < t}) = i - 1]

\* refreshTabletList
Fresh(db, tablets, w) ==
    LET serials == InOrder(tablets)
        entries == [i \in DOMAIN serials |-> LoadEntry(db, serials[i])]
        first == Selected(entries, 1, [w EXCEPT !.combo = 1])
    IN  IF entries = <<>>
        THEN [list |-> <<>>, index |-> 0, widgets |-> [w EXCEPT !.combo = 0]]
        ELSE [list |-> [entries EXCEPT ![1] = first.entry], index |-> 1,
              widgets |-> first.widgets]

SaveTabletInfo(e) ==
    [buttons |-> e.buttons, map |-> e.map,
     parts |-> [p \in Parts |-> IF p \in e.parts THEN "true" ELSE "false"],
     leds |-> IF Leds \subseteq e.parts THEN 8 ELSE IF Leds \cap e.parts # {} THEN 4 ELSE 0,
     sensor |-> IF e.hasPaired THEN e.paired ELSE NoText,
     isSensor |-> IF e.isSensor THEN "true" ELSE ""]

-----------------------------------------------------------------------------
(* The daemon. *)

Count == acts < MaxActs /\ acts' = acts + 1
FinderKeeps == UNCHANGED <<local, list, index, widgets, mapping>>

Plug(t) ==
    /\ Count
    /\ t \notin connected
    /\ connected' = connected \cup {t}
    /\ known' = IF ~Identified(local, t) THEN known
                ELSE [u \in DOMAIN known \cup {t} |->
                         IF u = t THEN LookupInformation(local, t) ELSE known[u]]
    /\ FinderKeeps

Unplug(t) ==
    /\ Count
    /\ t \in connected
    /\ connected' = connected \ {t}
    /\ known' = [u \in DOMAIN known \ {t} |-> known[u]]
    /\ FinderKeeps

-----------------------------------------------------------------------------
(* The user at the finder. *)

Act == mapping = NotMapping /\ Count
EditEntry == Act /\ index # 0
DaemonKeeps == UNCHANGED <<connected, known>>

\* What was not saved is lost.  Widgets stay as they are when there is no tablet.
RefreshTabletList ==
    /\ Act
    /\ list' = Fresh(local, connected, widgets).list
    /\ index' = Fresh(local, connected, widgets).index
    /\ widgets' = Fresh(local, connected, widgets).widgets
    /\ DaemonKeeps /\ UNCHANGED <<local, mapping>>

ChangeTabletSelection(i) ==
    /\ Act
    /\ i # index
    /\ LET selected == Selected(list, i, widgets)
       IN  /\ list' = [list EXCEPT ![i] = selected.entry]
           /\ widgets' = selected.widgets
    /\ index' = i
    /\ DaemonKeeps /\ UNCHANGED <<local, mapping>>

\* The boxes of strips, ring, wheel and status LEDs.
TogglePart(p) ==
    /\ EditEntry
    /\ LET Toggled(parts) == IF p \in widgets.parts THEN parts \ {p} ELSE parts \cup {p}
       IN  /\ list' = [list EXCEPT ![index].parts = Toggled(@)]
           /\ widgets' = [widgets EXCEPT !.parts = Toggled(@)]
    /\ DaemonKeeps /\ UNCHANGED <<local, index, mapping>>

OnExpressKeyNumbersChanged(n) ==
    /\ EditEntry
    /\ n # widgets.buttons
    /\ list' = [list EXCEPT ![index].buttons = n]
    /\ widgets' = [widgets EXCEPT !.buttons = n]
    /\ DaemonKeeps /\ UNCHANGED <<local, index, mapping>>

ChooseKind(k) ==
    /\ EditEntry
    /\ k # widgets.kind
    /\ list' = [list EXCEPT ![index] = WithKind(@, k)]
    /\ widgets' = [widgets EXCEPT !.kind = k, !.comboEnabled = (k = "parent")]
    /\ DaemonKeeps /\ UNCHANGED <<local, index, mapping>>

OnPairedIdChanged(j) ==
    /\ EditEntry
    /\ widgets.comboEnabled /\ j # widgets.combo
    /\ list' = [list EXCEPT ![index] = PairWith(list, @, j)]
    /\ widgets' = [widgets EXCEPT !.combo = j]
    /\ DaemonKeeps /\ UNCHANGED <<local, index, mapping>>

\* With buttons to map; the button that opens it stays enabled when the list has become
\* empty, which is not followed here.
OnMapButtons ==
    /\ EditEntry
    /\ widgets.buttons > 0
    /\ mapping' = [max |-> widgets.buttons, got |-> <<>>]
    /\ DaemonKeeps /\ UNCHANGED <<local, list, index, widgets>>

\* The bit of a Qt::MouseButton, counted from 1, for a button of X.
QtMouseButton(b) ==
    CASE b = 1 -> 1 [] b = 2 -> 3 [] b = 3 -> 2 [] OTHER -> b - 4

QtButton2X11Button(bit) == IF bit < 4 THEN bit ELSE bit + 4

\* Mutant of HwKey: buttons are recorded past the last one.
RecordsOn(b) ==
    /\ mapping # NotMapping
    /\ Len(mapping.got) <= mapping.max
    /\ mapping' = [mapping EXCEPT !.got = Append(@, QtButton2X11Button(QtMouseButton(b)))]
    /\ DaemonKeeps /\ UNCHANGED <<local, list, index, widgets, acts>>

\* mousePressEvent; buttons of the wheel send none.
HwKey(b) ==
    /\ mapping # NotMapping
    /\ Len(mapping.got) < mapping.max
    /\ mapping' = [mapping EXCEPT !.got = Append(@, QtButton2X11Button(QtMouseButton(b)))]
    /\ DaemonKeeps /\ UNCHANGED <<local, list, index, widgets, acts>>

\* "OK" is enabled once there is one for each button.
ButtonsMapped ==
    /\ mapping # NotMapping
    /\ \/ Len(mapping.got) >= mapping.max /\ list' = [list EXCEPT ![index].map = mapping.got]
       \/ list' = [list EXCEPT ![index].map = <<>>]
    /\ mapping' = NotMapping
    /\ DaemonKeeps /\ UNCHANGED <<local, index, widgets, acts>>

Save(entries) ==
    /\ EditEntry
    /\ local' = [t \in DOMAIN local \cup {e.tablet : e \in entries} |->
                    IF \E e \in entries : e.tablet = t
                    THEN SaveTabletInfo(CHOOSE e \in entries : e.tablet = t) ELSE local[t]]
    /\ DaemonKeeps /\ UNCHANGED <<list, index, widgets, mapping>>

-----------------------------------------------------------------------------
NoWidgets == [parts |-> {}, buttons |-> 0, kind |-> "normal", combo |-> 0, comboEnabled |-> FALSE]
NoGroups == [t \in {} |-> NoText]

\* The finder is started, and nothing was saved yet.
LookupInit ==
    /\ connected \in Starts
    /\ local = NoGroups
    /\ known = [t \in {u \in connected : Identified(local, u)} |-> LookupInformation(local, t)]
    /\ list = Fresh(local, connected, NoWidgets).list
    /\ index = Fresh(local, connected, NoWidgets).index
    /\ widgets = Fresh(local, connected, NoWidgets).widgets
    /\ mapping = NotMapping
    /\ acts = 0

LookupNext ==
    \/ \E t \in Serial : Plug(t) \/ Unplug(t)
    \/ RefreshTabletList
    \/ \E i \in DOMAIN list : ChangeTabletSelection(i) \/ OnPairedIdChanged(i)
    \/ \E p \in Parts \cup Leds : TogglePart(p)
    \/ \E n \in ButtonNumbers : OnExpressKeyNumbersChanged(n)
    \/ \E k \in Kinds : ChooseKind(k)
    \/ OnMapButtons
    \/ \E b \in XButtons : HwKey(b)
    \/ ButtonsMapped
    \/ Save({list[i] : i \in {index} \cap DOMAIN list})
    \/ Save(ToSet(list))

LookupSpec == LookupInit /\ [][LookupNext]_lookupVars

-----------------------------------------------------------------------------
(* Properties. *)

LookupTypeOK ==
    /\ connected \subseteq Serial /\ DOMAIN known \subseteq connected
    /\ \A t \in DOMAIN known : known[t] \in Information
    /\ DOMAIN local \subseteq Serial /\ \A t \in DOMAIN local : local[t] \in Group
    /\ \A i \in DOMAIN list : list[i] \in Entry
    /\ index \in 0..Len(list) /\ (index = 0) = (list = <<>>)
    /\ widgets \in Widgets /\ widgets.combo \in 0..Len(list)
    /\ Len(mapping.got) <= mapping.max

\* The widgets show the tablet that is selected, whichever was before it and however the
\* radio buttons and the list of sensors were left: boxes, number of buttons, what kind
\* of tablet it is, and its sensor if that is connected.
WidgetsShowEntry ==
    index # 0 =>
        LET e == list[index] IN
        /\ widgets.parts = e.parts /\ widgets.buttons = e.buttons
        /\ widgets.kind = KindOf(e) /\ widgets.comboEnabled = e.hasPaired
        /\ e.hasPaired => widgets.combo = Place(list, e, widgets.combo)

\* An entry is what the databases say, or the user changed it while it was selected:
\* selecting a tablet and refreshing the list change none, although every widget that is
\* set on the way reports what it shows as if the user had chosen it.
EntriesChangeByHand ==
    [][\A i \in DOMAIN list' :
          \/ list'[i] = LoadEntry(local, list'[i].tablet)
          \/ /\ i \in DOMAIN list /\ list'[i].tablet = list[i].tablet
             /\ list'[i] = list[i] \/ (i = index /\ index' = index)]_lookupVars

\* What was saved is found again: the databases give back the entry as it was written.
\* Known exceptions: LEDs that are on the left side only, and a parent whose sensor was
\* never chosen, as the first in the list is shown and none is saved.
FoundAsSaved ==
    \A i \in DOMAIN list :
        LET e == list[i]
            found == LoadEntry(local, e.tablet)
        IN  (/\ e.tablet \in DOMAIN local /\ local[e.tablet] = SaveTabletInfo(e)
             /\ Leds \cap e.parts # {"leds left"}
             /\ e.hasPaired => e.paired # NoText)
            => /\ found.parts = e.parts /\ KindOf(found) = KindOf(e)
               /\ e.hasPaired => found.paired = e.paired
               /\ found.buttons = e.buttons
               /\ \A b \in 1..e.buttons : found.map[b] = IF b \in DOMAIN e.map THEN e.map[b] ELSE b

\* No two buttons of a pad that libwacom or the dialog for the buttons named are one for
\* X, and none of them is the wheel's.
WheelIsNoButton ==
    /\ \A t \in DOMAIN known : ~InDatabase(local, t) =>
          /\ IsInjective(known[t].map)
          /\ Range(known[t].map) \cap 4..7 = {}
    /\ Range(mapping.got) \cap 4..7 = {}

\* The dialog shows what an entry holds, only the user makes it hold another, and what the
\* databases and libwacom give is what was saved and what X can tell apart.
DialogIsTrue == [](WidgetsShowEntry /\ FoundAsSaved /\ WheelIsNoButton) /\ EntriesChangeByHand
=============================================================================
