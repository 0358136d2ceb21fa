----------------------------- MODULE ProfileFiles -----------------------------
(***************************************************************************)
(* What becomes of the contents of tabletprofilesrc.                       *)
(*                                                                         *)
(*   <vendor>:<tablet>            CurrentProfileEntry                      *)
(*     <profile>                                                           *)
(*       <device>                 key = value                              *)
(*                                                                         *)
(* The tablet has its touch sensor in a device of its own, so that there   *)
(* are two tablets to the daemon and two groups of profiles, which         *)
(* ProfileManagement keeps side by side.  Groups of older versions are     *)
(* named otherwise and have keys that are spelled otherwise; there may be  *)
(* devices and keys that this version does not know.                       *)
(*                                                                         *)
(* A group of KConfig is there when it or a group in it has an entry.      *)
(* Every operation starts from the file; ProfileSession is about caches    *)
(* that are behind it.                                                     *)
(***************************************************************************)
EXTENDS Naturals, FiniteSets

CONSTANTS
    Name,        \* profile names
    Default,     \* the name of a profile made because there is none
    NoName,      \* the empty name
    Setting,     \* values of a device in a profile, whatever the property
    Standard,    \* the one that createNewProfile sets
    MaxActs      \* bound: steps of the user and of clients of the daemon

-----------------------------------------------------------------------------
(* Properties and keys. *)

\* Area is the property that the daemon writes whether it was there or not: what the
\* map of the device has for its ScreenSpace, or the whole tablet.  Mode stands for the
\* others.
Property == {"ScreenSpace", "Area", "Mode"}
Unset == "unset"
Desktop == "desktop"
MapArea == "area"

\* A value is not the empty string, which saveConfig takes as none.
ASSUME NameAssumption ==
    /\ Default \in Name /\ NoName \notin Name
    /\ Standard \in Setting /\ Unset \notin Setting
    /\ MaxActs \in Nat

\* A key as it is spelled in the file.  Older versions put an "x", a "0" or a "1"
\* in front of some and an underscore into others.
Key == [of : Property, spelled : {"now", "before"}] \cup [of : {"unknown"}, spelled : {"now"}]

\* Enum::find, PropertySet::map: the properties there are.
Known(k) == k.of \in Property

\* Mutant of Find: a key has to be spelled as it is now.
FindsExactly(k) == IF Known(k) /\ k.spelled = "now" THEN {k.of} ELSE {}

\* DeviceProfileConfigAdaptor::loadConfig: case, prefix and underscores are ignored.
Find(k) == IF Known(k) THEN {k.of} ELSE {}

\* What PropertySet and DeviceProperty give a property as its key.
KeyOf(p) == [of |-> p, spelled |-> "now"]

Value == Setting \cup {Unset, Desktop, MapArea}
Entry == [key : Key, value : Value \ {Unset}]

-----------------------------------------------------------------------------
(* Profiles of a device and of a tablet, in memory. *)

Device == {"stylus", "eraser", "pad", "touch"}

\* DeviceProfile: a property without a value is not in it.
DeviceProfile == [Property -> Value]
EmptyDevice == [p \in Property |-> Unset]

\* DeviceProfile::getProperty, setProperty.
SetProperty(dev, p, v) == [dev EXCEPT ![p] = v]

\* TabletProfile: devices that it does not have are read as empty ones.
NoDevice == [p \in {} |-> Unset]
TabletProfile == [Device -> DeviceProfile \cup {NoDevice}]
NoDevices == [d \in Device |-> NoDevice]
HasDevice(profile, d) == profile[d] # NoDevice
GetDevice(profile, d) == IF HasDevice(profile, d) THEN profile[d] ELSE EmptyDevice
SetDevice(profile, d, dev) == [profile EXCEPT ![d] = dev]
ListDevices(profile) == {d \in Device : HasDevice(profile, d)}

-----------------------------------------------------------------------------
(* The same in the file. *)

\* Groups in the group of a profile: the devices, and one that is none.
DeviceGroup == Device \cup {"other"}
NoEntries == [d \in DeviceGroup |-> {}]

GroupExists(profile) == \E d \in DeviceGroup : profile[d] # {}

\* DeviceProfileConfigAdaptor::loadConfig.
LoadDevice(entries) ==
    [p \in Property |->
        IF \E e \in entries : p \in Find(e.key)
        THEN (CHOOSE e \in entries : p \in Find(e.key)).value
        ELSE Unset]

\* Mutant of SaveDevice: properties without a value are written, too.
SavesUnset(dev) == {[key |-> KeyOf(p), value |-> dev[p]] : p \in Property}

\* DeviceProfileConfigAdaptor::saveConfig.
SaveDevice(dev) == {[key |-> KeyOf(p), value |-> dev[p]] : p \in {q \in Property : dev[q] # Unset}}

\* TabletProfileConfigAdaptor::loadConfig.  A group without entries is not listed.
LoadTablet(group) ==
    [d \in Device |-> IF group[d] # {} THEN LoadDevice(group[d]) ELSE NoDevice]

\* TabletProfileConfigAdaptor::saveConfig: nothing of the old group is left.
SaveTablet(profile) ==
    [d \in DeviceGroup |-> IF d \in ListDevices(profile) THEN SaveDevice(profile[d]) ELSE {}]

-----------------------------------------------------------------------------
(* Groups of tablets. *)

\* The two tablets that the daemon sees, and the group each has under the name of
\* the tablet.
Tablet == {"pen", "sensor"}
Group == Tablet \X {"id", "name"}
UniqueDeviceId(t) == <<t, "id">>
LegacyUniqueDeviceId(t) == <<t, "name">>

DevicesOf(t) == IF t = "pen" THEN {"stylus", "eraser", "pad"} ELSE {"touch"}

VARIABLES
    file,        \* tabletprofilesrc: the profiles of each group
    entry,       \* groups that have a CurrentProfileEntry
    last,        \* wacomtablet-kderc: the last profile of a group
    controlled,  \* tablets that TabletHandler has a backend for
    maker,       \* the daemon's ProfileManagement: group of its first use
    name,        \* the settings module's ProfileManagement: profile name
    handled,     \* history: tablets that have been controlled
    deleted,     \* history: profiles the user deleted and has not made again
    acts         \* bounded by MaxActs

vars == <<file, entry, last, controlled, maker, name, handled, deleted, acts>>

\* ProfileManager::listProfiles, hasProfile.
ListProfiles(f, g) == {n \in Name : GroupExists(f[g][n])}

\* ProfileManager::hasIdentifier.
HasIdentifier(f, g) == g \in entry \/ ListProfiles(f, g) # {}

\* Mutant of ReadProfiles: the old group is copied whenever it is there.
CopiesAlways(f, t) ==
    [f EXCEPT ![UniqueDeviceId(t)] =
        [n \in Name |-> IF GroupExists(f[LegacyUniqueDeviceId(t)][n])
                        THEN f[LegacyUniqueDeviceId(t)][n] ELSE @[n]]]

\* ProfileManager::readProfiles with a legacy id: a group that is not there is
\* copied from the old one, whose CurrentProfileEntry is soon overwritten.
ReadProfiles(f, t) ==
    IF ~HasIdentifier(f, UniqueDeviceId(t))
    THEN [f EXCEPT ![UniqueDeviceId(t)] = f[LegacyUniqueDeviceId(t)]]
    ELSE f

\* ProfileManager::loadProfile.
LoadProfile(f, g, n) == IF n \in ListProfiles(f, g) THEN LoadTablet(f[g][n]) ELSE NoDevices

\* ProfileManager::saveProfile.
SaveProfile(f, g, n, profile) ==
    IF n = NoName THEN f ELSE [f EXCEPT ![g][n] = SaveTablet(profile)]

\* ProfileManager::deleteProfile.
DeleteProfile(f, g, n) == IF n = NoName THEN f ELSE [f EXCEPT ![g][n] = NoEntries]

-----------------------------------------------------------------------------
(* ProfileManagement. *)

\* setupDefaultPad, setupDefaultStylus and setupDefaultTouch leave ScreenSpace and Area
\* alone.
Defaults(dev) == SetProperty(dev, "Mode", Standard)

WithDefaults(profile, devices) ==
    [d \in Device |-> IF d \in devices THEN Defaults(GetDevice(profile, d)) ELSE profile[d]]

CreateIn(f, g, n, devices) == SaveProfile(f, g, n, WithDefaults(LoadProfile(f, g, n), devices))

\* Mutant of CreateNewProfile: the sensor is forgotten.
CreatesInOne(f, n) == CreateIn(f, UniqueDeviceId("pen"), n, DevicesOf("pen"))

\* ProfileManagement::createNewProfile, with the sensor's id.
CreateNewProfile(f, n) ==
    CreateIn(CreateIn(f, UniqueDeviceId("pen"), n, DevicesOf("pen")),
             UniqueDeviceId("sensor"), n, {"touch"})

\* The daemon never sets the sensor's id, and whether there is touch only once.
CreateInDaemon(f, g, n) ==
    CreateIn(f, g, n, DevicesOf("pen") \cup (IF g = UniqueDeviceId("sensor") THEN {"touch"} ELSE {}))

\* ProfileManagement::deleteProfile.  The list that tells whether a default is
\* needed is the one of the group that was read last, the sensor's.
Delete(f, n) ==
    LET left == DeleteProfile(DeleteProfile(f, UniqueDeviceId("pen"), n), UniqueDeviceId("sensor"), n)
    IN  IF ListProfiles(left, UniqueDeviceId("sensor")) = {}
        THEN CreateNewProfile(left, Default)
        ELSE left

\* ProfileManagement::loadDeviceProfile, saveDeviceProfile: which group has a device.
HomeOf(d) == UniqueDeviceId(IF d = "touch" THEN "sensor" ELSE "pen")

SaveDeviceProfile(f, n, d, dev) ==
    SaveProfile(f, HomeOf(d), n, SetDevice(LoadProfile(f, HomeOf(d), n), d, dev))

-----------------------------------------------------------------------------
(* TabletHandler. *)

\* mapDeviceToOutput, in the profile: a screen space that is unset stays so, and an area
\* is written.
Mapped(dev, space) == SetProperty(SetProperty(dev, "ScreenSpace", space), "Area", MapArea)

\* mapTabletToCurrentScreenSpace: the eraser has the space and the mode of the stylus.
MapTablet(t, profile) ==
    LET stylus == GetDevice(profile, "stylus")
        Following(d) == IF d = "touch" THEN GetDevice(profile, "touch") ELSE stylus
    IN  [d \in Device |->
            IF d \in {"stylus", "eraser", "touch"} \cap DevicesOf(t)
            THEN SetProperty(Mapped(GetDevice(profile, d), Following(d)["ScreenSpace"]),
                             "Mode", Following(d)["Mode"])
            ELSE profile[d]]

\* MainConfig: the last profile, or the one under the name of old.
SetLastProfile(l, t, n) == [l EXCEPT ![UniqueDeviceId(t)] = n]
GetLastProfile(l, t) ==
    IF l[UniqueDeviceId(t)] # NoName THEN l[UniqueDeviceId(t)] ELSE l[LegacyUniqueDeviceId(t)]

\* What is left of setProfile once the name is found.
Applied(f, t, n, e, l, m) ==
    [file |-> SaveProfile(f, UniqueDeviceId(t), n, MapTablet(t, LoadProfile(f, UniqueDeviceId(t), n))),
     entry |-> e \cup {UniqueDeviceId(t)},
     last |-> SetLastProfile(l, t, n),
     maker |-> m]

\* The ways setProfile may go: "first" of a list may be any of its names.
SetProfile(f, t, n, e, l, m) ==
    LET g == UniqueDeviceId(t)
        read == ReadProfiles(f, t)
        target == IF m = <<>> THEN g ELSE m
        made == CreateInDaemon(read, target, Default)
    IN  IF LoadProfile(read, g, n) # NoDevices
        THEN {Applied(read, t, n, e, l, m)}
        ELSE IF ListProfiles(read, g) # {}
        THEN {Applied(read, t, q, e, l, m) : q \in ListProfiles(read, g)}
        ELSE {Applied(made, t, q, e, l, target) : q \in ListProfiles(made, target)}

\* TabletHandler::setProfile, for the tablet and then for its sensor.
SetProfiles(t, n, there) ==
    LET results == SetProfile(file, t, n, entry, last, maker)
    IN  IF t = "pen" /\ "sensor" \in there
        THEN UNION {SetProfile(r.file, "sensor", n, r.entry, r.last, r.maker) : r \in results}
        ELSE results

Becomes(r) ==
    /\ file' = r.file
    /\ entry' = r.entry
    /\ last' = r.last
    /\ maker' = r.maker

\* onTabletAdded: the last profile is set.
Plug(t) ==
    /\ t \notin controlled
    /\ controlled' = controlled \cup {t}
    /\ handled' = handled \cup {t}
    /\ \E r \in SetProfiles(t, GetLastProfile(last, t), controlled) : Becomes(r)
    /\ UNCHANGED <<name, deleted, acts>>

\* onTabletRemoved.
Unplug(t) ==
    /\ t \in controlled
    /\ acts < MaxActs
    /\ acts' = acts + 1
    /\ controlled' = controlled \ {t}
    /\ UNCHANGED <<file, entry, last, maker, name, handled, deleted>>

\* The settings module's own call, the applet, a shortcut: any name may be asked for.
ProfileAsked(t, n) ==
    /\ t \in controlled
    /\ acts < MaxActs
    /\ acts' = acts + 1
    /\ \E r \in SetProfiles(t, n, controlled) : Becomes(r)
    /\ UNCHANGED <<controlled, name, handled, deleted>>

-----------------------------------------------------------------------------
(* The settings module. *)

\* It shows a tablet that the daemon has, never a sensor.  It is not used before both
\* halves have been plugged in once: the list of the sensor's profiles would be empty,
\* and a deleted profile be answered with new defaults for one that is there.
UserActs ==
    /\ handled = Tablet
    /\ "pen" \in controlled
    /\ acts < MaxActs
    /\ acts' = acts + 1

\* switchProfile: ProfileManagement::setProfileName, a name of availableProfiles.
SwitchProfile(n) ==
    /\ UserActs
    /\ n \in ListProfiles(file, UniqueDeviceId("pen")) \ {name}
    /\ name' = n
    /\ UNCHANGED <<file, entry, last, controlled, maker, handled, deleted>>

\* addProfile.
AddProfile(n) ==
    /\ UserActs
    /\ file' = CreateNewProfile(file, n)
    /\ name' = n
    /\ deleted' = deleted \ {n}
    /\ UNCHANGED <<entry, last, controlled, maker, handled>>

\* delProfile: one of the names left is switched to.
DelProfile ==
    /\ UserActs
    /\ name # NoName
    /\ file' = Delete(file, name)
    /\ name' \in ListProfiles(file', UniqueDeviceId("pen")) \cup {NoName}
    /\ name' = NoName => ListProfiles(file', UniqueDeviceId("pen")) = {}
    /\ deleted' = (deleted \cup {name}) \ {n \in {Default} : n \in ListProfiles(file', UniqueDeviceId("pen"))}
    /\ UNCHANGED <<entry, last, controlled, maker, handled>>

\* What the page of a device makes of it.  Buttons of the pad may all be unset.  The
\* area is none of its properties, but is removed from the pad.
Edits(d) == {dev \in [Property -> Value] :
    /\ dev["ScreenSpace"] \in IF d = "pad" THEN {Unset} ELSE {Unset, Desktop} \cup (Setting \ {Standard})
    /\ dev["Area"] \in IF d = "pad" THEN {Unset} ELSE {Unset, MapArea}
    /\ dev["Mode"] \in IF d = "pad" THEN Setting \cup {Unset} ELSE Setting}

\* saveProfile, for the page of a device.
SavePage(d, dev) ==
    /\ UserActs
    /\ name # NoName
    /\ d # "pad" => dev["Area"] = GetDevice(LoadProfile(file, HomeOf(d), name), d)["Area"]
    /\ file' = SaveDeviceProfile(file, name, d, dev)
    /\ UNCHANGED <<entry, last, controlled, maker, name, handled, deleted>>

-----------------------------------------------------------------------------
(* What is there at first: no file, or one that an older version left, under the
   name of the tablet or under its id. *)

OldDevice(v) == {[key |-> [of |-> "Mode", spelled |-> "before"], value |-> v],
                 [key |-> [of |-> "unknown", spelled |-> "now"], value |-> v]}

OldProfile(devices, v) ==
    [d \in DeviceGroup |-> IF d \in devices \cup {"other"} THEN OldDevice(v) ELSE {}]

OldFile(kind, names, v) ==
    [g \in Group |-> [n \in Name |->
        IF g[2] = kind /\ n \in names THEN OldProfile(DevicesOf(g[1]), v) ELSE NoEntries]]

Init ==
    /\ \E kind \in {"id", "name"}, names \in SUBSET Name, v \in Setting \ {Standard} :
           /\ file = OldFile(kind, names, v)
           /\ entry = IF names = {} THEN {} ELSE {g \in Group : g[2] = kind}
           /\ last \in {l \in [Group -> Name \cup {NoName}] :
                            \A g \in Group : IF names = {} \/ g[2] # kind THEN l[g] = NoName
                                             ELSE l[g] \in names /\ l[g] = l[<<"pen", kind>>]}
    /\ controlled = {}
    /\ maker = <<>>
    /\ name = NoName
    /\ handled = {}
    /\ deleted = {}
    /\ acts = 0

Next ==
    \/ \E t \in Tablet : Plug(t) \/ Unplug(t)
    \/ \E t \in Tablet, n \in Name \cup {NoName} : ProfileAsked(t, n)
    \/ \E n \in Name : SwitchProfile(n) \/ AddProfile(n)
    \/ DelProfile
    \/ \E d \in Device : \E dev \in Edits(d) : SavePage(d, dev)

Spec == Init /\ [][Next]_vars

-----------------------------------------------------------------------------
(* Properties. *)

\* What is written can be read: every group in the file is one of devices and keys,
\* and a device that a profile has in the file is one that it has in memory.
TypeOK ==
    /\ file \in [Group -> [Name -> [DeviceGroup -> SUBSET Entry]]]
    /\ \A g \in Group, n \in Name : LoadProfile(file, g, n) \in TabletProfile
    /\ entry \subseteq Group
    /\ last \in [Group -> Name \cup {NoName}]
    /\ controlled \subseteq handled /\ handled \subseteq Tablet
    /\ maker \in Group \cup {<<>>}
    /\ name \in Name \cup {NoName}
    /\ deleted \subseteq Name
    /\ acts \in 0 .. MaxActs

HalvesTogether ==
    handled = Tablet =>
        ListProfiles(file, UniqueDeviceId("pen")) = ListProfiles(file, UniqueDeviceId("sensor"))

NeverWithout == "pen" \in handled => ListProfiles(file, UniqueDeviceId("pen")) # {}

DeletedStayDeleted ==
    deleted \cap ListProfiles(file, UniqueDeviceId("pen")) = {}

\* Once the daemon has seen both halves of the tablet, they have the same profiles and
\* at least one, and a profile that was deleted does not come back from the group of
\* old or by being asked for.
ProfilesAsChosen == HalvesTogether /\ NeverWithout /\ DeletedStayDeleted

\* What the file has for a device of a profile, however it is spelled, in the group
\* of the tablet or in the one of old that stands for it.
Said(f, e, t, n, d) ==
    LET g == IF UniqueDeviceId(t) \in e \/ ListProfiles(f, UniqueDeviceId(t)) # {}
             THEN UniqueDeviceId(t) ELSE LegacyUniqueDeviceId(t)
    IN  {x.value : x \in {y \in f[g][n][d] : y.key.of = "Mode"}}

ChangedByUser(n, d) ==
    \/ AddProfile(n)
    \/ DelProfile /\ n \in {name, name'}
    \/ n = name /\ \E dev \in Edits(d) : SavePage(d, dev)

\* The daemon makes profiles that are not there, and the eraser follows the stylus.
ChangedByDaemon(t, n, d) ==
    \/ \A x \in DevicesOf(t) : Said(file, entry, t, n, x) = {}
    \/ d = "eraser" /\ Said(file', entry', t, n, d) = Said(file, entry, t, n, "stylus")

\* However a profile was spelled and wherever it was kept, what it says of a device
\* stays until the user changes that device in that profile: saving a page, mapping
\* the tablet, copying the group of old and deleting another profile lose nothing.
ContentsKept ==
    [][\A t \in Tablet, n \in Name : \A d \in DevicesOf(t) :
          Said(file', entry', t, n, d) # Said(file, entry, t, n, d) =>
              ChangedByUser(n, d) \/ ChangedByDaemon(t, n, d)]_vars

=============================================================================
