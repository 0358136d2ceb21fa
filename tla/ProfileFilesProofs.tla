------------------------- MODULE ProfileFilesProofs -------------------------
(***************************************************************************)
(* Proofs about ProfileFiles, for every set of names and values and every  *)
(* number of acts: the two halves of a tablet keep the same profiles, a    *)
(* profile that was deleted stays deleted, and what a profile says of a    *)
(* device stays until the user changes it.                                 *)
(*                                                                         *)
(* First what reading and writing a device, a profile and a file do; then  *)
(* what the operations of ProfileManagement and of TabletHandler make of a *)
(* file; then the invariant, action by action.                             *)
(***************************************************************************)
EXTENDS ProfileFiles, TLAPS

ProfileGroup == [DeviceGroup -> SUBSET Entry]
File == [Group -> [Name -> ProfileGroup]]

\* The device of a tablet that every profile of it has.
MainDevice(t) == IF t = "pen" THEN "stylus" ELSE "touch"

\* There is a key that the program knows.
Spoken(entries) == \E x \in entries : Known(x.key)

\* However keys are spelled, there are no two values of a property.
Single(entries) ==
    \A x, y \in entries : Known(x.key) /\ x.key.of = y.key.of => x.value = y.value

\* The modes in a group and in memory.
ModeIn(entries) == {x.value : x \in {y \in entries : y.key.of = "Mode"}}
IsStandard(entries) == ModeIn(entries) = {Standard}
ModeOf(dev) == IF dev["Mode"] = Unset THEN {} ELSE {dev["Mode"]}

-----------------------------------------------------------------------------
(* Devices. *)

LEMMA Values ==
    /\ Unset \in Value /\ MapArea \in Value /\ Standard \in Value
    /\ Unset # MapArea /\ Unset # Standard
    /\ Setting \subseteq Value /\ Unset \notin Setting
BY NameAssumption DEF Value, Unset, MapArea

LEMMA Keys ==
    /\ \A p \in Property : KeyOf(p) \in Key /\ Known(KeyOf(p)) /\ KeyOf(p).of = p
    /\ \A k \in Key : k.of = "Mode" => Known(k)
    /\ "Mode" \in Property /\ "ScreenSpace" \in Property
    /\ "Area" \in Property
BY DEF KeyOf, Key, Known, Property

LEMMA EmptyDeviceType == EmptyDevice \in DeviceProfile /\ ModeOf(EmptyDevice) = {}
BY Keys, Values DEF EmptyDevice, DeviceProfile, ModeOf

LEMMA EntryFields ==
    ASSUME NEW x \in Entry
    PROVE  x.key \in Key /\ x.value \in Value /\ x.value # Unset
BY DEF Entry

LEMMA FindsKnown == \A k, p : p \in Find(k) <=> Known(k) /\ p = k.of
BY DEF Find

\* What is read has a property when the file has a key of it, with the file's value.
LEMMA LoadedProperty ==
    ASSUME NEW entries \in SUBSET Entry, NEW p \in Property
    PROVE  /\ LoadDevice(entries)[p] \in Value
           /\ LoadDevice(entries)[p] # Unset => \E x \in entries :
                 Known(x.key) /\ x.key.of = p /\ x.value = LoadDevice(entries)[p]
           /\ LoadDevice(entries)[p] = Unset => \A x \in entries : ~(Known(x.key) /\ x.key.of = p)
<1> DEFINE chosen == CHOOSE x \in entries : p \in Find(x.key)
<1>1. LoadDevice(entries)[p] =
          IF \E x \in entries : p \in Find(x.key) THEN chosen.value ELSE Unset
  BY DEF LoadDevice
<1>2. CASE \E x \in entries : p \in Find(x.key)
  <2>1. chosen \in entries /\ p \in Find(chosen.key)
    BY <1>2
  <2>2. LoadDevice(entries)[p] = chosen.value
    BY <1>1, <1>2
  <2> HIDE DEF chosen
  <2>3. chosen.value \in Value /\ chosen.value # Unset
    BY <2>1, EntryFields
  <2> QED BY <2>1, <2>2, <2>3, FindsKnown
<1>3. CASE ~ \E x \in entries : p \in Find(x.key)
  BY <1>1, <1>3, Values, FindsKnown
<1> QED BY <1>2, <1>3

LEMMA LoadedDevice ==
    ASSUME NEW entries \in SUBSET Entry
    PROVE  LoadDevice(entries) \in DeviceProfile
<1>1. \A p \in Property : LoadDevice(entries)[p] \in Value
  BY LoadedProperty
<1>2. LoadDevice(entries) = [p \in Property |-> LoadDevice(entries)[p]]
  BY DEF LoadDevice
<1> HIDE DEF LoadDevice
<1> QED BY <1>1, <1>2 DEF DeviceProfile

LEMMA LoadedSpeaks ==
    ASSUME NEW entries \in SUBSET Entry, Spoken(entries)
    PROVE  LoadDevice(entries) # EmptyDevice
<1>1. PICK x \in entries : Known(x.key)
  BY DEF Spoken
<1>2. x.key.of \in Property
  BY <1>1 DEF Known
<1>3. LoadDevice(entries)[x.key.of] # Unset
  BY <1>1, <1>2, LoadedProperty
<1>4. EmptyDevice[x.key.of] = Unset
  BY <1>2 DEF EmptyDevice
<1> QED BY <1>3, <1>4

LEMMA LoadedMode ==
    ASSUME NEW entries \in SUBSET Entry, Single(entries)
    PROVE  ModeOf(LoadDevice(entries)) = ModeIn(entries)
<1> DEFINE mode == LoadDevice(entries)["Mode"]
<1>1. \A x \in entries : x.key.of = "Mode" => Known(x.key)
  BY Keys, EntryFields
<1>2. CASE mode = Unset
  <2>1. \A x \in entries : x.key.of # "Mode"
    BY <1>1, <1>2, LoadedProperty, Keys
  <2> QED BY <1>2, <2>1 DEF ModeOf, ModeIn
<1>3. CASE mode # Unset
  <2>1. PICK x \in entries : x.key.of = "Mode" /\ x.value = mode
    BY <1>3, LoadedProperty, Keys
  <2>2. \A y \in entries : y.key.of = "Mode" => y.value = mode
    BY <1>1, <2>1 DEF Single
  <2> QED BY <1>3, <2>1, <2>2 DEF ModeOf, ModeIn
<1> QED BY <1>2, <1>3

LEMMA SavedEntries ==
    ASSUME NEW dev \in DeviceProfile
    PROVE  /\ SaveDevice(dev) \in SUBSET Entry
           /\ \A x \in SaveDevice(dev) :
                 x.key.of \in Property /\ x.value = dev[x.key.of] /\ x.value # Unset
           /\ \A p \in Property : dev[p] # Unset =>
                 \E x \in SaveDevice(dev) : x.key.of = p /\ Known(x.key)
<1>1. \A p \in Property : dev[p] \in Value
  BY DEF DeviceProfile
<1>2. \A x \in SaveDevice(dev) : \E p \in Property :
          dev[p] # Unset /\ x = [key |-> KeyOf(p), value |-> dev[p]]
  BY DEF SaveDevice
<1>3. \A p \in Property : dev[p] # Unset => [key |-> KeyOf(p), value |-> dev[p]] \in SaveDevice(dev)
  BY DEF SaveDevice
<1>4. \A p \in Property : dev[p] # Unset => [key |-> KeyOf(p), value |-> dev[p]] \in Entry
  BY <1>1, Keys DEF Entry
<1>5. SaveDevice(dev) \in SUBSET Entry
  BY <1>2, <1>4
<1>6. ASSUME NEW x \in SaveDevice(dev)
      PROVE  x.key.of \in Property /\ x.value = dev[x.key.of] /\ x.value # Unset
  <2>1. PICK p \in Property : dev[p] # Unset /\ x = [key |-> KeyOf(p), value |-> dev[p]]
    BY <1>2
  <2> QED BY <2>1, Keys
<1>7. ASSUME NEW p \in Property, dev[p] # Unset
      PROVE  \E x \in SaveDevice(dev) : x.key.of = p /\ Known(x.key)
  <2>1. PICK x \in SaveDevice(dev) : x = [key |-> KeyOf(p), value |-> dev[p]]
    BY <1>3, <1>7
  <2> QED BY <2>1, Keys
<1> QED BY <1>5, <1>6, <1>7

LEMMA SavedDevice ==
    ASSUME NEW dev \in DeviceProfile
    PROVE  /\ Single(SaveDevice(dev))
           /\ dev # EmptyDevice => Spoken(SaveDevice(dev))
           /\ ModeIn(SaveDevice(dev)) = ModeOf(dev)
<1>1. Single(SaveDevice(dev))
  BY SavedEntries DEF Single
<1>2. ASSUME dev # EmptyDevice PROVE Spoken(SaveDevice(dev))
  <2>1. PICK p \in Property : dev[p] # Unset
    BY <1>2 DEF EmptyDevice, DeviceProfile
  <2> QED BY <2>1, SavedEntries DEF Spoken
<1>3. CASE dev["Mode"] = Unset
  <2>1. \A x \in SaveDevice(dev) : x.key.of # "Mode"
    BY <1>3, SavedEntries
  <2> QED BY <1>1, <1>2, <1>3, <2>1 DEF ModeOf, ModeIn
<1>4. CASE dev["Mode"] # Unset
  <2>1. PICK x \in SaveDevice(dev) : x.key.of = "Mode"
    BY <1>4, Keys, SavedEntries
  <2>2. \A y \in SaveDevice(dev) : y.key.of = "Mode" => y.value = dev["Mode"]
    BY SavedEntries
  <2> QED BY <1>1, <1>2, <1>4, <2>1, <2>2 DEF ModeOf, ModeIn
<1> QED BY <1>1, <1>2, <1>3, <1>4

-----------------------------------------------------------------------------
(* Profiles. *)

\* A group as every operation leaves it: it has a known key of the main device, and
\* one value of each property.
GoodGroup(t, group) ==
    /\ group \in ProfileGroup
    /\ GroupExists(group) => Spoken(group[MainDevice(t)])
    /\ \A d \in Device : Single(group[d])

LEMMA DeviceNames ==
    /\ \A t \in Tablet : MainDevice(t) \in DevicesOf(t) /\ DevicesOf(t) \subseteq Device
    /\ \A d \in Device : d \in DeviceGroup
BY DEF MainDevice, DevicesOf, Device, DeviceGroup, Tablet

LEMMA NoDeviceEmpty ==
    /\ \A dev \in DeviceProfile : dev # NoDevice
    /\ NoDevices \in TabletProfile
    /\ \A d \in Device : ~HasDevice(NoDevices, d) /\ GetDevice(NoDevices, d) = EmptyDevice
<1>1. \A dev \in DeviceProfile : DOMAIN dev = Property
  BY DEF DeviceProfile
<1>2. DOMAIN NoDevice = {}
  BY DEF NoDevice
<1>3. \A dev \in DeviceProfile : dev # NoDevice
  BY <1>1, <1>2, Keys
<1>4. NoDevices \in TabletProfile
  BY DEF NoDevices, TabletProfile
<1> QED BY <1>3, <1>4 DEF NoDevices, HasDevice, GetDevice

LEMMA Got ==
    ASSUME NEW profile \in TabletProfile, NEW d \in Device
    PROVE  GetDevice(profile, d) \in DeviceProfile
BY EmptyDeviceType DEF TabletProfile, HasDevice, GetDevice

LEMMA LoadedTablet ==
    ASSUME NEW group \in ProfileGroup
    PROVE  /\ LoadTablet(group) \in TabletProfile
           /\ \A d \in Device :
                 /\ Single(group[d]) => ModeOf(GetDevice(LoadTablet(group), d)) = ModeIn(group[d])
                 /\ Spoken(group[d]) => GetDevice(LoadTablet(group), d) # EmptyDevice
<1>1. \A d \in Device : group[d] \in SUBSET Entry
  BY DeviceNames DEF ProfileGroup
<1>2. \A d \in Device : LoadTablet(group)[d] = IF group[d] # {} THEN LoadDevice(group[d]) ELSE NoDevice
  BY DEF LoadTablet
<1>3. LoadTablet(group) \in TabletProfile
  BY <1>1, LoadedDevice DEF LoadTablet, TabletProfile
<1>4. ASSUME NEW d \in Device
      PROVE  /\ Single(group[d]) => ModeOf(GetDevice(LoadTablet(group), d)) = ModeIn(group[d])
             /\ Spoken(group[d]) => GetDevice(LoadTablet(group), d) # EmptyDevice
  <2>1. CASE group[d] = {}
    <3>1. GetDevice(LoadTablet(group), d) = EmptyDevice
      BY <1>2, <2>1 DEF GetDevice, HasDevice
    <3>2. ModeIn(group[d]) = {}
      BY <2>1 DEF ModeIn
    <3> QED BY <2>1, <3>1, <3>2, EmptyDeviceType DEF Spoken
  <2>2. CASE group[d] # {}
    <3>1. LoadTablet(group)[d] = LoadDevice(group[d])
      BY <1>2, <2>2
    <3>2. LoadDevice(group[d]) \in DeviceProfile
      BY <1>1, LoadedDevice
    <3>3. GetDevice(LoadTablet(group), d) = LoadDevice(group[d])
      BY <3>1, <3>2, NoDeviceEmpty DEF GetDevice, HasDevice
    <3> QED BY <1>1, <3>3, LoadedMode, LoadedSpeaks
  <2> QED BY <2>1, <2>2
<1> QED BY <1>3, <1>4

\* Of what is written the file has each device's mode, and no other.
LEMMA SavedTablet ==
    ASSUME NEW profile \in TabletProfile
    PROVE  /\ SaveTablet(profile) \in ProfileGroup
           /\ \A d \in Device :
                 /\ Single(SaveTablet(profile)[d])
                 /\ ModeIn(SaveTablet(profile)[d]) = ModeOf(GetDevice(profile, d))
                 /\ GetDevice(profile, d) # EmptyDevice => Spoken(SaveTablet(profile)[d])
<1>1. \A d \in DeviceGroup : SaveTablet(profile)[d] =
          IF d \in ListDevices(profile) THEN SaveDevice(profile[d]) ELSE {}
  BY DEF SaveTablet
<1>2. \A d \in ListDevices(profile) :
          d \in Device /\ profile[d] \in DeviceProfile /\ GetDevice(profile, d) = profile[d]
  BY DEF ListDevices, HasDevice, GetDevice, TabletProfile
<1>3. SaveTablet(profile) \in ProfileGroup
  BY <1>2, SavedEntries DEF SaveTablet, ProfileGroup
<1>4. ASSUME NEW d \in Device
      PROVE  /\ Single(SaveTablet(profile)[d])
             /\ ModeIn(SaveTablet(profile)[d]) = ModeOf(GetDevice(profile, d))
             /\ GetDevice(profile, d) # EmptyDevice => Spoken(SaveTablet(profile)[d])
  <2>1. CASE d \in ListDevices(profile)
    <3>1. SaveTablet(profile)[d] = SaveDevice(profile[d])
      BY <1>1, <2>1, DeviceNames
    <3> QED BY <1>2, <2>1, <3>1, SavedDevice
  <2>2. CASE d \notin ListDevices(profile)
    <3>1. SaveTablet(profile)[d] = {}
      BY <1>1, <2>2, DeviceNames
    <3>2. GetDevice(profile, d) = EmptyDevice
      BY <2>2 DEF ListDevices, GetDevice
    <3>3. Single({}) /\ ModeIn({}) = {}
      BY DEF Single, ModeIn
    <3> QED BY <3>1, <3>2, <3>3, EmptyDeviceType
  <2> QED BY <2>1, <2>2
<1> QED BY <1>3, <1>4

\* A profile whose main device says something makes a group that is there.
LEMMA SavedGood ==
    ASSUME NEW t \in Tablet, NEW profile \in TabletProfile,
           GetDevice(profile, MainDevice(t)) # EmptyDevice
    PROVE  GoodGroup(t, SaveTablet(profile)) /\ GroupExists(SaveTablet(profile))
<1> DEFINE group == SaveTablet(profile)
<1>1. MainDevice(t) \in Device /\ MainDevice(t) \in DeviceGroup
  BY DeviceNames
<1>2. Spoken(group[MainDevice(t)])
  BY <1>1, SavedTablet
<1>3. GroupExists(group)
  BY <1>1, <1>2 DEF Spoken, GroupExists
<1> QED BY <1>2, <1>3, SavedTablet DEF GoodGroup

-----------------------------------------------------------------------------
(* Files. *)

TabletOf(g) == g[1]

GoodFile(f) ==
    /\ f \in File
    /\ \A g \in Group, n \in Name : GoodGroup(TabletOf(g), f[g][n])

\* Nothing but the profile n of the group g differs.
OnlyAt(f, f2, g, n) == \A h \in Group, m \in Name : ~(h = g /\ m = n) => f2[h][m] = f[h][m]

LEMMA Ids ==
    ASSUME NEW t \in Tablet
    PROVE  /\ UniqueDeviceId(t) \in Group /\ LegacyUniqueDeviceId(t) \in Group
           /\ TabletOf(UniqueDeviceId(t)) = t /\ TabletOf(LegacyUniqueDeviceId(t)) = t
           /\ \A u \in Tablet : UniqueDeviceId(u) # LegacyUniqueDeviceId(t)
           /\ \A u \in Tablet : UniqueDeviceId(u) = UniqueDeviceId(t) => u = t
           /\ UniqueDeviceId(t) # <<>>
BY DEF UniqueDeviceId, LegacyUniqueDeviceId, Group, TabletOf

LEMMA GroupTablet == \A g \in Group : TabletOf(g) \in Tablet
BY DEF Group, TabletOf

LEMMA Tablets ==
    /\ "pen" \in Tablet /\ "sensor" \in Tablet
    /\ \A t \in Tablet : t = "pen" \/ t = "sensor"
BY DEF Tablet

LEMMA FileGroups ==
    ASSUME NEW f, GoodFile(f), NEW g \in Group, NEW n \in Name
    PROVE  /\ GoodGroup(TabletOf(g), f[g][n]) /\ f[g][n] \in ProfileGroup
           /\ n \in ListProfiles(f, g) <=> GroupExists(f[g][n])
BY DEF GoodFile, GoodGroup, ListProfiles

Puts(f, g, n, group) == [f EXCEPT ![g][n] = group]

LEMMA Put ==
    ASSUME NEW f, GoodFile(f), NEW g \in Group, NEW n \in Name,
           NEW group, GoodGroup(TabletOf(g), group)
    PROVE  /\ GoodFile(Puts(f, g, n, group))
           /\ Puts(f, g, n, group)[g][n] = group
           /\ OnlyAt(f, Puts(f, g, n, group), g, n)
<1> DEFINE f2 == Puts(f, g, n, group)
<1>1. f \in File /\ group \in ProfileGroup
  BY DEF GoodFile, GoodGroup
<1>2. f2 \in File
  BY <1>1 DEF File, Puts
<1>3. f2[g][n] = group
  BY <1>1 DEF File, Puts
<1>4. OnlyAt(f, f2, g, n)
  BY <1>1 DEF File, OnlyAt, Puts
<1> HIDE DEF f2
<1>5. \A h \in Group, m \in Name : GoodGroup(TabletOf(h), f2[h][m])
  BY <1>3, <1>4 DEF GoodFile, OnlyAt
<1> QED BY <1>2, <1>3, <1>4, <1>5 DEF GoodFile, f2

LEMMA ListsElsewhere ==
    ASSUME NEW f, NEW f2, NEW g \in Group, NEW n \in Name, OnlyAt(f, f2, g, n),
           NEW h \in Group, h # g
    PROVE  ListProfiles(f2, h) = ListProfiles(f, h)
BY DEF OnlyAt, ListProfiles

LEMMA ListWith ==
    ASSUME NEW f, NEW f2, NEW g \in Group, NEW n \in Name, OnlyAt(f, f2, g, n),
           GroupExists(f2[g][n])
    PROVE  ListProfiles(f2, g) = ListProfiles(f, g) \cup {n}
BY DEF OnlyAt, ListProfiles

LEMMA ListWithout ==
    ASSUME NEW f, NEW f2, NEW g \in Group, NEW n \in Name, OnlyAt(f, f2, g, n),
           ~GroupExists(f2[g][n])
    PROVE  ListProfiles(f2, g) = ListProfiles(f, g) \ {n}
BY DEF OnlyAt, ListProfiles

LEMMA LoadedProfile ==
    ASSUME NEW f, GoodFile(f), NEW g \in Group, NEW n \in Name \cup {NoName}
    PROVE  /\ LoadProfile(f, g, n) \in TabletProfile
           /\ n \in Name => \A d \in Device :
                 ModeOf(GetDevice(LoadProfile(f, g, n), d)) = ModeIn(f[g][n][d])
           /\ n \in ListProfiles(f, g) =>
                 GetDevice(LoadProfile(f, g, n), MainDevice(TabletOf(g))) # EmptyDevice
           /\ LoadProfile(f, g, n) # NoDevices => n \in ListProfiles(f, g)
<1>1. CASE n \in ListProfiles(f, g)
  <2>1. n \in Name
    BY <1>1 DEF ListProfiles
  <2>2. LoadProfile(f, g, n) = LoadTablet(f[g][n])
    BY <1>1 DEF LoadProfile
  <2>3. GoodGroup(TabletOf(g), f[g][n]) /\ f[g][n] \in ProfileGroup /\ GroupExists(f[g][n])
    BY <1>1, <2>1, FileGroups
  <2>4. Spoken(f[g][n][MainDevice(TabletOf(g))]) /\ \A d \in Device : Single(f[g][n][d])
    BY <2>3 DEF GoodGroup
  <2>5. MainDevice(TabletOf(g)) \in Device
    BY GroupTablet, DeviceNames
  <2> QED BY <1>1, <2>2, <2>3, <2>4, <2>5, LoadedTablet
<1>2. CASE n \notin ListProfiles(f, g)
  <2>1. LoadProfile(f, g, n) = NoDevices
    BY <1>2 DEF LoadProfile
  <2>2. ASSUME n \in Name, NEW d \in Device PROVE ModeIn(f[g][n][d]) = {}
    BY <1>2, <2>2, DeviceNames DEF ListProfiles, GroupExists, ModeIn
  <2> QED BY <1>2, <2>1, <2>2, NoDeviceEmpty, EmptyDeviceType
<1> QED BY <1>1, <1>2

-----------------------------------------------------------------------------
(* What ProfileManagement makes. *)

LEMMA Created ==
    ASSUME NEW f, GoodFile(f), NEW g \in Group, NEW n \in Name,
           NEW devices \in SUBSET Device, MainDevice(TabletOf(g)) \in devices,
           NEW f2, f2 = CreateIn(f, g, n, devices)
    PROVE  /\ GoodFile(f2)
           /\ OnlyAt(f, f2, g, n)
           /\ GroupExists(f2[g][n])
           /\ \A d \in devices : IsStandard(f2[g][n][d])
<1> DEFINE old == LoadProfile(f, g, n)
           new == WithDefaults(old, devices)
<1>1. old \in TabletProfile
  BY LoadedProfile
<1> HIDE DEF old
<1>2. \A d \in Device : GetDevice(old, d) \in DeviceProfile
  BY <1>1, Got
<1>3. \A d \in Device : Defaults(GetDevice(old, d)) \in DeviceProfile
  BY <1>2, Values DEF Defaults, SetProperty, DeviceProfile
<1>4. \A d \in Device : ModeOf(Defaults(GetDevice(old, d))) = {Standard}
  BY <1>2, Values, Keys DEF Defaults, SetProperty, DeviceProfile, ModeOf
<1>5. new \in TabletProfile
  BY <1>1, <1>3 DEF WithDefaults, TabletProfile
<1>6. \A d \in devices : GetDevice(new, d) = Defaults(GetDevice(old, d))
  BY <1>3, NoDeviceEmpty DEF WithDefaults, GetDevice, HasDevice
<1> HIDE DEF new
<1>7. \A d \in devices : ModeOf(GetDevice(new, d)) = {Standard}
  BY <1>4, <1>6
<1>8. GetDevice(new, MainDevice(TabletOf(g))) # EmptyDevice
  BY <1>7, EmptyDeviceType
<1>9. TabletOf(g) \in Tablet
  BY GroupTablet
<1>10. GoodGroup(TabletOf(g), SaveTablet(new)) /\ GroupExists(SaveTablet(new))
  BY <1>5, <1>8, <1>9, SavedGood
<1>11. CreateIn(f, g, n, devices) = Puts(f, g, n, SaveTablet(new))
  BY NameAssumption DEF CreateIn, SaveProfile, Puts, new, old
<1>12. \A d \in devices : IsStandard(SaveTablet(new)[d])
  BY <1>5, <1>7, SavedTablet DEF IsStandard
<1>13. PICK made : made = SaveTablet(new)
  OBVIOUS
<1>14. GoodGroup(TabletOf(g), made) /\ GroupExists(made)
  BY <1>10, <1>13
<1>15. f2 = Puts(f, g, n, made)
  BY <1>11, <1>13
<1>16. GoodFile(f2) /\ f2[g][n] = made /\ OnlyAt(f, f2, g, n)
  BY <1>14, <1>15, Put
<1> QED BY <1>12, <1>13, <1>14, <1>16

LEMMA CreatedInDaemon ==
    ASSUME NEW f, GoodFile(f), NEW u \in Tablet, NEW g \in Group, g = UniqueDeviceId(u),
           NEW n \in Name, NEW f2, f2 = CreateInDaemon(f, g, n)
    PROVE  /\ GoodFile(f2)
           /\ OnlyAt(f, f2, g, n)
           /\ GroupExists(f2[g][n])
           /\ \A d \in DevicesOf(u) : IsStandard(f2[g][n][d])
<1>1. TabletOf(g) = u
  BY Ids
<1>2. PICK devices : devices = DevicesOf("pen") \cup (IF g = UniqueDeviceId("sensor") THEN {"touch"} ELSE {})
  OBVIOUS
<1>3. DevicesOf(u) \subseteq devices /\ devices \in SUBSET Device
  BY <1>2 DEF DevicesOf, Device, Tablet
<1>4. MainDevice(TabletOf(g)) \in devices
  BY <1>1, <1>3, DeviceNames
<1>5. f2 = CreateIn(f, g, n, devices)
  BY <1>2 DEF CreateInDaemon
<1>6. /\ GoodFile(f2) /\ OnlyAt(f, f2, g, n) /\ GroupExists(f2[g][n])
      /\ \A d \in devices : IsStandard(f2[g][n][d])
  BY <1>3, <1>4, <1>5, Created
<1> QED BY <1>3, <1>6

\* The mode of the eraser is that of the stylus, the others keep their own.
Leading(t, d) == IF t = "pen" /\ d = "eraser" THEN "stylus" ELSE d

LEMMA MappedDevice ==
    ASSUME NEW dev \in DeviceProfile, NEW space \in Value, NEW mode \in Value
    PROVE  /\ SetProperty(Mapped(dev, space), "Mode", mode) \in DeviceProfile
           /\ SetProperty(Mapped(dev, space), "Mode", mode) # EmptyDevice
           /\ ModeOf(SetProperty(Mapped(dev, space), "Mode", mode)) = IF mode = Unset THEN {} ELSE {mode}
<1> DEFINE spaced == [dev EXCEPT !["ScreenSpace"] = space]
           mapped == [spaced EXCEPT !["Area"] = MapArea]
           result == [mapped EXCEPT !["Mode"] = mode]
<1>1. SetProperty(Mapped(dev, space), "Mode", mode) = result
  BY DEF SetProperty, Mapped
<1>2. spaced \in DeviceProfile
  BY Keys DEF DeviceProfile
<1> HIDE DEF spaced
<1>3. mapped \in DeviceProfile /\ mapped["Area"] = MapArea
  BY <1>2, Values, Keys DEF DeviceProfile
<1> HIDE DEF mapped
<1>4. result \in DeviceProfile /\ result["Area"] = MapArea /\ result["Mode"] = mode
  BY <1>3, Keys DEF DeviceProfile
<1>5. EmptyDevice["Area"] = Unset
  BY Keys DEF EmptyDevice
<1> HIDE DEF result
<1> QED BY <1>1, <1>4, <1>5, Values DEF ModeOf

LEMMA MappedTablet ==
    ASSUME NEW t \in Tablet, NEW profile \in TabletProfile
    PROVE  /\ MapTablet(t, profile) \in TabletProfile
           /\ GetDevice(MapTablet(t, profile), MainDevice(t)) # EmptyDevice
           /\ \A d \in DevicesOf(t) :
                 ModeOf(GetDevice(MapTablet(t, profile), d)) = ModeOf(GetDevice(profile, Leading(t, d)))
<1> DEFINE tools == {"stylus", "eraser", "touch"} \cap DevicesOf(t)
           Following(d) == IF d = "touch" THEN GetDevice(profile, "touch") ELSE GetDevice(profile, "stylus")
           Tool(d) == SetProperty(Mapped(GetDevice(profile, d), Following(d)["ScreenSpace"]),
                                  "Mode", Following(d)["Mode"])
<1>1. MapTablet(t, profile) = [d \in Device |-> IF d \in tools THEN Tool(d) ELSE profile[d]]
  BY DEF MapTablet
<1>2. "touch" \in Device /\ "stylus" \in Device /\ "eraser" \in Device /\ tools \subseteq Device
  BY DEF Device
<1>3. \A d \in Device : GetDevice(profile, d) \in DeviceProfile /\ Following(d) \in DeviceProfile
  BY <1>2, Got
<1>4. \A d \in Device : Following(d)["ScreenSpace"] \in Value /\ Following(d)["Mode"] \in Value
  BY <1>3, Keys DEF DeviceProfile
<1>5. \A d \in Device : /\ Tool(d) \in DeviceProfile /\ Tool(d) # EmptyDevice
                        /\ ModeOf(Tool(d)) = ModeOf(Following(d))
  <2> SUFFICES ASSUME NEW d \in Device
               PROVE  /\ Tool(d) \in DeviceProfile /\ Tool(d) # EmptyDevice
                      /\ ModeOf(Tool(d)) = ModeOf(Following(d))
    OBVIOUS
  <2>1. PICK space, mode : space = Following(d)["ScreenSpace"] /\ mode = Following(d)["Mode"]
    OBVIOUS
  <2>2. space \in Value /\ mode \in Value
    BY <1>4, <2>1
  <2>3. ModeOf(Following(d)) = IF mode = Unset THEN {} ELSE {mode}
    BY <2>1 DEF ModeOf
  <2>4. Tool(d) = SetProperty(Mapped(GetDevice(profile, d), space), "Mode", mode)
    BY <2>1
  <2>5. GetDevice(profile, d) \in DeviceProfile
    BY <1>3
  <2> HIDE DEF Tool, Following
  <2> QED BY <2>2, <2>3, <2>4, <2>5, MappedDevice
<1> HIDE DEF Tool
<1>6. MapTablet(t, profile) \in TabletProfile
  BY <1>1, <1>5 DEF TabletProfile
<1>7. \A d \in tools : GetDevice(MapTablet(t, profile), d) = Tool(d)
  BY <1>1, <1>2, <1>5, NoDeviceEmpty DEF GetDevice, HasDevice
<1>8. \A d \in Device \ tools : GetDevice(MapTablet(t, profile), d) = GetDevice(profile, d)
  BY <1>1 DEF GetDevice, HasDevice
<1>9. MainDevice(t) \in tools
  BY DEF MainDevice, DevicesOf, Tablet
<1>10. \A d \in tools : Following(d) = GetDevice(profile, Leading(t, d))
  BY DEF Leading, DevicesOf, Tablet
<1>11. \A d \in DevicesOf(t) \ tools : Leading(t, d) = d
  BY DEF Leading, DevicesOf
<1> HIDE DEF tools, Following
<1>12. ASSUME NEW d \in DevicesOf(t)
       PROVE  ModeOf(GetDevice(MapTablet(t, profile), d)) = ModeOf(GetDevice(profile, Leading(t, d)))
  <2>1. d \in Device
    BY DeviceNames
  <2>2. CASE d \in tools
    BY <1>5, <1>7, <1>10, <2>1, <2>2
  <2>3. CASE d \notin tools
    BY <1>8, <1>11, <2>1, <2>3
  <2> QED BY <2>2, <2>3
<1>13. GetDevice(MapTablet(t, profile), MainDevice(t)) # EmptyDevice
  BY <1>2, <1>5, <1>7, <1>9
<1> QED BY <1>6, <1>12, <1>13

-----------------------------------------------------------------------------
(* What TabletHandler makes. *)

LEMMA LeadingDevice ==
    \A t \in Tablet : \A d \in DevicesOf(t) : Leading(t, d) \in DevicesOf(t)
BY DEF Leading, DevicesOf

\* A profile that is set is in the file, and says of its devices what it said before.
LEMMA AppliedFile ==
    ASSUME NEW f, GoodFile(f), NEW t \in Tablet, NEW n \in Name, NEW e, NEW l, NEW m
    PROVE  /\ GoodFile(Applied(f, t, n, e, l, m).file)
           /\ OnlyAt(f, Applied(f, t, n, e, l, m).file, UniqueDeviceId(t), n)
           /\ GroupExists(Applied(f, t, n, e, l, m).file[UniqueDeviceId(t)][n])
           /\ \A d \in DevicesOf(t) :
                 ModeIn(Applied(f, t, n, e, l, m).file[UniqueDeviceId(t)][n][d])
                     = ModeIn(f[UniqueDeviceId(t)][n][Leading(t, d)])
<1>1. PICK g \in Group : g = UniqueDeviceId(t) /\ TabletOf(g) = t
  BY Ids
<1>2. PICK old : old = LoadProfile(f, g, n)
  OBVIOUS
<1>3. old \in TabletProfile /\ \A d \in Device : ModeOf(GetDevice(old, d)) = ModeIn(f[g][n][d])
  BY <1>2, LoadedProfile
<1>4. PICK new : new = MapTablet(t, old)
  OBVIOUS
<1>5. /\ new \in TabletProfile /\ GetDevice(new, MainDevice(t)) # EmptyDevice
      /\ \A d \in DevicesOf(t) : ModeOf(GetDevice(new, d)) = ModeOf(GetDevice(old, Leading(t, d)))
  BY <1>3, <1>4, MappedTablet
<1>6. PICK made : made = SaveTablet(new)
  OBVIOUS
<1>7. GoodGroup(TabletOf(g), made) /\ GroupExists(made)
  BY <1>1, <1>5, <1>6, SavedGood
<1>8. \A d \in Device : ModeIn(made[d]) = ModeOf(GetDevice(new, d))
  BY <1>5, <1>6, SavedTablet
<1>9. \A d \in DevicesOf(t) : ModeIn(made[d]) = ModeIn(f[g][n][Leading(t, d)])
  BY <1>3, <1>5, <1>8, LeadingDevice, DeviceNames
<1>10. PICK f2 : f2 = Puts(f, g, n, made)
  OBVIOUS
<1>11. GoodFile(f2) /\ f2[g][n] = made /\ OnlyAt(f, f2, g, n)
  BY <1>7, <1>10, Put
<1>12. Applied(f, t, n, e, l, m).file = f2
  BY <1>1, <1>2, <1>4, <1>6, <1>10, NameAssumption DEF Applied, SaveProfile, Puts
<1> QED BY <1>1, <1>7, <1>9, <1>11, <1>12

\* The group that stands for a tablet: that of old as long as there is no other.
SeenGroup(f, e, t) ==
    IF UniqueDeviceId(t) \in e \/ ListProfiles(f, UniqueDeviceId(t)) # {}
    THEN UniqueDeviceId(t) ELSE LegacyUniqueDeviceId(t)

LEMMA SaidMode ==
    \A f, e, t, n, d : Said(f, e, t, n, d) = ModeIn(f[SeenGroup(f, e, t)][n][d])
BY DEF Said, SeenGroup, ModeIn

LEMMA SeenType ==
    ASSUME NEW f, NEW e, NEW t \in Tablet
    PROVE  SeenGroup(f, e, t) \in Group /\ TabletOf(SeenGroup(f, e, t)) = t
BY Ids DEF SeenGroup

SameGroup(f, f2, h) == \A n \in Name : f2[h][n] = f[h][n]

LEMMA SameLists ==
    ASSUME NEW f, NEW f2, NEW h, SameGroup(f, f2, h)
    PROVE  ListProfiles(f2, h) = ListProfiles(f, h)
BY DEF SameGroup, ListProfiles

\* Reading gives a tablet the profiles that it is seen to have.
LEMMA ReadFile ==
    ASSUME NEW f, GoodFile(f), NEW t \in Tablet
    PROVE  /\ GoodFile(ReadProfiles(f, t))
           /\ \A n \in Name :
                 ReadProfiles(f, t)[UniqueDeviceId(t)][n] = f[SeenGroup(f, entry, t)][n]
           /\ ListProfiles(ReadProfiles(f, t), UniqueDeviceId(t))
                 = ListProfiles(f, SeenGroup(f, entry, t))
           /\ \A h \in Group \ {UniqueDeviceId(t)} : SameGroup(f, ReadProfiles(f, t), h)
<1>1. PICK g \in Group : g = UniqueDeviceId(t) /\ TabletOf(g) = t
  BY Ids
<1>2. PICK old \in Group : old = LegacyUniqueDeviceId(t) /\ TabletOf(old) = t
  BY Ids
<1>3. f \in File
  BY DEF GoodFile
<1>4. CASE HasIdentifier(f, g)
  <2>1. ReadProfiles(f, t) = f /\ SeenGroup(f, entry, t) = g
    BY <1>1, <1>4 DEF ReadProfiles, SeenGroup, HasIdentifier
  <2> QED BY <1>1, <2>1 DEF SameGroup
<1>5. CASE ~HasIdentifier(f, g)
  <2>1. PICK f2 : f2 = [f EXCEPT ![g] = f[old]]
    OBVIOUS
  <2>2. ReadProfiles(f, t) = f2 /\ SeenGroup(f, entry, t) = old
    BY <1>1, <1>2, <1>5, <2>1 DEF ReadProfiles, SeenGroup, HasIdentifier
  <2>3. f2 \in File /\ f2[g] = f[old] /\ \A h \in Group \ {g} : f2[h] = f[h]
    BY <1>3, <2>1 DEF File
  <2>4. GoodFile(f2)
    BY <1>1, <1>2, <2>3 DEF GoodFile
  <2>5. ListProfiles(f2, g) = ListProfiles(f, old)
    BY <2>3 DEF ListProfiles
  <2> QED BY <1>1, <2>2, <2>3, <2>4, <2>5 DEF SameGroup
<1> QED BY <1>4, <1>5

LastProfiles == [Group -> Name \cup {NoName}]

LEMMA AppliedRest ==
    ASSUME NEW f, NEW t \in Tablet, NEW n \in Name, NEW e, NEW l \in LastProfiles, NEW m,
           NEW r, r = Applied(f, t, n, e, l, m)
    PROVE  r.entry = e \cup {UniqueDeviceId(t)} /\ r.maker = m /\ r.last \in LastProfiles
BY DEF Applied, SetLastProfile, LastProfiles

FollowsLead(t, group, was) ==
    \A d \in DevicesOf(t) : ModeIn(group[d]) \in {ModeIn(was[d]), ModeIn(was[Leading(t, d)])}

\* A profile of a tablet that has one is set: only the eraser may say something else.
SetsListed(f, t, old, e, m, r) ==
    /\ GoodFile(r.file) /\ r.last \in LastProfiles
    /\ r.entry = e \cup {UniqueDeviceId(t)} /\ r.maker = m
    /\ ListProfiles(r.file, UniqueDeviceId(t)) = ListProfiles(f, old)
    /\ \A h \in Group \ {UniqueDeviceId(t)} : SameGroup(f, r.file, h)
    /\ \A q \in Name : FollowsLead(t, r.file[UniqueDeviceId(t)][q], f[old][q])

LEMMA SetListed ==
    ASSUME NEW f, GoodFile(f), NEW t \in Tablet, NEW n \in Name \cup {NoName},
           NEW e, NEW l \in LastProfiles, NEW m,
           ListProfiles(f, SeenGroup(f, entry, t)) # {},
           NEW r \in SetProfile(f, t, n, e, l, m)
    PROVE  SetsListed(f, t, SeenGroup(f, entry, t), e, m, r)
<1>1. PICK g \in Group : g = UniqueDeviceId(t) /\ TabletOf(g) = t
  BY Ids
<1>2. PICK old : old = SeenGroup(f, entry, t)
  OBVIOUS
<1>3. PICK read : read = ReadProfiles(f, t)
  OBVIOUS
<1>4. /\ GoodFile(read)
      /\ \A q \in Name : read[g][q] = f[old][q]
      /\ ListProfiles(read, g) = ListProfiles(f, old)
      /\ \A h \in Group \ {g} : SameGroup(f, read, h)
  BY <1>1, <1>2, <1>3, ReadFile
<1>5. \E q \in ListProfiles(read, g) : r = Applied(read, t, q, e, l, m)
  <2>1. ListProfiles(read, g) # {}
    BY <1>2, <1>4
  <2>2. LoadProfile(read, g, n) # NoDevices => n \in ListProfiles(read, g)
    BY <1>4, LoadedProfile
  <2> QED BY <1>1, <1>3, <2>1, <2>2 DEF SetProfile
<1>6. PICK q \in ListProfiles(read, g) : r = Applied(read, t, q, e, l, m)
  BY <1>5
<1>7. q \in Name
  BY DEF ListProfiles
<1>8. /\ GoodFile(r.file) /\ OnlyAt(read, r.file, g, q) /\ GroupExists(r.file[g][q])
      /\ \A d \in DevicesOf(t) : ModeIn(r.file[g][q][d]) = ModeIn(read[g][q][Leading(t, d)])
  BY <1>1, <1>4, <1>6, <1>7, AppliedFile
<1>9. r.entry = e \cup {g} /\ r.maker = m /\ r.last \in LastProfiles
  BY <1>1, <1>6, <1>7, AppliedRest
<1>10. ListProfiles(r.file, g) = ListProfiles(read, g)
  BY <1>6, <1>7, <1>8, ListWith
<1>11. \A h \in Group \ {g} : SameGroup(f, r.file, h)
  BY <1>4, <1>7, <1>8 DEF OnlyAt, SameGroup
<1>12. ASSUME NEW p \in Name PROVE FollowsLead(t, r.file[g][p], f[old][p])
  <2>1. CASE p = q
    BY <1>4, <1>7, <1>8, <2>1 DEF FollowsLead
  <2>2. CASE p # q
    <3>1. r.file[g][p] = f[old][p]
      BY <1>1, <1>4, <1>7, <1>8, <2>2 DEF OnlyAt
    <3> QED BY <3>1 DEF FollowsLead
  <2> QED BY <2>1, <2>2
<1> QED BY <1>1, <1>2, <1>4, <1>8, <1>9, <1>10, <1>11, <1>12 DEF SetsListed

\* A tablet without profiles gets the default one.  The daemon makes it in the group
\* of the tablet that it made the first one for, and reads it there.
SetsMade(f, t, u, e, r) ==
    /\ GoodFile(r.file) /\ r.last \in LastProfiles
    /\ r.entry = e \cup {UniqueDeviceId(t)} /\ r.maker = UniqueDeviceId(u)
    /\ ListProfiles(r.file, UniqueDeviceId(t)) = {Default}
    /\ ListProfiles(r.file, UniqueDeviceId(u)) = {Default}
    /\ \A d \in DevicesOf(u) : IsStandard(r.file[UniqueDeviceId(u)][Default][d])
    /\ \A h \in Group \ {UniqueDeviceId(t), UniqueDeviceId(u)} : SameGroup(f, r.file, h)

LEMMA SetMade ==
    ASSUME NEW f, GoodFile(f), NEW t \in Tablet, NEW n \in Name \cup {NoName},
           NEW e, NEW l \in LastProfiles, NEW m, NEW u \in Tablet,
           \/ m = <<>> /\ u = t
           \/ m = UniqueDeviceId(u),
           ListProfiles(f, SeenGroup(f, entry, t)) = {},
           ListProfiles(f, UniqueDeviceId(u)) \subseteq {Default},
           NEW r \in SetProfile(f, t, n, e, l, m)
    PROVE  SetsMade(f, t, u, e, r)
<1>1. PICK g \in Group : g = UniqueDeviceId(t) /\ TabletOf(g) = t
  BY Ids
<1>2. PICK target \in Group : target = UniqueDeviceId(u) /\ TabletOf(target) = u
  BY Ids
<1>3. PICK read : read = ReadProfiles(f, t)
  OBVIOUS
<1>4. /\ GoodFile(read)
      /\ ListProfiles(read, g) = {}
      /\ \A h \in Group \ {g} : SameGroup(f, read, h)
  BY <1>1, <1>3, ReadFile
<1>5. ListProfiles(read, target) \subseteq {Default}
  BY <1>2, <1>4, SameLists
<1>6. Default \in Name
  BY NameAssumption
<1>7. PICK made : made = CreateInDaemon(read, target, Default)
  OBVIOUS
<1>8. /\ GoodFile(made) /\ OnlyAt(read, made, target, Default)
      /\ GroupExists(made[target][Default])
      /\ \A d \in DevicesOf(u) : IsStandard(made[target][Default][d])
  BY <1>2, <1>4, <1>6, <1>7, CreatedInDaemon
<1>9. ListProfiles(made, target) = {Default}
  BY <1>5, <1>6, <1>8, ListWith
<1>10. r = Applied(made, t, Default, e, l, target)
  <2>1. target = IF m = <<>> THEN g ELSE m
    BY <1>1, <1>2, Ids
  <2>2. LoadProfile(read, g, n) = NoDevices
    BY <1>4, LoadedProfile
  <2> QED BY <1>1, <1>3, <1>4, <1>7, <1>9, <2>1, <2>2 DEF SetProfile
<1>11. /\ GoodFile(r.file) /\ OnlyAt(made, r.file, g, Default)
       /\ GroupExists(r.file[g][Default])
       /\ \A d \in DevicesOf(t) :
             ModeIn(r.file[g][Default][d]) = ModeIn(made[g][Default][Leading(t, d)])
  BY <1>1, <1>6, <1>8, <1>10, AppliedFile
<1>12. r.entry = e \cup {g} /\ r.maker = target /\ r.last \in LastProfiles
  BY <1>1, <1>6, <1>10, AppliedRest
<1>13. /\ ListProfiles(r.file, g) = {Default} /\ ListProfiles(r.file, target) = {Default}
       /\ \A d \in DevicesOf(u) : IsStandard(r.file[target][Default][d])
  <2>1. CASE g = target
    <3>1. ListProfiles(r.file, g) = {Default}
      BY <1>6, <1>9, <1>11, <2>1, ListWith
    <3>2. u = t
      BY <1>1, <1>2, <2>1
    <3> QED BY <1>8, <1>11, <2>1, <3>1, <3>2, LeadingDevice DEF IsStandard
  <2>2. CASE g # target
    <3>1. ListProfiles(made, g) = {}
      BY <1>4, <1>6, <1>8, <2>2, ListsElsewhere
    <3>2. ListProfiles(r.file, g) = {Default}
      BY <1>6, <1>11, <3>1, ListWith
    <3>3. r.file[target][Default] = made[target][Default]
      BY <1>6, <1>11, <2>2 DEF OnlyAt
    <3>4. ListProfiles(r.file, target) = {Default}
      BY <1>6, <1>9, <1>11, <2>2, ListsElsewhere
    <3> QED BY <1>8, <3>2, <3>3, <3>4
  <2> QED BY <2>1, <2>2
<1>14. \A h \in Group \ {g, target} : SameGroup(f, r.file, h)
  BY <1>4, <1>6, <1>8, <1>11 DEF OnlyAt, SameGroup
<1> QED BY <1>1, <1>2, <1>11, <1>12, <1>13, <1>14 DEF SetsMade

-----------------------------------------------------------------------------
(* The invariant. *)

ListOf(f, t) == ListProfiles(f, UniqueDeviceId(t))
SeenList(f, e, t) == ListProfiles(f, SeenGroup(f, e, t))

\* A tablet the daemon has set a profile for has a group of its own and profiles in it.
HandledSet(f, e, H) == \A t \in H : UniqueDeviceId(t) \in e /\ ListOf(f, t) # {}

\* What the daemon has made for a tablet when there was nothing for it.
Fresh(f, m, t) ==
    /\ m = UniqueDeviceId(t)
    /\ ListOf(f, t) = {Default}
    /\ \A d \in DevicesOf(t) : IsStandard(f[UniqueDeviceId(t)][Default][d])

\* As long as one half has not been plugged in, the halves are seen to have the same
\* profiles, or the one has nothing and the other what was made for it.
SameBefore(f, e, m, H) ==
    H # Tablet =>
        \/ SeenList(f, e, "pen") = SeenList(f, e, "sensor")
        \/ \E t \in H, u \in Tablet : u # t /\ SeenList(f, e, u) = {} /\ Fresh(f, m, t)

SameAfter(f, H) == H = Tablet => ListOf(f, "pen") = ListOf(f, "sensor")

MakerHandled(m, H) == m # <<>> => \E u \in H : m = UniqueDeviceId(u)

Shared(f, e, l, m, H) ==
    /\ GoodFile(f) /\ e \subseteq Group /\ l \in LastProfiles
    /\ MakerHandled(m, H)
    /\ HandledSet(f, e, H)
    /\ SameBefore(f, e, m, H)
    /\ SameAfter(f, H)

\* The settings module has been used with both halves only, and shows what is there.
Chosen ==
    /\ handled # Tablet => name = NoName /\ deleted = {}
    /\ name # NoName => name \in ListOf(file, "pen")
    /\ deleted \cap ListOf(file, "pen") = {}

IInv ==
    /\ Shared(file, entry, last, maker, handled)
    /\ Chosen
    /\ controlled \subseteq handled /\ handled \subseteq Tablet
    /\ name \in Name \cup {NoName}
    /\ deleted \subseteq Name
    /\ acts \in 0 .. MaxActs

-----------------------------------------------------------------------------
(* Setting a profile keeps it. *)

LEMMA HandledSeen ==
    ASSUME NEW f, NEW e, NEW H, HandledSet(f, e, H), NEW t \in H
    PROVE  /\ SeenGroup(f, e, t) = UniqueDeviceId(t)
           /\ SeenList(f, e, t) = ListOf(f, t) /\ ListOf(f, t) # {}
BY DEF HandledSet, SeenGroup, SeenList, ListOf

LEMMA UnseenEmpty ==
    ASSUME NEW f, NEW e, NEW t, SeenList(f, e, t) = {}
    PROVE  ListOf(f, t) = {}
BY DEF SeenGroup, SeenList, ListOf

\* What happens to the group of one tablet does not change which one stands for another.
LEMMA SeenElsewhere ==
    ASSUME NEW f, NEW f2, NEW e, NEW t \in Tablet, NEW u \in Tablet, u # t,
           \A h \in Group \ {UniqueDeviceId(t)} : SameGroup(f, f2, h)
    PROVE  /\ SeenGroup(f2, e \cup {UniqueDeviceId(t)}, u) = SeenGroup(f, e, u)
           /\ SeenList(f2, e \cup {UniqueDeviceId(t)}, u) = SeenList(f, e, u)
           /\ ListOf(f2, u) = ListOf(f, u)
           /\ SameGroup(f, f2, SeenGroup(f, e, u))
<1>1. PICK g \in Group : g = UniqueDeviceId(t)
  BY Ids
<1>2. PICK own \in Group : own = UniqueDeviceId(u) /\ own # g
  BY <1>1, Ids
<1>3. PICK old \in Group : old = LegacyUniqueDeviceId(u) /\ old # g
  BY <1>1, Ids
<1>4. ListProfiles(f2, own) = ListProfiles(f, own) /\ ListProfiles(f2, old) = ListProfiles(f, old)
  BY <1>1, <1>2, <1>3, SameLists
<1>5. SameGroup(f, f2, own) /\ SameGroup(f, f2, old)
  BY <1>1, <1>2, <1>3
<1>6. own \in e \cup {g} <=> own \in e
  BY <1>2
<1> QED BY <1>1, <1>2, <1>3, <1>4, <1>5, <1>6 DEF SeenGroup, SeenList, ListOf

LEMMA OtherTablet ==
    ASSUME NEW t \in Tablet
    PROVE  \E u \in Tablet : u # t /\ \A x \in Tablet : x = t \/ x = u
BY DEF Tablet

LEMMA SetListedKeeps ==
    ASSUME NEW f, NEW e, NEW l, NEW m, NEW H \in SUBSET Tablet, Shared(f, e, l, m, H),
           NEW t \in Tablet, NEW n \in Name \cup {NoName},
           UniqueDeviceId(t) \in entry <=> UniqueDeviceId(t) \in e,
           SeenList(f, e, t) # {},
           NEW r \in SetProfile(f, t, n, e, l, m)
    PROVE  /\ Shared(r.file, r.entry, r.last, r.maker, H \cup {t})
           /\ \A u \in H : ListOf(r.file, u) = ListOf(f, u)
<1>1. PICK g \in Group : g = UniqueDeviceId(t)
  BY Ids
<1>2. PICK u \in Tablet : u # t /\ \A x \in Tablet : x = t \/ x = u
  BY OtherTablet
<1>3. SeenGroup(f, entry, t) = SeenGroup(f, e, t)
  BY DEF SeenGroup
<1>4. PICK old : old = SeenGroup(f, e, t)
  OBVIOUS
<1>5. GoodFile(f) /\ l \in LastProfiles /\ e \subseteq Group
  BY DEF Shared
<1>6. ListProfiles(f, old) # {}
  BY <1>4 DEF SeenList
<1>7. /\ GoodFile(r.file) /\ r.last \in LastProfiles
      /\ r.entry = e \cup {g} /\ r.maker = m
      /\ ListProfiles(r.file, g) = ListProfiles(f, old)
      /\ \A h \in Group \ {g} : SameGroup(f, r.file, h)
      /\ \A q \in Name : FollowsLead(t, r.file[g][q], f[old][q])
  <2>1. SetsListed(f, t, old, e, m, r)
    BY <1>1, <1>3, <1>4, <1>5, <1>6, SetListed
  <2> QED BY <1>1, <2>1 DEF SetsListed
<1>8. /\ SeenGroup(r.file, r.entry, u) = SeenGroup(f, e, u)
      /\ SeenList(r.file, r.entry, u) = SeenList(f, e, u)
      /\ ListOf(r.file, u) = ListOf(f, u)
      /\ SameGroup(f, r.file, SeenGroup(f, e, u))
  BY <1>1, <1>2, <1>7, SeenElsewhere
<1>9. /\ ListOf(r.file, t) = SeenList(f, e, t)
      /\ SeenList(r.file, r.entry, t) = SeenList(f, e, t)
  BY <1>1, <1>4, <1>7 DEF ListOf, SeenList, SeenGroup
<1>10. \A x \in H : SeenGroup(f, e, x) = UniqueDeviceId(x) /\ SeenList(f, e, x) = ListOf(f, x) /\ ListOf(f, x) # {}
  BY HandledSeen DEF Shared
<1>11. HandledSet(r.file, r.entry, H \cup {t})
  <2>1. UniqueDeviceId(t) \in r.entry /\ ListOf(r.file, t) # {}
    BY <1>1, <1>7, <1>9
  <2>2. ASSUME u \in H PROVE UniqueDeviceId(u) \in r.entry /\ ListOf(r.file, u) # {}
    BY <1>7, <1>8, <1>10, <2>2 DEF Shared, HandledSet
  <2> QED BY <1>2, <2>1, <2>2 DEF HandledSet
<1>12. MakerHandled(r.maker, H \cup {t})
  BY <1>7 DEF Shared, MakerHandled
<1>13. CASE SeenList(f, e, "pen") = SeenList(f, e, "sensor")
  <2>1. SeenList(r.file, r.entry, "pen") = SeenList(r.file, r.entry, "sensor")
    BY <1>2, <1>8, <1>9, <1>13, Tablets
  <2>2. SameBefore(r.file, r.entry, r.maker, H \cup {t})
    BY <2>1 DEF SameBefore
  <2>3. ASSUME H \cup {t} = Tablet PROVE ListOf(r.file, "pen") = ListOf(r.file, "sensor")
    <3>1. u \in H
      BY <1>2, <2>3
    <3>2. ListOf(r.file, u) = ListOf(r.file, t)
      BY <1>2, <1>8, <1>9, <1>10, <1>13, <3>1, Tablets
    <3> QED BY <1>2, <3>2, Tablets
  <2> QED BY <1>5, <1>7, <1>8, <1>9, <1>10, <1>11, <1>12, <1>1, <1>2, <2>2, <2>3 DEF Shared, SameAfter
<1>14. CASE SeenList(f, e, "pen") # SeenList(f, e, "sensor") /\ H # Tablet
  <2>1. PICK x \in H, y \in Tablet : y # x /\ SeenList(f, e, y) = {} /\ Fresh(f, m, x)
    BY <1>14 DEF Shared, SameBefore
  <2>2. x = t /\ y = u
    BY <1>2, <2>1
  <2>3. old = g /\ t \in H
    BY <1>1, <1>4, <1>10, <2>1, <2>2
  <2>4. \A d \in DevicesOf(t) : IsStandard(f[g][Default][d])
    BY <1>1, <2>1, <2>2 DEF Fresh
  <2>5. \A d \in DevicesOf(t) : IsStandard(r.file[g][Default][d])
    BY <1>7, <2>3, <2>4, LeadingDevice, NameAssumption DEF IsStandard, FollowsLead
  <2>6. Fresh(r.file, r.maker, t)
    BY <1>1, <1>7, <1>9, <1>10, <2>1, <2>2, <2>3, <2>5 DEF Fresh
  <2>7. SameBefore(r.file, r.entry, r.maker, H \cup {t})
    BY <1>2, <1>8, <2>1, <2>2, <2>3, <2>6 DEF SameBefore
  <2>8. H \cup {t} = H
    BY <2>3
  <2>9. \A v \in H : ListOf(r.file, v) = ListOf(f, v)
    BY <1>2, <1>8, <1>9, <1>10
  <2> QED BY <1>1, <1>5, <1>7, <1>11, <1>12, <1>14, <2>7, <2>8, <2>9 DEF Shared, SameAfter
<1>15. CASE H = Tablet
  <2>1. SeenList(f, e, "pen") = SeenList(f, e, "sensor")
    BY <1>10, <1>15, Tablets DEF Shared, SameAfter
  <2> QED BY <1>13, <2>1
<1> QED BY <1>13, <1>14, <1>15

\* A tablet is only made a profile when it is plugged in for the first time, with nothing
\* in the file; if the other half has been, the daemon makes it there.
LEMMA MadeWhere ==
    ASSUME NEW f, NEW e, NEW l, NEW m, NEW H \in SUBSET Tablet, Shared(f, e, l, m, H),
           NEW t \in Tablet, SeenList(f, e, t) = {}
    PROVE  /\ t \notin H
           /\ \E u \in Tablet :
                 /\ (m = <<>> /\ u = t) \/ m = UniqueDeviceId(u)
                 /\ ListOf(f, u) \subseteq {Default}
                 /\ H # {} => u # t /\ Fresh(f, m, u)
                 /\ H = {} => u = t /\ m = <<>>
<1>1. PICK u \in Tablet : u # t /\ \A x \in Tablet : x = t \/ x = u
  BY OtherTablet
<1>2. \A x \in H : SeenList(f, e, x) # {}
  BY HandledSeen DEF Shared
<1>3. t \notin H
  BY <1>2
<1>4. CASE H = {}
  <2>1. m = <<>>
    BY <1>4 DEF Shared, MakerHandled
  <2>2. ListOf(f, t) \subseteq {Default}
    BY UnseenEmpty
  <2> QED BY <1>3, <1>4, <2>1, <2>2
<1>5. CASE H # {}
  <2>1. u \in H
    BY <1>1, <1>3, <1>5
  <2>2. SeenList(f, e, u) # SeenList(f, e, t)
    BY <1>2, <2>1
  <2>3. SeenList(f, e, "pen") # SeenList(f, e, "sensor")
    BY <1>1, <2>2, Tablets
  <2>4. H # Tablet
    BY <1>3
  <2>5. PICK x \in H : Fresh(f, m, x)
    BY <2>3, <2>4 DEF Shared, SameBefore
  <2>6. x = u
    BY <1>1, <1>3, <2>5
  <2>7. m = UniqueDeviceId(u) /\ ListOf(f, u) \subseteq {Default} /\ Fresh(f, m, u)
    BY <2>5, <2>6 DEF Fresh
  <2> QED BY <1>1, <1>3, <1>5, <2>7
<1> QED BY <1>4, <1>5

LEMMA SetMadeKeeps ==
    ASSUME NEW f, NEW e, NEW l, NEW m, NEW H \in SUBSET Tablet, Shared(f, e, l, m, H),
           NEW t \in Tablet, NEW n \in Name \cup {NoName},
           UniqueDeviceId(t) \in entry <=> UniqueDeviceId(t) \in e,
           SeenList(f, e, t) = {},
           NEW r \in SetProfile(f, t, n, e, l, m)
    PROVE  Shared(r.file, r.entry, r.last, r.maker, H \cup {t})
<1>1. PICK u \in Tablet :
          /\ (m = <<>> /\ u = t) \/ m = UniqueDeviceId(u)
          /\ ListOf(f, u) \subseteq {Default}
          /\ H # {} => u # t /\ Fresh(f, m, u)
          /\ H = {} => u = t /\ m = <<>>
  BY MadeWhere
<1>2. PICK x \in Tablet : x # t /\ \A y \in Tablet : y = t \/ y = x
  BY OtherTablet
<1>3. GoodFile(f) /\ l \in LastProfiles /\ e \subseteq Group
  BY DEF Shared
<1>4. ListProfiles(f, SeenGroup(f, entry, t)) = {}
  BY DEF SeenList, SeenGroup
<1>5. SetsMade(f, t, u, e, r)
  <2>1. ListProfiles(f, UniqueDeviceId(u)) \subseteq {Default}
    BY <1>1 DEF ListOf
  <2> QED BY <1>1, <1>3, <1>4, <2>1, SetMade
<1>6. t \notin H
  BY MadeWhere
<1>7. UniqueDeviceId(t) \in Group
  BY Ids
<1>8. /\ GoodFile(r.file) /\ r.last \in LastProfiles
      /\ r.entry = e \cup {UniqueDeviceId(t)} /\ r.entry \subseteq Group
      /\ r.maker = UniqueDeviceId(u)
      /\ ListOf(r.file, t) = {Default} /\ ListOf(r.file, u) = {Default}
      /\ \A d \in DevicesOf(u) : IsStandard(r.file[UniqueDeviceId(u)][Default][d])
  BY <1>3, <1>5, <1>7 DEF SetsMade, ListOf
<1>9. CASE H = {}
  <2>1. u = t
    BY <1>1, <1>9
  <2>2. Fresh(r.file, r.maker, t)
    BY <1>8, <2>1 DEF Fresh
  <2>3. \A h \in Group \ {UniqueDeviceId(t)} : SameGroup(f, r.file, h)
    BY <1>5, <2>1 DEF SetsMade
  <2>4. SeenList(r.file, r.entry, x) = SeenList(f, e, x)
    BY <1>2, <1>8, <2>3, SeenElsewhere
  <2>5. H # Tablet
    BY <1>9, Tablets
  <2>6. SeenList(f, e, "pen") = SeenList(f, e, "sensor")
    BY <1>9, <2>5 DEF Shared, SameBefore
  <2>7. SeenList(f, e, x) = {}
    BY <1>2, <2>6, Tablets
  <2>8. SameBefore(r.file, r.entry, r.maker, {t})
    BY <1>2, <2>2, <2>4, <2>7 DEF SameBefore
  <2>9. SameAfter(r.file, {t})
    BY <1>2 DEF SameAfter
  <2>10. HandledSet(r.file, r.entry, {t})
    BY <1>8 DEF HandledSet
  <2>11. MakerHandled(r.maker, {t})
    BY <1>8, <2>1 DEF MakerHandled
  <2>12. H \cup {t} = {t}
    BY <1>9
  <2> QED BY <1>8, <2>8, <2>9, <2>10, <2>11, <2>12 DEF Shared
<1>10. CASE H # {}
  <2>1. x \in H
    BY <1>2, <1>6, <1>10
  <2>2. u = x
    BY <1>1, <1>2, <1>10
  <2>3. H \cup {t} = Tablet
    BY <1>2, <2>1
  <2>4. ListOf(r.file, "pen") = ListOf(r.file, "sensor")
    BY <1>2, <1>8, <2>2, Tablets
  <2>5. UniqueDeviceId(x) \in r.entry
    BY <1>8, <2>1 DEF Shared, HandledSet
  <2>6. HandledSet(r.file, r.entry, Tablet)
    BY <1>2, <1>8, <2>2, <2>5 DEF HandledSet
  <2>7. MakerHandled(r.maker, Tablet)
    BY <1>8 DEF MakerHandled
  <2>8. SameBefore(r.file, r.entry, r.maker, Tablet) /\ SameAfter(r.file, Tablet)
    BY <2>4 DEF SameBefore, SameAfter
  <2> QED BY <1>8, <2>3, <2>6, <2>7, <2>8 DEF Shared
<1> QED BY <1>9, <1>10

ListsStand(f, f2, H) == \A u \in H : ListOf(f2, u) = ListOf(f, u)

LEMMA SetKeeps ==
    ASSUME NEW f, NEW e, NEW l, NEW m, NEW H \in SUBSET Tablet, Shared(f, e, l, m, H),
           NEW t \in Tablet, NEW n \in Name \cup {NoName},
           UniqueDeviceId(t) \in entry <=> UniqueDeviceId(t) \in e,
           NEW r \in SetProfile(f, t, n, e, l, m)
    PROVE  /\ Shared(r.file, r.entry, r.last, r.maker, H \cup {t})
           /\ t \in H => ListsStand(f, r.file, H)
<1>1. CASE SeenList(f, e, t) # {}
  BY <1>1, SetListedKeeps DEF ListsStand
<1>2. CASE SeenList(f, e, t) = {}
  <2>1. t \notin H
    BY <1>2, MadeWhere
  <2> QED BY <1>2, <2>1, SetMadeKeeps
<1> QED BY <1>1, <1>2

-----------------------------------------------------------------------------
(* What is said when a profile is set. *)

Stays(f, e, f2, e2, u) ==
    \A n \in Name : \A d \in DevicesOf(u) : Said(f2, e2, u, n, d) = Said(f, e, u, n, d)

\* It stays what it was, the eraser says what the stylus said, or nothing was said.
StaysOrFollows(f, e, f2, e2, u) ==
    \A n \in Name : \A d \in DevicesOf(u) :
        \/ Said(f2, e2, u, n, d) = Said(f, e, u, n, d)
        \/ d = "eraser" /\ Said(f2, e2, u, n, d) = Said(f, e, u, n, "stylus")
        \/ \A x \in DevicesOf(u) : Said(f, e, u, n, x) = {}

LEMMA SilentUnlisted ==
    ASSUME NEW f, NEW g, NEW n \in Name, n \notin ListProfiles(f, g), NEW d \in Device
    PROVE  ModeIn(f[g][n][d]) = {}
BY DeviceNames DEF ListProfiles, GroupExists, ModeIn

LEMMA SetSays ==
    ASSUME NEW f, NEW e, NEW l, NEW m, NEW H \in SUBSET Tablet, Shared(f, e, l, m, H),
           NEW t \in Tablet, NEW n \in Name \cup {NoName},
           UniqueDeviceId(t) \in entry <=> UniqueDeviceId(t) \in e,
           NEW r \in SetProfile(f, t, n, e, l, m)
    PROVE  /\ StaysOrFollows(f, e, r.file, r.entry, t)
           /\ \A u \in Tablet \ {t} : Stays(f, e, r.file, r.entry, u)
<1>1. PICK x \in Tablet : x # t /\ \A y \in Tablet : y = t \/ y = x
  BY OtherTablet
<1>2. GoodFile(f) /\ l \in LastProfiles /\ SeenGroup(f, entry, t) = SeenGroup(f, e, t)
  BY DEF Shared, SeenGroup
<1>3. CASE SeenList(f, e, t) # {}
  <2>1. PICK old : old = SeenGroup(f, e, t)
    OBVIOUS
  <2>2. ListProfiles(f, old) # {}
    BY <1>3, <2>1 DEF SeenList
  <2>3. SetsListed(f, t, old, e, m, r)
    BY <1>2, <2>1, <2>2, SetListed
  <2>4. r.entry = e \cup {UniqueDeviceId(t)} /\ \A h \in Group \ {UniqueDeviceId(t)} : SameGroup(f, r.file, h)
    BY <2>3 DEF SetsListed
  <2>5. SeenGroup(r.file, r.entry, x) = SeenGroup(f, e, x) /\ SameGroup(f, r.file, SeenGroup(f, e, x))
    BY <1>1, <2>4, SeenElsewhere
  <2>6. Stays(f, e, r.file, r.entry, x)
    BY <2>5, SaidMode DEF Stays, SameGroup
  <2>7. SeenGroup(r.file, r.entry, t) = UniqueDeviceId(t)
    BY <2>4 DEF SeenGroup
  <2>8. \A q \in Name : FollowsLead(t, r.file[UniqueDeviceId(t)][q], f[old][q])
    BY <2>3 DEF SetsListed
  <2>9. \A d \in DevicesOf(t) : Leading(t, d) # d => d = "eraser" /\ Leading(t, d) = "stylus"
    BY DEF Leading
  <2>10. StaysOrFollows(f, e, r.file, r.entry, t)
    <3> SUFFICES ASSUME NEW q \in Name, NEW d \in DevicesOf(t)
                 PROVE  \/ Said(r.file, r.entry, t, q, d) = Said(f, e, t, q, d)
                        \/ d = "eraser" /\ Said(r.file, r.entry, t, q, d) = Said(f, e, t, q, "stylus")
      BY DEF StaysOrFollows
    <3>1. Said(r.file, r.entry, t, q, d) = ModeIn(r.file[UniqueDeviceId(t)][q][d])
      BY <2>7, SaidMode
    <3>2. \A y : Said(f, e, t, q, y) = ModeIn(f[old][q][y])
      BY <2>1, SaidMode
    <3>3. \/ ModeIn(r.file[UniqueDeviceId(t)][q][d]) = ModeIn(f[old][q][d])
          \/ ModeIn(r.file[UniqueDeviceId(t)][q][d]) = ModeIn(f[old][q][Leading(t, d)])
      BY <2>8 DEF FollowsLead
    <3> QED BY <2>9, <3>1, <3>2, <3>3
  <2> QED BY <1>1, <2>6, <2>10
<1>4. CASE SeenList(f, e, t) = {}
  <2>1. PICK u \in Tablet :
            /\ (m = <<>> /\ u = t) \/ m = UniqueDeviceId(u)
            /\ ListOf(f, u) \subseteq {Default}
            /\ H # {} => u # t /\ Fresh(f, m, u)
            /\ H = {} => u = t /\ m = <<>>
    BY <1>4, MadeWhere
  <2>2. ListProfiles(f, SeenGroup(f, entry, t)) = {} /\ ListProfiles(f, UniqueDeviceId(u)) \subseteq {Default}
    BY <1>2, <1>4, <2>1 DEF SeenList, ListOf
  <2>3. SetsMade(f, t, u, e, r)
    BY <1>2, <2>1, <2>2, SetMade
  <2>4. \A q \in Name : \A d \in DevicesOf(t) : Said(f, e, t, q, d) = {}
    <3>1. \A q \in Name : q \notin ListProfiles(f, SeenGroup(f, e, t))
      BY <1>4 DEF SeenList
    <3> QED BY <3>1, SilentUnlisted, SaidMode, DeviceNames
  <2>5. StaysOrFollows(f, e, r.file, r.entry, t)
    BY <2>4 DEF StaysOrFollows
  <2>6. CASE u = t
    <3>1. r.entry = e \cup {UniqueDeviceId(t)} /\ \A h \in Group \ {UniqueDeviceId(t)} : SameGroup(f, r.file, h)
      BY <2>3, <2>6 DEF SetsMade
    <3>2. SeenGroup(r.file, r.entry, x) = SeenGroup(f, e, x) /\ SameGroup(f, r.file, SeenGroup(f, e, x))
      BY <1>1, <3>1, SeenElsewhere
    <3>3. Stays(f, e, r.file, r.entry, x)
      BY <3>2, SaidMode DEF Stays, SameGroup
    <3> QED BY <1>1, <2>5, <3>3
  <2>7. CASE u # t
    <3>1. u = x /\ Fresh(f, m, x)
      BY <1>1, <2>1, <2>7
    <3>2. PICK g : g = UniqueDeviceId(x)
      OBVIOUS
    <3>3. ListProfiles(f, g) = {Default} /\ \A d \in DevicesOf(x) : IsStandard(f[g][Default][d])
      BY <3>1, <3>2 DEF Fresh, ListOf
    <3>4. ListProfiles(r.file, g) = {Default} /\ \A d \in DevicesOf(x) : IsStandard(r.file[g][Default][d])
      BY <2>3, <3>1, <3>2 DEF SetsMade
    <3>5. SeenGroup(f, e, x) = g /\ SeenGroup(r.file, r.entry, x) = g
      BY <3>2, <3>3, <3>4 DEF SeenGroup
    <3>6. ASSUME NEW q \in Name, NEW d \in DevicesOf(x)
          PROVE  ModeIn(r.file[g][q][d]) = ModeIn(f[g][q][d])
      <4>1. CASE q = Default
        BY <3>3, <3>4, <4>1 DEF IsStandard
      <4>2. CASE q # Default
        <5>1. q \notin ListProfiles(f, g) /\ q \notin ListProfiles(r.file, g) /\ d \in Device
          BY <3>3, <3>4, <4>2, DeviceNames
        <5> QED BY <5>1, SilentUnlisted
      <4> QED BY <4>1, <4>2
    <3>7. Stays(f, e, r.file, r.entry, x)
      BY <3>5, <3>6, SaidMode DEF Stays
    <3> QED BY <1>1, <2>5, <3>7
  <2> QED BY <2>6, <2>7
<1> QED BY <1>3, <1>4

\* What a call of setProfile for one tablet leaves, the tablets in H having been handled.
SetsOne(f, e, H, t, r) ==
    /\ Shared(r.file, r.entry, r.last, r.maker, H \cup {t})
    /\ t \in H => ListsStand(f, r.file, H)
    /\ StaysOrFollows(f, e, r.file, r.entry, t)
    /\ \A u \in Tablet \ {t} : Stays(f, e, r.file, r.entry, u)

LEMMA SetOne ==
    ASSUME NEW f, NEW e, NEW l, NEW m, NEW H \in SUBSET Tablet, Shared(f, e, l, m, H),
           NEW t \in Tablet, NEW n \in Name \cup {NoName},
           UniqueDeviceId(t) \in entry <=> UniqueDeviceId(t) \in e,
           NEW r \in SetProfile(f, t, n, e, l, m)
    PROVE  SetsOne(f, e, H, t, r)
<1>1. /\ Shared(r.file, r.entry, r.last, r.maker, H \cup {t})
      /\ t \in H => ListsStand(f, r.file, H)
  BY SetKeeps, Zenon
<1>2. /\ StaysOrFollows(f, e, r.file, r.entry, t)
      /\ \A u \in Tablet \ {t} : Stays(f, e, r.file, r.entry, u)
  BY SetSays, Zenon
<1> QED BY <1>1, <1>2 DEF SetsOne

-----------------------------------------------------------------------------
(* The daemon's steps. *)

\* What a call of setProfile, with or without the sensor, leaves of file and settings.
SetsProfiles(t, r) ==
    /\ Shared(r.file, r.entry, r.last, r.maker, handled \cup {t})
    /\ t \in handled => ListsStand(file, r.file, handled)
    /\ \A u \in Tablet : StaysOrFollows(file, entry, r.file, r.entry, u)

LEMMA StaysFollows ==
    ASSUME NEW f, NEW e, NEW f2, NEW e2, NEW u, Stays(f, e, f2, e2, u)
    PROVE  StaysOrFollows(f, e, f2, e2, u)
BY DEF Stays, StaysOrFollows

\* First the tablet, then its sensor: each call says nothing of the other's devices.
LEMMA BothSay ==
    ASSUME NEW f, NEW e, NEW f1, NEW e1, NEW f2, NEW e2,
           StaysOrFollows(f, e, f1, e1, "pen"), Stays(f, e, f1, e1, "sensor"),
           StaysOrFollows(f1, e1, f2, e2, "sensor"), Stays(f1, e1, f2, e2, "pen")
    PROVE  \A u \in Tablet : StaysOrFollows(f, e, f2, e2, u)
<1>1. StaysOrFollows(f, e, f2, e2, "pen")
  BY DEF Stays, StaysOrFollows
<1>2. StaysOrFollows(f, e, f2, e2, "sensor")
  <2> SUFFICES ASSUME NEW n \in Name, NEW d \in DevicesOf("sensor")
               PROVE  \/ Said(f2, e2, "sensor", n, d) = Said(f, e, "sensor", n, d)
                      \/ \A x \in DevicesOf("sensor") : Said(f, e, "sensor", n, x) = {}
    BY DEF StaysOrFollows
  <2>1. d # "eraser"
    BY DEF DevicesOf
  <2>2. \A x \in DevicesOf("sensor") : Said(f1, e1, "sensor", n, x) = Said(f, e, "sensor", n, x)
    BY DEF Stays
  <2>3. \/ Said(f2, e2, "sensor", n, d) = Said(f1, e1, "sensor", n, d)
        \/ \A x \in DevicesOf("sensor") : Said(f1, e1, "sensor", n, x) = {}
    BY <2>1 DEF StaysOrFollows
  <2> QED BY <2>2, <2>3
<1> QED BY <1>1, <1>2, Tablets

LEMMA SetProfilesKeep ==
    ASSUME IInv, NEW t \in Tablet, NEW n \in Name \cup {NoName},
           NEW r \in SetProfiles(t, n, controlled)
    PROVE  SetsProfiles(t, r)
<1>1. Shared(file, entry, last, maker, handled) /\ handled \in SUBSET Tablet /\ controlled \subseteq handled
  BY DEF IInv
<1>2. ASSUME NEW q \in SetProfile(file, t, n, entry, last, maker)
      PROVE  SetsOne(file, entry, handled, t, q)
  BY <1>1, SetOne
<1>3. ASSUME NEW q \in SetProfile(file, t, n, entry, last, maker)
      PROVE  /\ Shared(q.file, q.entry, q.last, q.maker, handled \cup {t})
             /\ t \in handled => ListsStand(file, q.file, handled)
             /\ StaysOrFollows(file, entry, q.file, q.entry, t)
             /\ \A u \in Tablet \ {t} : Stays(file, entry, q.file, q.entry, u)
  BY <1>2 DEF SetsOne
<1>4. CASE r \in SetProfile(file, t, n, entry, last, maker)
  BY <1>3, <1>4, StaysFollows DEF SetsProfiles
<1>5. CASE r \notin SetProfile(file, t, n, entry, last, maker)
  <2>1. t = "pen" /\ "sensor" \in controlled
    BY <1>5 DEF SetProfiles
  <2>2. PICK q \in SetProfile(file, t, n, entry, last, maker) :
            r \in SetProfile(q.file, "sensor", n, q.entry, q.last, q.maker)
    BY <1>5 DEF SetProfiles
  <2>3. /\ Shared(q.file, q.entry, q.last, q.maker, handled \cup {t})
        /\ t \in handled => ListsStand(file, q.file, handled)
        /\ StaysOrFollows(file, entry, q.file, q.entry, t)
        /\ \A u \in Tablet \ {t} : Stays(file, entry, q.file, q.entry, u)
    BY <1>3, <2>2
  <2>4. "sensor" \in handled
    BY <1>1, <2>1
  <2>5. UniqueDeviceId("sensor") \in entry /\ UniqueDeviceId("sensor") \in q.entry
    BY <1>1, <2>3, <2>4 DEF Shared, HandledSet
  <2>6. handled \cup {t} \in SUBSET Tablet
    BY <1>1
  <2>7. PICK f1, e1, l1, m1, H : f1 = q.file /\ e1 = q.entry /\ l1 = q.last /\ m1 = q.maker /\ H = handled \cup {t}
    OBVIOUS
  <2>8. Shared(f1, e1, l1, m1, H) /\ r \in SetProfile(f1, "sensor", n, e1, l1, m1)
    BY <2>2, <2>3, <2>7
  <2>9. H \in SUBSET Tablet /\ "sensor" \in H /\ "sensor" \in Tablet
    BY <2>4, <2>6, <2>7, Tablets
  <2>10. UniqueDeviceId("sensor") \in entry <=> UniqueDeviceId("sensor") \in e1
    BY <2>5, <2>7
  <2>11. SetsOne(f1, e1, H, "sensor", r)
    BY <2>8, <2>9, <2>10, SetOne
  <2>12. /\ Shared(r.file, r.entry, r.last, r.maker, H \cup {"sensor"})
         /\ ListsStand(f1, r.file, H)
         /\ StaysOrFollows(f1, e1, r.file, r.entry, "sensor")
         /\ Stays(f1, e1, r.file, r.entry, "pen")
    BY <2>9, <2>11, Tablets DEF SetsOne
  <2>13. H \cup {"sensor"} = H
    BY <2>9
  <2>14. "sensor" # t
    BY <2>1
  <2>15. Stays(file, entry, f1, e1, "sensor") /\ StaysOrFollows(file, entry, f1, e1, "pen")
    BY <2>1, <2>3, <2>7, <2>14, Tablets
  <2>16. \A u \in Tablet : StaysOrFollows(file, entry, r.file, r.entry, u)
    BY <2>12, <2>15, BothSay
  <2>17. t \in handled => ListsStand(file, r.file, handled)
    BY <2>3, <2>7, <2>12 DEF ListsStand
  <2> QED BY <2>7, <2>12, <2>13, <2>16, <2>17 DEF SetsProfiles
<1> QED BY <1>4, <1>5

\* The settings module's view of the file stands when the lists do.
LEMMA ChosenKeeps ==
    ASSUME IInv, UNCHANGED <<name, deleted>>,
           \/ handled' = handled /\ ListsStand(file, file', handled)
           \/ handled # Tablet
    PROVE  Chosen'
<1>1. PICK list : list = ListOf(file', "pen")
  OBVIOUS
<1>2. CASE handled # Tablet
  <2>1. name' = NoName /\ deleted' = {}
    BY <1>2 DEF IInv, Chosen
  <2> QED BY <2>1 DEF Chosen
<1>3. CASE handled = Tablet
  <2>1. list = ListOf(file, "pen") /\ handled' = Tablet
    BY <1>1, <1>3, Tablets DEF ListsStand
  <2>2. name' # NoName => name' \in list
    BY <2>1 DEF IInv, Chosen
  <2>3. deleted' \cap list = {}
    BY <2>1 DEF IInv, Chosen
  <2> QED BY <1>1, <2>1, <2>2, <2>3 DEF Chosen
<1> QED BY <1>2, <1>3

LEMMA GetLastType ==
    ASSUME NEW l \in LastProfiles, NEW t \in Tablet
    PROVE  GetLastProfile(l, t) \in Name \cup {NoName}
BY Ids DEF GetLastProfile, LastProfiles

LEMMA PlugKeeps ==
    ASSUME IInv, NEW t \in Tablet, Plug(t)
    PROVE  /\ IInv'
           /\ \A u \in Tablet : StaysOrFollows(file, entry, file', entry', u)
<1>1. last \in LastProfiles
  BY DEF IInv, Shared
<1>2. PICK n \in Name \cup {NoName} : n = GetLastProfile(last, t)
  BY <1>1, GetLastType
<1>3. PICK r \in SetProfiles(t, n, controlled) : Becomes(r)
  BY <1>2 DEF Plug
<1>4. SetsProfiles(t, r)
  BY <1>2, <1>3, SetProfilesKeep
<1>5. file' = r.file /\ entry' = r.entry /\ last' = r.last /\ maker' = r.maker
  BY <1>3 DEF Becomes
<1>6. handled' = handled \cup {t} /\ controlled' = controlled \cup {t} /\ UNCHANGED <<name, deleted, acts>>
  BY DEF Plug
<1>7. Shared(file, entry, last, maker, handled)'
  BY <1>4, <1>5, <1>6 DEF SetsProfiles
<1>8. Chosen'
  <2>1. CASE t \in handled
    <3>1. handled' = handled /\ ListsStand(file, file', handled)
      BY <1>4, <1>5, <1>6, <2>1 DEF SetsProfiles
    <3> QED BY <1>6, <3>1, ChosenKeeps
  <2>2. CASE t \notin handled
    <3>1. handled # Tablet
      BY <2>2
    <3> QED BY <1>6, <3>1, ChosenKeeps
  <2> QED BY <2>1, <2>2
<1>9. IInv'
  BY <1>6, <1>7, <1>8 DEF IInv
<1> QED BY <1>4, <1>5, <1>9 DEF SetsProfiles

LEMMA AskedKeeps ==
    ASSUME IInv, NEW t \in Tablet, NEW n \in Name \cup {NoName}, ProfileAsked(t, n)
    PROVE  /\ IInv'
           /\ \A u \in Tablet : StaysOrFollows(file, entry, file', entry', u)
<1>1. PICK r \in SetProfiles(t, n, controlled) : Becomes(r)
  BY DEF ProfileAsked
<1>2. SetsProfiles(t, r)
  BY <1>1, SetProfilesKeep
<1>3. file' = r.file /\ entry' = r.entry /\ last' = r.last /\ maker' = r.maker
  BY <1>1 DEF Becomes
<1>4. /\ t \in handled /\ acts' \in 0 .. MaxActs
      /\ UNCHANGED <<controlled, name, handled, deleted>>
  BY NameAssumption DEF ProfileAsked, IInv
<1>5. handled \cup {t} = handled
  BY <1>4
<1>6. Shared(file, entry, last, maker, handled)'
  BY <1>2, <1>3, <1>4, <1>5 DEF SetsProfiles
<1>7. handled' = handled /\ ListsStand(file, file', handled)
  BY <1>2, <1>3, <1>4 DEF SetsProfiles
<1>8. Chosen'
  BY <1>4, <1>7, ChosenKeeps
<1>9. IInv'
  BY <1>4, <1>6, <1>8 DEF IInv
<1> QED BY <1>2, <1>3, <1>9 DEF SetsProfiles

LEMMA UnplugKeeps ==
    ASSUME IInv, NEW t \in Tablet, Unplug(t)
    PROVE  IInv' /\ UNCHANGED <<file, entry>>
<1>1. /\ controlled' \subseteq controlled /\ acts' \in 0 .. MaxActs
      /\ UNCHANGED <<file, entry, last, maker, name, handled, deleted>>
  BY NameAssumption DEF Unplug, IInv
<1>2. Shared(file, entry, last, maker, handled)'
  BY <1>1 DEF IInv
<1>3. Chosen'
  BY <1>1, ChosenKeeps DEF ListsStand
<1> QED BY <1>1, <1>2, <1>3 DEF IInv

-----------------------------------------------------------------------------
(* The user's steps. *)

\* Both groups have been seen, and both have the profiles there are.
LEMMA UserSees ==
    ASSUME IInv, UserActs
    PROVE  /\ GoodFile(file) /\ handled = Tablet
           /\ ListOf(file, "pen") = ListOf(file, "sensor") /\ ListOf(file, "pen") # {}
           /\ \A t \in Tablet : UniqueDeviceId(t) \in entry
           /\ acts' \in 0 .. MaxActs
<1>1. handled = Tablet
  BY DEF UserActs
<1> QED BY <1>1, Tablets, NameAssumption DEF IInv, Shared, HandledSet, SameAfter, UserActs

\* What is left to show of a step that writes the groups of both halves.
LEMMA UserKeeps ==
    ASSUME IInv, UserActs, UNCHANGED <<entry, last, controlled, maker, handled>>,
           GoodFile(file'),
           ListOf(file', "pen") = ListOf(file', "sensor"), ListOf(file', "pen") # {},
           name' \in Name \cup {NoName}, name' # NoName => name' \in ListOf(file', "pen"),
           deleted' \subseteq Name, deleted' \cap ListOf(file', "pen") = {}
    PROVE  IInv'
<1>1. handled' = Tablet /\ acts' \in 0 .. MaxActs
  BY UserSees
<1>2. Chosen'
  BY <1>1 DEF Chosen
<1>3. HandledSet(file', entry', handled')
  BY <1>1, UserSees, Tablets DEF HandledSet
<1>4. SameBefore(file', entry', maker', handled') /\ SameAfter(file', handled')
  BY <1>1 DEF SameBefore, SameAfter
<1>5. Shared(file', entry', last', maker', handled')
  BY <1>3, <1>4 DEF IInv, Shared
<1>6. Shared(file, entry, last, maker, handled)'
  BY <1>5
<1> QED BY <1>1, <1>2, <1>6 DEF IInv

LEMMA UserSaid ==
    ASSUME IInv, UserActs, NEW f2, NEW t \in Tablet, NEW n, NEW d
    PROVE  Said(f2, entry, t, n, d) = ModeIn(f2[UniqueDeviceId(t)][n][d])
<1>1. SeenGroup(f2, entry, t) = UniqueDeviceId(t)
  BY UserSees DEF SeenGroup
<1> QED BY <1>1, SaidMode

\* The same profiles of both groups.
OnlyProfile(f, f2, n) == \A t \in Tablet, m \in Name \ {n} : f2[UniqueDeviceId(t)][m] = f[UniqueDeviceId(t)][m]

LEMMA IdGroups ==
    /\ UniqueDeviceId("pen") \in Group /\ UniqueDeviceId("sensor") \in Group
    /\ UniqueDeviceId("pen") # UniqueDeviceId("sensor")
    /\ TabletOf(UniqueDeviceId("pen")) = "pen" /\ TabletOf(UniqueDeviceId("sensor")) = "sensor"
BY Ids, Tablets

LEMMA TwoSteps ==
    ASSUME NEW f, NEW f1, NEW f2, NEW n \in Name,
           OnlyAt(f, f1, UniqueDeviceId("pen"), n),
           OnlyAt(f1, f2, UniqueDeviceId("sensor"), n)
    PROVE  OnlyProfile(f, f2, n)
<1>1. \A t \in Tablet : UniqueDeviceId(t) \in Group
  BY Ids
<1> QED BY <1>1, IdGroups DEF OnlyAt, OnlyProfile

LEMMA NewInBoth ==
    ASSUME NEW f, GoodFile(f), NEW n \in Name, NEW f2, f2 = CreateNewProfile(f, n)
    PROVE  /\ GoodFile(f2) /\ OnlyProfile(f, f2, n)
           /\ \A t \in Tablet : ListOf(f2, t) = ListOf(f, t) \cup {n}
<1>1. PICK pen \in Group : pen = UniqueDeviceId("pen")
  BY IdGroups
<1>2. PICK sensor \in Group : sensor = UniqueDeviceId("sensor") /\ sensor # pen
  BY <1>1, IdGroups
<1>3. PICK f1 : f1 = CreateIn(f, pen, n, DevicesOf("pen"))
  OBVIOUS
<1>4. /\ DevicesOf("pen") \in SUBSET Device /\ MainDevice(TabletOf(pen)) \in DevicesOf("pen")
      /\ {"touch"} \in SUBSET Device /\ MainDevice(TabletOf(sensor)) \in {"touch"}
  BY <1>1, <1>2, IdGroups DEF DevicesOf, MainDevice, Device
<1>5. GoodFile(f1) /\ OnlyAt(f, f1, pen, n) /\ GroupExists(f1[pen][n])
  BY <1>3, <1>4, Created
<1>6. PICK f3 : f3 = CreateIn(f1, sensor, n, {"touch"})
  OBVIOUS
<1>7. GoodFile(f3) /\ OnlyAt(f1, f3, sensor, n) /\ GroupExists(f3[sensor][n])
  BY <1>4, <1>5, <1>6, Created
<1>8. OnlyProfile(f, f3, n)
  BY <1>1, <1>2, <1>5, <1>7, TwoSteps
<1>9. ListProfiles(f1, pen) = ListProfiles(f, pen) \cup {n} /\ ListProfiles(f1, sensor) = ListProfiles(f, sensor)
  <2>1. pen \in Group /\ sensor \in Group /\ sensor # pen
    BY <1>1, <1>2
  <2>2. ListProfiles(f1, pen) = ListProfiles(f, pen) \cup {n}
    BY <1>5, <2>1, ListWith
  <2>3. ListProfiles(f1, sensor) = ListProfiles(f, sensor)
    BY <1>5, <2>1, ListsElsewhere
  <2> QED BY <2>2, <2>3
<1>10. ListProfiles(f3, pen) = ListProfiles(f1, pen) /\ ListProfiles(f3, sensor) = ListProfiles(f1, sensor) \cup {n}
  <2>1. pen \in Group /\ sensor \in Group /\ sensor # pen
    BY <1>1, <1>2
  <2>2. ListProfiles(f3, sensor) = ListProfiles(f1, sensor) \cup {n}
    BY <1>7, <2>1, ListWith
  <2>3. ListProfiles(f3, pen) = ListProfiles(f1, pen)
    BY <1>7, <2>1, ListsElsewhere
  <2> QED BY <2>2, <2>3
<1>11. \A t \in Tablet : UniqueDeviceId(t) = pen \/ UniqueDeviceId(t) = sensor
  BY <1>1, <1>2, Tablets
<1>12. f2 = f3
  BY <1>1, <1>2, <1>3, <1>6 DEF CreateNewProfile
<1> QED BY <1>12, <1>7, <1>8, <1>9, <1>10, <1>11 DEF ListOf

LEMMA EmptyGood ==
    ASSUME NEW t PROVE GoodGroup(t, NoEntries) /\ ~GroupExists(NoEntries)
<1>1. \A d \in DeviceGroup : NoEntries[d] = {}
  BY DEF NoEntries
<1>2. NoEntries \in ProfileGroup
  BY DEF NoEntries, ProfileGroup
<1>3. ~GroupExists(NoEntries)
  BY <1>1 DEF GroupExists
<1>4. \A d \in Device : Single(NoEntries[d])
  BY <1>1, DeviceNames DEF Single
<1> QED BY <1>2, <1>3, <1>4 DEF GoodGroup

LEMMA Deleted ==
    ASSUME NEW f, GoodFile(f), NEW g \in Group, NEW n \in Name, NEW f2, f2 = DeleteProfile(f, g, n)
    PROVE  /\ GoodFile(f2) /\ OnlyAt(f, f2, g, n)
           /\ ListProfiles(f2, g) = ListProfiles(f, g) \ {n}
<1>1. PICK none : none = NoEntries
  OBVIOUS
<1>2. GoodGroup(TabletOf(g), none) /\ ~GroupExists(none)
  BY <1>1, EmptyGood
<1>3. f2 = Puts(f, g, n, none)
  BY <1>1, NameAssumption DEF DeleteProfile, Puts
<1>4. GoodFile(f2) /\ f2[g][n] = none /\ OnlyAt(f, f2, g, n)
  BY <1>2, <1>3, Put
<1>5. ~GroupExists(f2[g][n])
  BY <1>2, <1>4
<1> QED BY <1>4, <1>5, ListWithout

LEMMA DeletedInBoth ==
    ASSUME NEW f, GoodFile(f), NEW n \in Name, NEW f2,
           f2 = DeleteProfile(DeleteProfile(f, UniqueDeviceId("pen"), n), UniqueDeviceId("sensor"), n)
    PROVE  /\ GoodFile(f2) /\ OnlyProfile(f, f2, n)
           /\ \A t \in Tablet : ListOf(f2, t) = ListOf(f, t) \ {n}
<1>1. PICK pen \in Group : pen = UniqueDeviceId("pen")
  BY IdGroups
<1>2. PICK sensor \in Group : sensor = UniqueDeviceId("sensor") /\ sensor # pen
  BY <1>1, IdGroups
<1>3. PICK f1 : f1 = DeleteProfile(f, pen, n)
  OBVIOUS
<1>4. GoodFile(f1) /\ OnlyAt(f, f1, pen, n) /\ ListProfiles(f1, pen) = ListProfiles(f, pen) \ {n}
  BY <1>1, <1>3, Deleted
<1>5. f2 = DeleteProfile(f1, sensor, n)
  BY <1>1, <1>2, <1>3
<1>6. GoodFile(f2) /\ OnlyAt(f1, f2, sensor, n) /\ ListProfiles(f2, sensor) = ListProfiles(f1, sensor) \ {n}
  BY <1>2, <1>4, <1>5, Deleted
<1>7. OnlyProfile(f, f2, n)
  BY <1>1, <1>2, <1>4, <1>6, TwoSteps
<1>8. ListProfiles(f1, sensor) = ListProfiles(f, sensor) /\ ListProfiles(f2, pen) = ListProfiles(f1, pen)
  BY <1>1, <1>2, <1>4, <1>6, ListsElsewhere
<1>9. \A t \in Tablet : UniqueDeviceId(t) = pen \/ UniqueDeviceId(t) = sensor
  BY <1>1, <1>2, Tablets
<1> QED BY <1>4, <1>6, <1>7, <1>8, <1>9 DEF ListOf

LEMMA OtherProfilesStay ==
    ASSUME IInv, UserActs, entry' = entry, NEW n, OnlyProfile(file, file', n),
           NEW t \in Tablet, NEW m \in Name, m # n, NEW d
    PROVE  Said(file', entry', t, m, d) = Said(file, entry, t, m, d)
<1>1. file'[UniqueDeviceId(t)][m] = file[UniqueDeviceId(t)][m]
  BY DEF OnlyProfile
<1>2. PICK f2 : f2 = file'
  OBVIOUS
<1>3. Said(f2, entry, t, m, d) = ModeIn(f2[UniqueDeviceId(t)][m][d])
  BY UserSaid
<1>4. Said(file, entry, t, m, d) = ModeIn(file[UniqueDeviceId(t)][m][d])
  BY UserSaid
<1> QED BY <1>1, <1>2, <1>3, <1>4

LEMMA AddKeeps ==
    ASSUME IInv, NEW n \in Name, AddProfile(n)
    PROVE  IInv' /\ OnlyProfile(file, file', n)
<1>1. /\ UserActs /\ file' = CreateNewProfile(file, n) /\ name' = n /\ deleted' = deleted \ {n}
      /\ UNCHANGED <<entry, last, controlled, maker, handled>>
  BY DEF AddProfile
<1>2. GoodFile(file) /\ ListOf(file, "pen") = ListOf(file, "sensor")
  BY <1>1, UserSees
<1>3. PICK f2 : f2 = file'
  OBVIOUS
<1>4. /\ GoodFile(f2) /\ OnlyProfile(file, f2, n)
      /\ \A t \in Tablet : ListOf(f2, t) = ListOf(file, t) \cup {n}
  BY <1>1, <1>2, <1>3, NewInBoth
<1>5. ListOf(f2, "pen") = ListOf(file, "pen") \cup {n} /\ ListOf(f2, "sensor") = ListOf(file, "sensor") \cup {n}
  BY <1>4, Tablets
<1>6. deleted \subseteq Name /\ deleted \cap ListOf(file, "pen") = {}
  BY DEF IInv, Chosen
<1>7. IInv'
  BY <1>1, <1>2, <1>3, <1>4, <1>5, <1>6, UserKeeps
<1> QED BY <1>3, <1>4, <1>7

LEMMA SwitchKeeps ==
    ASSUME IInv, NEW n \in Name, SwitchProfile(n)
    PROVE  IInv' /\ UNCHANGED <<file, entry>>
<1>1. /\ UserActs /\ n \in ListOf(file, "pen") /\ name' = n
      /\ UNCHANGED <<file, entry, last, controlled, maker, handled, deleted>>
  BY DEF SwitchProfile, ListOf
<1>2. deleted \subseteq Name /\ deleted \cap ListOf(file, "pen") = {}
  BY DEF IInv, Chosen
<1>3. IInv'
  BY <1>1, <1>2, UserSees, UserKeeps
<1> QED BY <1>1, <1>3

\* One profile is deleted from both groups; when none is left the default one is new.
LEMMA DeleteKeeps ==
    ASSUME IInv, DelProfile
    PROVE  /\ IInv'
           /\ \A m \in Name \ {name, name'} : \A t \in Tablet :
                 file'[UniqueDeviceId(t)][m] = file[UniqueDeviceId(t)][m]
<1>1. /\ UserActs /\ name # NoName /\ file' = Delete(file, name)
      /\ name' \in ListOf(file', "pen") \cup {NoName}
      /\ name' = NoName => ListOf(file', "pen") = {}
      /\ deleted' = (deleted \cup {name}) \ {n \in {Default} : n \in ListOf(file', "pen")}
      /\ UNCHANGED <<entry, last, controlled, maker, handled>>
  BY DEF DelProfile, ListOf
<1>2. /\ GoodFile(file) /\ ListOf(file, "pen") = ListOf(file, "sensor")
      /\ name \in Name /\ deleted \subseteq Name /\ deleted \cap ListOf(file, "pen") = {}
  BY <1>1, UserSees DEF IInv, Chosen
<1>3. PICK f2 : f2 = file'
  OBVIOUS
<1>4. PICK left : left = DeleteProfile(DeleteProfile(file, UniqueDeviceId("pen"), name), UniqueDeviceId("sensor"), name)
  OBVIOUS
<1>5. /\ GoodFile(left) /\ OnlyProfile(file, left, name)
      /\ \A t \in Tablet : ListOf(left, t) = ListOf(file, t) \ {name}
  BY <1>2, <1>4, DeletedInBoth
<1>6. f2 = IF ListOf(left, "sensor") = {} THEN CreateNewProfile(left, Default) ELSE left
  BY <1>1, <1>3, <1>4 DEF Delete, ListOf
<1>7. PICK list : list = ListOf(file, "pen")
  OBVIOUS
<1>8. ListOf(left, "pen") = list \ {name} /\ ListOf(left, "sensor") = list \ {name}
  BY <1>2, <1>5, <1>7, Tablets
<1>9. Default \in Name /\ NoName \notin Name
  BY NameAssumption
<1>10. list \subseteq Name
  BY <1>7 DEF ListOf, ListProfiles
<1>11. CASE list \ {name} = {}
  <2>1. f2 = CreateNewProfile(left, Default)
    BY <1>6, <1>8, <1>11
  <2>2. /\ GoodFile(f2) /\ OnlyProfile(left, f2, Default)
        /\ \A t \in Tablet : ListOf(f2, t) = ListOf(left, t) \cup {Default}
    BY <1>5, <1>9, <2>1, NewInBoth
  <2>3. ListOf(f2, "pen") = {Default} /\ ListOf(f2, "sensor") = {Default}
    BY <1>8, <1>11, <2>2, Tablets
  <2>4. name' = Default
    BY <1>1, <1>3, <2>3
  <2>5. deleted' \subseteq Name /\ deleted' \cap {Default} = {}
    BY <1>1, <1>2, <1>3, <2>3
  <2>6. IInv'
    BY <1>1, <1>3, <1>9, <2>2, <2>3, <2>4, <2>5, UserKeeps
  <2>7. \A m \in Name \ {name, name'} : \A t \in Tablet :
            f2[UniqueDeviceId(t)][m] = file[UniqueDeviceId(t)][m]
    BY <1>5, <2>2, <2>4 DEF OnlyProfile
  <2> QED BY <1>3, <2>6, <2>7
<1>12. CASE list \ {name} # {}
  <2>1. f2 = left
    BY <1>6, <1>8, <1>12
  <2>2. ListOf(f2, "pen") = list \ {name} /\ ListOf(f2, "sensor") = list \ {name}
    BY <1>8, <2>1
  <2>3. name' \in list \ {name}
    BY <1>1, <1>3, <1>12, <2>2
  <2>4. deleted' \subseteq Name /\ deleted' \cap (list \ {name}) = {}
    BY <1>1, <1>2, <1>3, <1>7, <2>2
  <2>5. IInv'
    BY <1>1, <1>3, <1>5, <1>10, <1>12, <2>1, <2>2, <2>3, <2>4, UserKeeps
  <2>6. \A m \in Name \ {name, name'} : \A t \in Tablet :
            f2[UniqueDeviceId(t)][m] = file[UniqueDeviceId(t)][m]
    BY <1>5, <2>1 DEF OnlyProfile
  <2> QED BY <1>3, <2>5, <2>6
<1> QED BY <1>11, <1>12

\* A page of a device that a profile is saved for.
LEMMA PageDevice ==
    ASSUME NEW d \in Device, NEW dev \in Edits(d)
    PROVE  /\ dev \in DeviceProfile
           /\ \A t \in Tablet : d = MainDevice(t) => dev # EmptyDevice
<1>1. dev \in DeviceProfile
  BY DEF Edits, DeviceProfile
<1>2. ASSUME NEW t \in Tablet, d = MainDevice(t) PROVE dev # EmptyDevice
  <2>1. d # "pad"
    BY <1>2 DEF MainDevice, Tablet
  <2>2. dev["Mode"] \in Setting
    BY <2>1 DEF Edits
  <2>3. EmptyDevice["Mode"] = Unset
    BY Keys DEF EmptyDevice
  <2> QED BY <2>2, <2>3, Values
<1> QED BY <1>1, <1>2

LEMMA HomeTablet ==
    ASSUME NEW d \in Device
    PROVE  \E t \in Tablet : HomeOf(d) = UniqueDeviceId(t) /\ d \in DevicesOf(t)
                             /\ \A u \in Tablet \ {t} : d \notin DevicesOf(u)
BY DEF HomeOf, DevicesOf, Tablet, Device

LEMMA SavedPage ==
    ASSUME NEW f, GoodFile(f), NEW n \in Name, NEW d \in Device, NEW dev \in Edits(d),
           NEW t \in Tablet, HomeOf(d) = UniqueDeviceId(t), n \in ListOf(f, t),
           NEW f2, f2 = SaveDeviceProfile(f, n, d, dev)
    PROVE  /\ GoodFile(f2) /\ OnlyAt(f, f2, UniqueDeviceId(t), n)
           /\ GroupExists(f2[UniqueDeviceId(t)][n])
           /\ \A x \in Device \ {d} :
                 ModeIn(f2[UniqueDeviceId(t)][n][x]) = ModeIn(f[UniqueDeviceId(t)][n][x])
<1>1. PICK g \in Group : g = UniqueDeviceId(t) /\ TabletOf(g) = t
  BY Ids
<1>2. PICK old : old = LoadProfile(f, g, n)
  OBVIOUS
<1>3. /\ old \in TabletProfile
      /\ \A x \in Device : ModeOf(GetDevice(old, x)) = ModeIn(f[g][n][x])
      /\ GetDevice(old, MainDevice(t)) # EmptyDevice
  BY <1>1, <1>2, LoadedProfile DEF ListOf
<1>4. PICK new : new = [old EXCEPT ![d] = dev]
  OBVIOUS
<1>5. dev \in DeviceProfile /\ (d = MainDevice(t) => dev # EmptyDevice)
  BY PageDevice
<1>6. new \in TabletProfile
  BY <1>3, <1>4, <1>5 DEF TabletProfile
<1>7. \A x \in Device : new[x] = IF x = d THEN dev ELSE old[x]
  BY <1>3, <1>4 DEF TabletProfile
<1>8. GetDevice(new, d) = dev /\ \A x \in Device \ {d} : GetDevice(new, x) = GetDevice(old, x)
  BY <1>5, <1>7, NoDeviceEmpty DEF GetDevice, HasDevice
<1>9. MainDevice(t) \in Device
  BY DeviceNames
<1>10. GetDevice(new, MainDevice(t)) # EmptyDevice
  BY <1>3, <1>5, <1>8, <1>9
<1>11. PICK made : made = SaveTablet(new)
  OBVIOUS
<1>12. GoodGroup(t, made) /\ GroupExists(made)
  BY <1>6, <1>10, <1>11, SavedGood
<1>13. \A x \in Device : ModeIn(made[x]) = ModeOf(GetDevice(new, x))
  BY <1>6, <1>11, SavedTablet
<1>14. f2 = Puts(f, g, n, made)
  BY <1>1, <1>2, <1>4, <1>11, NameAssumption DEF SaveDeviceProfile, SaveProfile, SetDevice, Puts
<1>15. GoodFile(f2) /\ f2[g][n] = made /\ OnlyAt(f, f2, g, n)
  BY <1>1, <1>12, <1>14, Put
<1> QED BY <1>1, <1>3, <1>8, <1>12, <1>13, <1>15

LEMMA PageKeeps ==
    ASSUME IInv, NEW d \in Device, NEW dev \in Edits(d), SavePage(d, dev)
    PROVE  /\ IInv'
           /\ \A t \in Tablet, n \in Name : \A x \in DevicesOf(t) :
                 ~(n = name /\ x = d) => Said(file', entry', t, n, x) = Said(file, entry, t, n, x)
<1>1. /\ UserActs /\ name # NoName /\ file' = SaveDeviceProfile(file, name, d, dev)
      /\ UNCHANGED <<entry, last, controlled, maker, name, handled, deleted>>
  BY DEF SavePage
<1>2. /\ GoodFile(file) /\ ListOf(file, "pen") = ListOf(file, "sensor") /\ ListOf(file, "pen") # {}
      /\ name \in Name /\ name \in ListOf(file, "pen")
      /\ deleted \subseteq Name /\ deleted \cap ListOf(file, "pen") = {}
  BY <1>1, UserSees DEF IInv, Chosen
<1>3. PICK f2 : f2 = file'
  OBVIOUS
<1>4. PICK t \in Tablet : HomeOf(d) = UniqueDeviceId(t)
  BY HomeTablet
<1>5. name \in ListOf(file, t)
  BY <1>2, <1>4, Tablets
<1>6. /\ GoodFile(f2) /\ OnlyAt(file, f2, UniqueDeviceId(t), name)
      /\ GroupExists(f2[UniqueDeviceId(t)][name])
      /\ \A x \in Device \ {d} :
            ModeIn(f2[UniqueDeviceId(t)][name][x]) = ModeIn(file[UniqueDeviceId(t)][name][x])
  BY <1>1, <1>2, <1>3, <1>4, <1>5, SavedPage
<1>7. \A u \in Tablet : UniqueDeviceId(u) \in Group /\ (UniqueDeviceId(u) = UniqueDeviceId(t) => u = t)
  BY <1>4, Ids
<1>8. ListOf(f2, t) = ListOf(file, t)
  BY <1>2, <1>4, <1>5, <1>6, <1>7, ListWith DEF ListOf
<1>9. \A u \in Tablet : u # t => ListOf(f2, u) = ListOf(file, u)
  BY <1>2, <1>4, <1>6, <1>7, ListsElsewhere DEF ListOf
<1>10. \A u \in Tablet : ListOf(f2, u) = ListOf(file, u)
  BY <1>8, <1>9
<1>11. ListOf(f2, "pen") = ListOf(file, "pen") /\ ListOf(f2, "sensor") = ListOf(file, "sensor")
  BY <1>10, Tablets
<1>12. IInv'
  BY <1>1, <1>2, <1>3, <1>6, <1>11, UserKeeps
<1>13. ASSUME NEW u \in Tablet, NEW n \in Name, NEW x \in DevicesOf(u), ~(n = name /\ x = d)
       PROVE  Said(f2, entry, u, n, x) = Said(file, entry, u, n, x)
  <2>1. /\ Said(f2, entry, u, n, x) = ModeIn(f2[UniqueDeviceId(u)][n][x])
        /\ Said(file, entry, u, n, x) = ModeIn(file[UniqueDeviceId(u)][n][x])
    BY <1>1, UserSaid
  <2>2. CASE n = name /\ u = t
    BY <1>6, <1>13, <2>1, <2>2, DeviceNames
  <2>3. CASE ~(n = name /\ u = t)
    <3>1. f2[UniqueDeviceId(u)][n] = file[UniqueDeviceId(u)][n]
      BY <1>6, <1>7, <2>3 DEF OnlyAt
    <3> QED BY <2>1, <3>1
  <2> QED BY <2>2, <2>3
<1> QED BY <1>1, <1>3, <1>12, <1>13

-----------------------------------------------------------------------------
(* What there is at first. *)

LEMMA OldGood ==
    ASSUME NEW t \in Tablet, NEW v \in Setting
    PROVE  GoodGroup(t, OldProfile(DevicesOf(t), v)) /\ GroupExists(OldProfile(DevicesOf(t), v))
<1> DEFINE group == OldProfile(DevicesOf(t), v)
<1>1. PICK mode : mode = [key |-> [of |-> "Mode", spelled |-> "before"], value |-> v]
  OBVIOUS
<1>2. PICK other : other = [key |-> [of |-> "unknown", spelled |-> "now"], value |-> v]
  OBVIOUS
<1>3. v \in Value \ {Unset}
  BY Values
<1>4. [of |-> "Mode", spelled |-> "before"] \in Key /\ [of |-> "unknown", spelled |-> "now"] \in Key
  BY DEF Key, Property
<1>5. mode \in Entry /\ other \in Entry
  BY <1>1, <1>2, <1>3, <1>4 DEF Entry
<1>6. Known(mode.key) /\ ~Known(other.key) /\ mode.key.of = "Mode"
  BY <1>1, <1>2 DEF Known, Property
<1>7. PICK old : old = {mode, other}
  OBVIOUS
<1>8. OldDevice(v) = old
  BY <1>1, <1>2, <1>7 DEF OldDevice
<1>9. old \subseteq Entry /\ Spoken(old) /\ Single(old) /\ Single({})
  <2>1. old \subseteq Entry
    BY <1>5, <1>7
  <2>2. Spoken(old)
    BY <1>6, <1>7 DEF Spoken
  <2>3. \A x \in old : Known(x.key) => x = mode
    BY <1>6, <1>7
  <2>4. \A x, y \in old : Known(x.key) /\ x.key.of = y.key.of => x.value = y.value
    <3> SUFFICES ASSUME NEW x \in old, NEW y \in old, Known(x.key), x.key.of = y.key.of
                 PROVE  x.value = y.value
      OBVIOUS
    <3>1. Known(y.key)
      BY DEF Known
    <3> QED BY <2>3, <3>1
  <2>5. Single(old)
    BY <2>4 DEF Single
  <2>6. Single({})
    BY DEF Single
  <2> QED BY <2>1, <2>2, <2>5, <2>6
<1>10. \A d \in DeviceGroup : group[d] = IF d \in DevicesOf(t) \cup {"other"} THEN old ELSE {}
  BY <1>8 DEF OldProfile
<1>11. group \in ProfileGroup
  BY <1>8, <1>9 DEF OldProfile, ProfileGroup
<1>12. group[MainDevice(t)] = old
  BY <1>10, DeviceNames
<1>13. \A d \in Device : Single(group[d])
  BY <1>9, <1>10, DeviceNames
<1>14. GroupExists(group)
  BY <1>9, <1>12, DeviceNames DEF GroupExists, Spoken
<1> HIDE DEF group
<1>15. GoodGroup(t, group)
  BY <1>9, <1>11, <1>12, <1>13 DEF GoodGroup
<1> QED BY <1>14, <1>15 DEF group

LEMMA InitIInv == Init => IInv
<1> SUFFICES ASSUME Init PROVE IInv
  OBVIOUS
<1>1. PICK kind \in {"id", "name"}, names \in SUBSET Name, v \in Setting \ {Standard} :
          /\ file = OldFile(kind, names, v)
          /\ entry = IF names = {} THEN {} ELSE {g \in Group : g[2] = kind}
          /\ last \in {l \in [Group -> Name \cup {NoName}] :
                           \A g \in Group : IF names = {} \/ g[2] # kind THEN l[g] = NoName
                                            ELSE l[g] \in names /\ l[g] = l[<<"pen", kind>>]}
  BY DEF Init
<1>2. /\ controlled = {} /\ maker = <<>> /\ name = NoName /\ handled = {} /\ deleted = {}
      /\ acts = 0
  BY DEF Init
<1>3. \A g \in Group, n \in Name :
          file[g][n] = IF g[2] = kind /\ n \in names THEN OldProfile(DevicesOf(g[1]), v) ELSE NoEntries
  BY <1>1 DEF OldFile
<1>4. \A g \in Group, n \in Name :
          /\ GoodGroup(TabletOf(g), file[g][n])
          /\ GroupExists(file[g][n]) <=> g[2] = kind /\ n \in names
  BY <1>1, <1>3, OldGood, EmptyGood, GroupTablet DEF TabletOf
<1>5. GoodFile(file)
  <2>1. \A g \in Group : file[g] = [n \in Name |-> file[g][n]]
    BY <1>1 DEF OldFile
  <2>2. file = [g \in Group |-> file[g]]
    BY <1>1 DEF OldFile
  <2>3. \A g \in Group : file[g] \in [Name -> ProfileGroup]
    BY <1>4, <2>1 DEF GoodGroup
  <2>4. file \in File
    BY <2>2, <2>3 DEF File
  <2> QED BY <1>4, <2>4 DEF GoodFile
<1>6. \A g \in Group : ListProfiles(file, g) = IF g[2] = kind THEN names ELSE {}
  BY <1>1, <1>4 DEF ListProfiles
<1>7. \A t \in Tablet : /\ UniqueDeviceId(t) \in Group /\ UniqueDeviceId(t)[2] = "id"
                        /\ LegacyUniqueDeviceId(t) \in Group /\ LegacyUniqueDeviceId(t)[2] = "name"
  BY DEF UniqueDeviceId, LegacyUniqueDeviceId, Group
<1>8. \A t \in Tablet : SeenList(file, entry, t) = names
  <2> SUFFICES ASSUME NEW t \in Tablet PROVE SeenList(file, entry, t) = names
    OBVIOUS
  <2>1. CASE names = {}
    BY <1>6, <1>7, <2>1, SeenType DEF SeenList
  <2>2. CASE names # {} /\ kind = "id"
    <3>1. ListProfiles(file, UniqueDeviceId(t)) = names
      BY <1>6, <1>7, <2>2
    <3> QED BY <2>2, <3>1 DEF SeenList, SeenGroup
  <2>3. CASE names # {} /\ kind = "name"
    <3>1. ListProfiles(file, UniqueDeviceId(t)) = {} /\ ListProfiles(file, LegacyUniqueDeviceId(t)) = names
      BY <1>6, <1>7, <2>3
    <3>2. UniqueDeviceId(t) \notin entry
      BY <1>1, <1>7, <2>3
    <3> QED BY <3>1, <3>2 DEF SeenList, SeenGroup
  <2> QED BY <1>1, <2>1, <2>2, <2>3
<1>9. SameBefore(file, entry, maker, handled)
  BY <1>8, Tablets DEF SameBefore
<1>10. handled # Tablet
  BY <1>2, Tablets
<1>11. SameAfter(file, handled) /\ HandledSet(file, entry, handled) /\ MakerHandled(maker, handled)
  BY <1>2, <1>10 DEF SameAfter, HandledSet, MakerHandled
<1>12. entry \subseteq Group /\ last \in LastProfiles
  BY <1>1 DEF LastProfiles
<1>13. Shared(file, entry, last, maker, handled)
  BY <1>5, <1>9, <1>11, <1>12 DEF Shared
<1>14. Chosen
  BY <1>2 DEF Chosen
<1>15. acts \in 0 .. MaxActs
  BY <1>2, NameAssumption
<1> QED BY <1>2, <1>13, <1>14, <1>15 DEF IInv

-----------------------------------------------------------------------------
(* Every step. *)

Kept ==
    \A t \in Tablet, n \in Name : \A d \in DevicesOf(t) :
        Said(file', entry', t, n, d) # Said(file, entry, t, n, d) =>
            ChangedByUser(n, d) \/ ChangedByDaemon(t, n, d)

LEMMA FollowingKept ==
    ASSUME \A u \in Tablet : StaysOrFollows(file, entry, file', entry', u)
    PROVE  Kept
BY DEF Kept, StaysOrFollows, ChangedByDaemon

LEMMA Step == IInv /\ [Next]_vars => IInv' /\ Kept
<1> SUFFICES ASSUME IInv, [Next]_vars PROVE IInv' /\ Kept
  OBVIOUS
<1>1. ASSUME UNCHANGED <<file, entry>> PROVE Kept
  <2>1. PICK f2, e2 : f2 = file' /\ e2 = entry'
    OBVIOUS
  <2>2. f2 = file /\ e2 = entry
    BY <1>1, <2>1
  <2>3. \A t, n, d : Said(f2, e2, t, n, d) = Said(file, entry, t, n, d)
    BY <2>2
  <2> QED BY <2>1, <2>3 DEF Kept
<1>2. CASE \E t \in Tablet : Plug(t)
  BY <1>2, PlugKeeps, FollowingKept
<1>3. CASE \E t \in Tablet : Unplug(t)
  BY <1>1, <1>3, UnplugKeeps
<1>4. CASE \E t \in Tablet, n \in Name \cup {NoName} : ProfileAsked(t, n)
  BY <1>4, AskedKeeps, FollowingKept
<1>5. CASE \E n \in Name : SwitchProfile(n)
  BY <1>1, <1>5, SwitchKeeps
<1>6. CASE \E n \in Name : AddProfile(n)
  <2>1. PICK n \in Name : AddProfile(n)
    BY <1>6
  <2>2. IInv' /\ OnlyProfile(file, file', n)
    BY <2>1, AddKeeps
  <2>3. UserActs /\ entry' = entry
    BY <2>1 DEF AddProfile
  <2>4. \A t \in Tablet, m \in Name : \A d \in DevicesOf(t) :
            m # n => Said(file', entry', t, m, d) = Said(file, entry, t, m, d)
    BY <2>2, <2>3, OtherProfilesStay
  <2>5. Kept
    BY <2>1, <2>4 DEF Kept, ChangedByUser
  <2> QED BY <2>2, <2>5
<1>7. CASE DelProfile
  <2>1. IInv' /\ UserActs /\ entry' = entry
    BY <1>7, DeleteKeeps DEF DelProfile
  <2>2. ASSUME NEW t \in Tablet, NEW m \in Name, m \notin {name, name'}, NEW d \in DevicesOf(t)
        PROVE  Said(file', entry', t, m, d) = Said(file, entry, t, m, d)
    <3>1. file'[UniqueDeviceId(t)][m] = file[UniqueDeviceId(t)][m]
      BY <1>7, <2>2, DeleteKeeps
    <3>2. PICK f2 : f2 = file'
      OBVIOUS
    <3>3. /\ Said(f2, entry, t, m, d) = ModeIn(f2[UniqueDeviceId(t)][m][d])
          /\ Said(file, entry, t, m, d) = ModeIn(file[UniqueDeviceId(t)][m][d])
      BY <2>1, UserSaid
    <3> QED BY <2>1, <3>1, <3>2, <3>3
  <2>3. Kept
    BY <1>7, <2>2 DEF Kept, ChangedByUser
  <2> QED BY <2>1, <2>3
<1>8. CASE \E d \in Device : \E dev \in Edits(d) : SavePage(d, dev)
  <2>1. PICK d \in Device : \E dev \in Edits(d) : SavePage(d, dev)
    BY <1>8
  <2>2. PICK dev \in Edits(d) : SavePage(d, dev)
    BY <2>1
  <2>3. /\ IInv'
        /\ \A t \in Tablet, n \in Name : \A x \in DevicesOf(t) :
              ~(n = name /\ x = d) => Said(file', entry', t, n, x) = Said(file, entry, t, n, x)
    BY <2>2, PageKeeps
  <2>4. Kept
    BY <2>2, <2>3 DEF Kept, ChangedByUser
  <2> QED BY <2>3, <2>4
<1>9. CASE UNCHANGED vars
  <2>1. UNCHANGED <<file, entry, last, controlled, maker, name, handled, deleted, acts>>
    BY <1>9 DEF vars
  <2>2. Shared(file, entry, last, maker, handled)'
    BY <2>1 DEF IInv
  <2>3. Chosen'
    BY <2>1, ChosenKeeps DEF ListsStand
  <2> QED BY <1>1, <2>1, <2>2, <2>3 DEF IInv
<1> QED BY <1>2, <1>3, <1>4, <1>5, <1>6, <1>7, <1>8, <1>9 DEF Next

\* Whatever is plugged in, asked for, added, deleted and saved: every profile in the file
\* has its main device, the halves keep the same profiles from the day the second one
\* is there, and what one is made of before is what the other will be.
THEOREM InvariantHolds == Spec => []IInv
<1>1. IInv /\ [Next]_vars => IInv'
  BY Step
<1> QED BY <1>1, InitIInv, PTL DEF Spec

\* The variables keep their types, and what is in the file can be read.
THEOREM Typing == Spec => []TypeOK
<1>1. IInv => TypeOK
  <2> SUFFICES ASSUME IInv PROVE TypeOK
    OBVIOUS
  <2>1. GoodFile(file) /\ file \in File
    BY DEF IInv, Shared, GoodFile
  <2>2. \A g \in Group, n \in Name : LoadProfile(file, g, n) \in TabletProfile
    BY <2>1, LoadedProfile
  <2>3. maker \in Group \cup {<<>>}
    BY Ids DEF IInv, Shared, MakerHandled
  <2>4. file \in [Group -> [Name -> [DeviceGroup -> SUBSET Entry]]]
    BY <2>1 DEF File, ProfileGroup
  <2>5. last \in [Group -> Name \cup {NoName}] /\ entry \subseteq Group
    BY DEF IInv, Shared, LastProfiles
  <2> QED BY <2>2, <2>3, <2>4, <2>5 DEF TypeOK, IInv
<1> QED BY <1>1, InvariantHolds, PTL

\* Both halves of a tablet have the same profiles and at least one, and a profile that
\* was deleted does not come back by itself.
THEOREM AsChosen == Spec => []ProfilesAsChosen
<1>1. IInv => ProfilesAsChosen
  <2> SUFFICES ASSUME IInv PROVE ProfilesAsChosen
    OBVIOUS
  <2>1. HalvesTogether
    BY DEF IInv, Shared, SameAfter, ListOf, HalvesTogether
  <2>2. NeverWithout
    BY DEF IInv, Shared, HandledSet, ListOf, NeverWithout
  <2>3. DeletedStayDeleted
    BY DEF IInv, Chosen, ListOf, DeletedStayDeleted
  <2> QED BY <2>1, <2>2, <2>3 DEF ProfilesAsChosen
<1> QED BY <1>1, InvariantHolds, PTL

\* What a profile says of a device stays until the user changes that device in that
\* profile, however it is spelled and wherever it is kept.
THEOREM KeepsContents == Spec => ContentsKept
<1>1. IInv /\ [Next]_vars => [Kept]_vars
  BY Step
<1>2. Spec => [][Kept]_vars
  BY <1>1, InvariantHolds, PTL DEF Spec
<1>3. ContentsKept <=> [][Kept]_vars
  BY DEF ContentsKept, Kept
<1> QED BY <1>2, <1>3, PTL

=============================================================================
