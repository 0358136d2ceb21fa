# A formal model of the Sonic DE drawing tablet module

TLA+ specifications of the kded daemon, the Plasma applet, the settings module
and the tablet finder of this repository, the TLC configurations that check them
on small instances, and TLAPS proofs of what holds for instances of any size.
Paths below are relative to the repository's `src/` directory unless they start
with `autotests/` or `data/`.

    tlc -workers 2 -config hotplug.cfg MCTabletHotplug
    tlapm TabletProofs.tla

Each `.cfg` names the module it belongs to in the table of runs below.

## The system

| component | state | operations | talks to |
|---|---|---|---|
| X11EventNotifier (`kded/`) | none | `start`, `stop`, `nativeEventFilter` on hierarchy events | X server -> TabletFinder |
| X11TabletFinder, X11Input, X11InputDevice (`kded/`, `common/`) | the tablets of one scan, open handles | `scanDevices`, reading and writing device properties | reads the X server |
| TabletFinder (`kded/`) | a singleton: `tabletList` | `scan`, `onX11TabletAdded`, `onX11TabletRemoved` | TabletDatabase, -> TabletHandler |
| TabletDatabase, LibWacomWrapper, TabletInformation (`common/`) | data files | lookup by id | `tabletdblocalrc`, `data/`, libwacom |
| TabletHandler (`kded/`) | backends, profile managers, records and profile in effect of each tablet | tablets added and removed, `setProfile`, shortcuts, changes of the screens, D-Bus requests | ProfileManager, TabletBackend, -> DBusTabletService |
| TabletBackend and adaptors (`kded/`) | none of their own: the X drivers' | `setProperty`, `setProfile`, `setStatusLED` | `xsetwacom`, XInput, sysfs |
| DBusTabletService (`kded/`) | mirror of records and profiles | D-Bus calls and signals | applet, settings module |
| TabletDaemon (`kded/`) | owns the handler and the service | constructor, destructor | makes the connections |
| ProfileManager, ProfileManagement, config adaptors (`common/`) | `tabletprofilesrc` and a KConfig cache per process | load, save, create, delete; next and previous profile | the file, the other process |
| ScreensInfo, ScreenSpace, ScreenMap, TabletArea (`common/`) | none | which part of the desktop, which part of the tablet | QGuiApplication |
| ButtonShortcut (`common/`) | one shortcut | text of the profile, of the driver and of Qt | pages, adaptors |
| TabletModel (`applet/`) | rows, generation, epochs | discovery, signals, operations of the user | D-Bus, asynchronously |
| settings module (`kcmodule/`) | pages with edits, selected tablet and profile, the rotation list | add, delete, save, apply | ProfileManagement, D-Bus |
| its dialogs (`kcmodule/`) | area selection, calibration, pressure curve, button action | dragging, typing, recording of keys | the page that opened them, the driver |
| tablet finder (`tabletfinder/`) | a form over a list of tablets | edit, map buttons, save | `tabletdblocalrc` |

The daemon has one thread and its connections are direct, so a handler with
all it emits is one step; what runs beside it is the X server, the D-Bus
clients and the other process that writes the same file and the same driver. The
applet is asynchronous throughout.

### What is hard, and what makes each part correct

*Hotplug.* X announces devices, not tablets, one at a time, and a device id is
handed out again as soon as it is free; the daemon scans when it gets round to
it. The finder outlives the daemon object. Correct means: no tablet offered that
is not there, with no device that is not, and three lists that agree.

*Lookup.* What a tablet is comes from three sources with numbers for its buttons
of their own; the finder dialog writes the first of them, and each of its widgets
reports what it is set to as if the user had chosen it. Correct means: the dialog
shows an entry, changes it only by hand, and finds again what it saved.

*The driver.* Devices are found by name, by id and by handle; rotation resets
what the area was; the settings module measures a tablet by resetting its area
while the daemon goes on. Correct means: every tool has what was asked of it last.

*Profile rotation.* A position in a list is stored in a file that another
process edits; the settings module shows the list and sends it back with every
save. Correct means: the walk visits the list, a switch undoes nothing of what the
settings module deleted and ends on a profile that is left, and page and daemon mean
the same list.

*Mapping.* The driver gets a matrix computed from the screens as they were;
the profile says what the user wanted. Correct means: the matrix is that of the
profile and of the screens as they are now, and following the screens loses
nothing the user has saved.

*The applet.* Answers to old questions arrive when the tablet or the service
they were about has gone and come back. Correct means: the rows are the
tablets, show what is in effect, and every operation ends with the truth.

*The settings module.* It edits profiles in one process, the daemon saves whole
profiles from its cache in another; a singleton remembers the first tablet it was
used for; a slot stops in the middle to ask the user, and another one runs inside
it when a tablet goes meanwhile. Its pages meet in the devices of one profile, and
its dialogs show one thing in several widgets that set each other. Correct means:
pages, selectors and file are about one profile of one tablet, what is shown is what
is saved and what the driver does, and no widget undoes what another one did.

*Profile files.* Tablet and touch sensor have a group each, older versions have
groups and keys of other names, and who reads a group may copy or fill it. Correct
means: what was chosen and saved is found, and what was deleted is gone.

`PROJECT.json` lists every component with what is and is not modelled, and the
hazards, each at its line, with the properties about it.

## The modules

### TabletHotplug

X server, notifier, finder, handler and D-Bus service as one chain. `xdevs` and
`events` are the X server's devices and the hierarchy events not yet read;
`tabletList` is the finder's list; `backends`, `managers`, `infos`, `current` are
the handler's hashes and `serviceInfos`, `serviceProfiles` the service's. `XAdd`
and `XRemove` are the environment; every other action is one call of a slot:
`NotifierIgnores`, `OnX11TabletAdded`, `OnX11TabletRemoved` and their early
returns, `Load` and `Unload` (constructor and destructor of TabletDaemon),
`SetProfile`. A scan reads `xdevs` at that moment. An event makes as many calls
as the module was loaded, since the connection of the two singletons is made
again each time. Which profile a tablet gets depends on files: any. `shadowed` is a
history variable: controlled tablets with a device that more records of other tablets
list than removals under way will erase.

### DriverAccess

What a scan reads of the X devices, and who writes to them. `list` are the
devices with their names and properties, `driver` what the driver has under each
id. The daemon reaches a device by name through xsetwacom and through a handle
that was opened once; `todo` holds the writes that `TabletBackend::setProfile`
has still to make, one request each (`Apply`), in the order in which the properties
are defined (`BackendWrites`, `ToolWrites`). `kcm` is the measurement of the settings
module, cut between its requests. `wanted` is a history variable: what profile, screens
and clients have asked of every tool. The driver itself is external: it turns the area
with the tablet, and a request to reset the area may fail.

### TabletLookup

`tabletdblocalrc`, `wacom_devicelist` and libwacom with their own texts and
numbers (a product number in three spellings, buttons as evdev codes, flags as
words), `LookupInformation` as the daemon sees a tablet, `LoadEntry` as the dialog
does. `widgets` are those of the dialog; a step that sets one raises its signal,
which may write into the entry that is selected; `mapping` is the dialog in which the
buttons are pressed one after the other.

### ProfileRotation and RotationPage

`ProfileRotation` has the rotation list of one tablet, `CurrentProfileEntry` and the
set of profiles, in `file` and in the daemon's `cache`, and the profile in effect.
`OnNextProfile` and `OnPreviousProfile` store the position reached and then set the
profile, which reads the file again, falls back if the profile is gone, and stores
the position of the one applied. `SaveCurrent` stands for every handler that saves the
profile in effect from the cache, which may bring back one that was deleted.
`CreateNewProfile`, `DeleteProfile` and, when the last profile is gone, `CreateDefault`
write the file only; the daemon may read it between the last two. Reading behind the end
of a QStringList is undefined, so that step may end the daemon or give no profile's name.

`RotationPage` extends it with the client that is nearest to it, the general page of
the settings module: `rows` and the current `row` are its list widget, `calls` the
D-Bus calls under way, `stage` the slot that waits for an answer of the user or of
the daemon, or has deleted a profile and not yet seen to it that there is another
(`Restore`). Its actions are conjunctions with actions of `ProfileRotation`, so the
composition is checked, and proved, to be an implementation of that module.
`drifted` and `revived` are history variables that say when the page may differ from the
list and when the list may name a profile that is gone.

### ScreenMapping

One tablet (they share nothing), the screens with geometry and orientation, the
profile in effect and what the driver was given: `matrix`, `mode`, `rotation` of
each tool. A matrix is represented by what it was computed from: the target and,
where it matters, the geometry of all screens then. `SavedProfile` and
`MapDevices` are the two halves of `mapDeviceToOutput`; every handler of a
shortcut or of a change of the screens is an action. Names of screens are
numbers because the code sorts them.

### TabletModel and TabletDirectory

The applet and the part of DBusTabletService it sees. `calls` and `inbox` are the
two directions of the bus, in order; `generation`, `epochs`, `nextEpoch`, `rows`
are the members of the class, `sources` what a listener to its signals has been
told; `op` is an operation watched by `watchOperations`. Signals carry the generation
of the interface object whose match rules let them through, because Qt delivers them
to that object only. Of the calls of a discovery two are kept, since what matters is
that values are read at different moments. A call may time out although it is
carried out.

`TabletDirectory` is what all that is for: a list of tablets that never has one that
was not there, changes by one tablet or is emptied, and ends up as the list of those
that are there once they stay as they are. `TabletModel` implements it under the
mapping `there <- present \ Sensor`, `shown <- Shown`; nothing is promised once an
answer was lost, because nothing asks again.

### ProfileSession

The settings module, ProfileManagement, the daemon's `setProfile` and the file
between them. `file` is `tabletprofilesrc`, `cache` the daemon's KConfig of it
(the module reads the file anew each time), both a content for each group and
profile name; `current` and `applied` what the daemon has in effect. `items`,
`selected`, `options`, `shown` are the two combo boxes, `group` and `name` are
ProfileManagement's, `form` and `changed` the pages; `home`, which no code has,
records where the pages were loaded from. `stack` holds what is left of the slots
under way, innermost first: a slot is cut at the question of `showSaveChanges`,
where user and D-Bus signals go on, and at blocking D-Bus calls, where only the
daemon does. A call that is waited for is answered after the `setProfile` calls sent
before it. So `AddProfile`, `SelectTablet` and the others are the slots up to
their first wait, `SwitchProfile`, `ShowConfig`, `FollowProfile` what comes after.
`MapPen` stands for every handler of the daemon that saves the profile in effect
from the cache. A content is one value: `Standard` as createNewProfile writes it,
`Blank` for no entries, or what the user made of the pages.

### SettingsPages and PressureCurve

What is inside a content. `form` has a value for every widget of the stylus,
button, tablet and touch page, named for the device and entry it is loaded from;
`turn` is the group of rotation widgets with what the touch page was `told`. `LoadForm`
and `SaveForm` are the pages one after the other, `SetProfile` the writes of the
daemon, where two entries may be one button of X. The pressure curve dialog talks to
the driver while it is open; `PressureCurve` has its two points in pixels, its text in
per cent, and what the mouse and a pen do to them.

### AreaSelection

The dialog in which a part of the tablet is selected for each screen. `map` is the
controller's ScreenMap in units of the tablet as it is built, `view` the widget with its
area in fractions of a pixel, its four fields and its choice of full or partial; `drag`
is the handle that is held. Filling one field sets the selection from all four,
inside the signal that fills the next. `page` is what the page that opens the dialog
holds. Its map knows a geometry: that of the tablet until a profile is loaded, an empty one
from then on. An area that is empty is stored as that geometry, and shown as the full
tablet either way. Lengths are whole multiples of 1/Den pixel, so
scaling, the margin and rounding are exact. `left` is a history variable: what each
screen showed when it was left.

### ButtonActions

The action of a button: its text in the profile and from the driver as words with signs,
`Set` and `AsText` as the conversions of ButtonShortcut, and the dialog with its three
selectors (`combo`, `boxes`, `recorder`), which clear one another while keys are being
recorded. The dialog has an event loop of its own, in which the page may be loaded for
another tablet or saved; when it is cancelled the page gets back what it was opened with
(`given`). A key Qt cannot resolve cancels the recording, also when there is none: `astray`
is a history variable that says so. The table of keys keeps the rows that have a twin and
one of each other kind.

### ProfileFiles

The groups and keys of `tabletprofilesrc`: a tablet and its touch sensor as two groups,
each with a legacy twin; keys as spelled now or before and unknown ones. Every operation
of ProfileManagement, of the daemon's `setProfile` and of a tablet that is plugged in
starts from the file; caches are ProfileSession's subject.

### Proof modules

`ProfileSessionProofs`, `ProfileFilesProofs`, `SettingsPagesProofs`
and `TabletModelProofs` extend the modules they are about;
`RotationProofs` extends `RotationPage`, and with it `ProfileRotation`. `DriverProofs` is
about what the daemon does to the driver and extends `DriverAccess` and `ScreenMapping`;
`DialogProofs` is about two dialogs of the settings module and extends `ButtonActions` and
`AreaSelection`; `TabletProofs` is about how tablets come and what is known of them and
extends `TabletHotplug` and `TabletLookup`. Two modules of a pair share no variable, and one
names its specification after itself (`MappingSpec`, `AreaSpec`, `LookupSpec`). The
`MC` modules only name values for the configurations.

### How they fit together

| cut | on one side | on the other |
|---|---|---|
| D-Bus service | `TabletHotplug` shows its mirror to be the handler's lists (`ListsAgree`) | `TabletModel` starts from that mirror |
| record of a tablet | `TabletLookup`: from databases | `TabletHotplug`, `SettingsPages`: any |
| profile in effect | `ProfileRotation`, `ProfileSession`: which one | `ScreenMapping`, `DriverAccess`: what it makes the driver do |
| content of a profile | `ProfileSession`: one value, two processes | `SettingsPages`, `ProfileFiles`: what is in it, one process |
| shortcut, curve, area | `SettingsPages`: a text | `ButtonActions`, `PressureCurve`, `AreaSelection`: what it says |

## The runs

| run | module | instance | shows |
|---|---|---|---|
| `hotplug` | `MCTabletHotplug` | pen, touch sensor and a mouse, two types of device, 3 ids, 6 devices that come or go, 3 events waiting, two loads | `TypeOK`, `ListsAgree`, `NothingLeftBehind`, `GhostIsDropped` |
| `lookup` | `MCTabletLookup` | 5 tablets: a pen tablet and its sensor in the device list, three that only libwacom has, two of them with a sensor; 5 acts | `LookupTypeOK`, `DialogIsTrue` |
| `driver` | `MCDriverAccess` | pen, finger and a mouse, 2 ids, 3 plugs, 3 calls, two profiles | `TypeOK`, `TabletDoesAsAsked`, `MeasuresWhole` |
| `rotation` | `MCProfileRotation` | 3 profiles, every list of up to three names without a duplicate and some with; page of 3 rows, 5 acts | `TypeOK`, `PageAndListAgree`, `WalkFollowsList`, `SwitchesRespectDeletion` |
| `mapping` | `MCScreenMapping` | up to 3 screens, 2 geometries, 2 orientations, all three tools, a monitor, a region and a speed as mappings | `MappingTypeOK`, `MatrixFollowsProfile`, `EraserFollowsStylus`, `ScreensOnlyAct` |
| `model` | `MCTabletModel` | a pen and a touch sensor, 4 changes of the service, one operation, one timeout | `TypeOK`, `RowsAreTrue`, `SuccessIsReal`, `OperationEnds`, `ImplementsDirectory` |
| `session` | `MCProfileSession` | 2 tablets, 2 profiles, 1 edit, 4 acts, one tablet comes or goes | `TypeOK`, `PagesAreOfProfile`, `SelectorsAgree`, `DaemonIsCurrent` |
| `session_edits` | `MCProfileSession` | the same with 3 acts and no hotplug | a violation: changes can be saved to another profile than theirs |
| `pages` | `MCSettingsPages` | 3 profiles (with defaults, by hand or of an older version, not there yet), 3 tablets, on one of which two buttons are one of X, 4 acts | `TypeOK`, `SavedIsShown`, `TouchTurnsWithPage`, `DriverDoesAsShown` |
| `area` | `MCAreaSelection` | tablet of 30 by 20 units, desktop, two monitors and a region, 2 rotations, 5 acts | `AreaTypeOK`, `AreasAreTrue`, `ShownAsLeft`, `SelectionFollowsMouse` |
| `keys` | `MCButtonActions` | 12 texts, one more that is loaded while the dialog is open, 8 key presses, 2 mouse buttons | `TypeOK`, `SelectorsShowShortcut`, `WrittenIsRead` |
| `files` | `MCProfileFiles` | 2 names, 2 settings, tablet and sensor with all their groups, 4 acts | `TypeOK`, `ProfilesAsChosen`, `ContentsKept` |

Every property of a passing run has a mutant of the code in `PROJECT.json` that
it rejects; the mutants stand in the modules beside the definitions they change.

Some hazards of this code do go wrong, in a way the code's authors seem to have
accepted, or with no document to hold them against. A property then leaves that one way
out by name, with a history variable or a condition in its text, so that every other
way is still checked: `shadowed` (TabletHotplug: a tablet whose ids older records
list), `drifted` and `revived` (RotationPage), `drifted` (TabletModel:
the settings of a tablet whose profile was changed), `maker` (ProfileSession: the
default profile that is overwritten), `crossed` (DriverAccess: an area that two
processes wrote at one time), `reset` (SettingsPages: a profile without a curve has
none to go back to), `astray` (ButtonActions: a recorder that lost its key to one Qt
does not know), the exceptions listed at `SavedIsShown` and `FoundAsSaved`, and
`FinderForgets` before the first restart.

### Finding

`session_edits` checks a sentence of `kcmodule/kcmwacomtabletwidget.h` against the code:
adding a profile while there are unsaved changes saves them, if the user says so, to the
new profile, and the old one loses them. `PROJECT.json` quotes it.

Two comments the models do not bear out; the properties say what does hold:

- `kcmodule/buttonpagewidget.cpp:104` counts on a button that another one is mapped to being
  mapped elsewhere itself. The Cintiq 21UX2 (`data/wacom_devicelist`,
  `[00CC]`) has 18 buttons and numbers for ten of them: number 7 is mapped to X button 11,
  and number 11 is not mapped at all, so the two are one for the driver and the later one
  wins; what the page shows for number 7 is not done. For tablets known to libwacom, or
  entered in the tablet finder, it is up to the codes given there. One tablet of `pages` is
  such a tablet; `DriverDoesAsShown` speaks of the button that wins.
- `kcmodule/keysequenceinputbutton.cpp:145` says "ignore everything if we are not recording",
  but a key Qt cannot resolve cancels before that (`:129`) a recording that is not there. The
  button then shows what it had when one last began, while the dialog keeps its shortcut;
  `SelectorsShowShortcut` exempts it (`astray`).

Met on the way, with no document to hold them against, and not listed as findings:

- Removing any X device of a tablet drops the tablet until all is plugged in again, and
  a tablet is known from its first X device on: those that follow are not added
  (`kded/tabletfinder.cpp:145`, `:101`).
- The finder can list a tablet twice, when its second device is announced after a scan
  that saw only the first; the handler refuses the second record, a removal erases only
  the first. The record left over keeps the ids it had. When one of them is handed to a
  device of another tablet, the device is taken for known, and its removal erases the
  record left over: the other tablet is offered with a device it has lost
  (`kded/tabletfinder.cpp:101`, `:145`).
- `previousProfile` does not look at the length of the list
  (`common/profilemanager.cpp:199`); a list that names a profile twice traps "next
  profile" at its first mention (`:149`).
- A deleted profile comes back into the rotation list with the save that its deletion
  asks about, or with a list under way (`kcmodule/kcmwacomtabletwidget.cpp:234`).
- A profile that changes while the applet discovers the tablet is never shown
  (`applet/tabletmodel.cpp:295`).
- Setting an auto-rotating profile mapped to the desktop on a single, turned screen turns
  the tablet back; turning the screen afterwards does rotate it
  (`kded/tablethandler.cpp:518`).
- A default profile made for a second tablet overwrites that of the first
  (`common/profilemanagement.cpp:52`); changes saved when another tablet is selected
  are not applied to the tablet they were made for until it is selected again; discarded
  changes are asked about again.
- The check boxes for automatic rotation keep what the profile shown before had, until
  a rotation of the new profile sets them (`kcmodule/tabletpagewidget.cpp:258`).
- The sensor of a tablet is compared as text, with leading zeros and case as they were
  written (`common/tabletdatabase.cpp:191`); right and middle mouse button change places
  between Qt and X (`tabletfinder/hwbuttondialog.cpp:25`); LEDs on the left side only are
  read back as on the right only.

### Bounds, and why they are enough

*TabletHotplug.* `MaxId`, `MaxUnits`, `MaxEvents`, `MaxChanges`, `MaxLoads`: two ids are
enough for an id to belong to another tablet when its event is served, but it takes three
for a record left over to claim the id of a tablet that is controlled through another
device; with two `NothingLeftBehind` would hold of every tablet. Six devices that come or
go are enough for that: TLC finds it without the exemption. Three events waiting let an
event be served after the state it was about has changed twice. Two loads give double
delivery and a list left by an earlier life. Every tablet of the instance has a name;
the proofs cover those that have none.

*ProfileRotation, RotationPage.* `Lists`: every list of up to three names without a
duplicate, and some with, are the cases the position arithmetic tells apart. `MaxRows` and
`MaxActs` bound the editing: two edits, a save, a deletion and an answer. The module is
open or closed for good (`isOpen`): with it open nobody else writes list and profiles,
with it closed any client does.

*ScreenMapping.* Three screens: the primary one can be first, middle or last by name,
and one can be gone while more than one is left. `ClientTools`, `ClientRotations` and
`Contents` keep the values D-Bus clients and the settings module put in few; the
handlers treat all tools alike.

*TabletModel.* `MaxChanges = 4`: a tablet comes, goes, comes again, and the service
restarts or the profile changes in one of the gaps. One operation: a second one waits for
the first. One value of `setRotation` is tried.

*ProfileSession.* Four acts: an edit, an act that asks, what is done while or after it is
answered, and a shortcut; one tablet that comes or goes is enough for a slot inside a
waiting one. Two hotplugs with three acts were checked as well and show no more.

*SettingsPages, PressureCurve.* `Buttons` has three of the eighteen, `Edits` one or two
values for each kind of widget, `Spaces` the spaces an area can be selected for,
`MousePoints` both ends of the diagonal and a point out of the widget that is no whole per
cent. Two of the three tablets differ in whether touch is built in, in what the pad has, and
in which X button one of its buttons is. The third has two buttons for one of X, as the
Cintiq 21UX2 has.

*AreaSelection.* The tablet's sides are multiples of ten, so that the margin around it
is a whole number of units; `TargetSize` makes the scale a fraction that does not divide
a pixel, so rounding matters. With locked proportions a drag is followed only where the
other side comes out whole (`LandsOnGrid`) and as long as the area is within `Reach` of the
tablet, off which it could be pushed ever further. It can be pulled to nothing, so empty
areas are among those that are kept and saved, with both geometries of the map
(`Geometries`). Mouse positions are on, beside and off the handles.

*ButtonActions.* `Spelling` and `Numerals` list the names of keys and numbers the texts
use; `KeyPresses` has each kind: letter, digit, sign, a key whose name is two words, with and
without modifiers, a modifier alone, one that is never recorded, one Qt cannot resolve. `Reloads` has
one text, as all that matters is that it differs from what the dialog was opened with.

*TabletLookup.* `Starts`: the list is empty or has two tablets when the finder is opened.
`ButtonNumbers` and `XButtons`: no buttons and two, and buttons of X before and after
those of the wheel.

*DriverAccess.* `Word` stands for 2^32 and keeps its wrap-around; `MaxPlugs`, `MaxCalls`:
a tablet comes and one device goes, a profile, a client and a measurement get in between.
Devices have names of their own. Quarter turns are left out as they would swap the axes of
what is compared besides; a rotation that is no word the program knows is written as none
(`RotationOf`). The assumptions on the constants say what is in a profile:
an area and a screen space for every tool, as mapping leaves them in all that the pages
saved, a word for what is switched, and a rotation of its own for no tool when the stylus
follows the screen: the others follow it as well, straight or inverted, or have none.

*ProfileFiles.* Two names and two settings tell a profile from another and a changed one
from one that was not; the file is read and written as a whole, one operation at a time.
A tablet is controlled by its legacy groups before anything was written for it
(`handled`). Mapping writes an area always, and leaves a screen space that is unset unset.

### Fairness

`TabletHotplug!FairSpec`: weak fairness of the event loop while the module is
loaded - Qt serves the X connection. `TabletModel!FairSpec`: weak fairness of the
bus and the daemon answering and of the applet's event loop; a call that is not
answered times out. Nothing is assumed about the X server, users, or tablets. The
liveness of `TabletDirectory` is stated as what holds for good once the tablets stay as
they are, not as fairness of its steps.

## The proofs

All are of the module's specification for any value of the constants that meets the
assumptions stated in the modules: finite or infinite sets of tablets, screens and
profiles (the tablets of `TabletLookup` are finitely many), any bounds.

*TabletProofs*, of `TabletHotplug`. `ListsAgree` is not inductive: a removal takes the
first record that lists the id, and only if that record's tablet is the one
dropped do the lists agree. The inductive invariant `IInv` is the conjunction of the
types, `ControlledIsListed` and `ServiceMirrorsHandler`, none of which is
inductive alone; one lemma per slot. Assumption: a touch
sensor has no touch sensor of its own, which is so in `data/wacom_devicelist`.

`NothingLeftBehind` speaks of a time without events; what makes it true is that before,
the event that will erase a record is under way. `Claimed` says so. The record of a
controlled tablet is `Rooted`: one of its devices is listed by no older record, and is
there or its removal is to come. Unless the tablet is shadowed it is also `Intact`: for
each of its devices the removals under way are enough for every older record of another
tablet that lists it (`Ahead`), and if the device is gone there is one more, for itself.
Before the first restart every record is rooted, of a controlled tablet or not. What has
to be counted are places in a sequence that loses one element: `PlacesRemoved` does that
once, for events (`EventTaken`) and for records (`RecordMoves`). Events that no record
is concerned by are one lemma (`ClaimedStays`), whatever they are; a record that is added
stands behind the others, one that is erased is the first to list the id, so a rooted
record is never erased on behalf of another. `NothingIsLeft` draws the conclusion:
without events the number of removals is zero.

*TabletProofs*, of `TabletLookup`. The invariant `LookupInv` has a part for each of the things
the dialog relates. `Shows`: what the widgets show is the entry, and the box of sensors is at
the place of the entry's sensor also while the box is disabled, because the user may make
the tablet a parent at any time and nothing sets the box then. `Entries`: a tablet is in
the list once (`InOrderLists`: as many places as tablets, by counting those before each),
so that the first place found is that of the sensor (`PlaceIsThere`), and it is of one kind:
selecting an entry checks three radio buttons one after the other, and one that was both a
sensor and a parent would be made a parent on the way (`SelectedShows` is that it is left
alone otherwise). `Groups` says the same of what was saved, since it is read again
(`FoundAgain`). `Found`: what the daemon knows of a tablet without a group is what libwacom
gave, as groups are only added. Three assumptions are about data: no group of the device
lists has both `touchsensorid` and `istouchsensor`, as in `data/`; libwacom gives a pad no
code twice, and either codes of keys (`BTN_0` to `BTN_9`, `BTN_BASE` and `BTN_A` with those
that follow) or of a mouse, as its heuristics do, and with others two buttons would be one:
266 and 304 both become 15; and no key of the pad is sent as a button of the wheel.

*RotationProofs*, of the daemon. The invariant of `ProfileRotation` is `TypeOK` and a
bound from below on the position stored in the file and in the cache, which keeps "next"
inside any list that may have been put there since; nothing bounds it from above.
`WalkFollowsList` follows from the arithmetic of positions in a settled state.
`SwitchesRespectDeletion` is about a file that another process has changed behind the
cache: a switch reads the profiles before it looks for one, so what it chooses from, and
what it writes back with the position, is what the settings module left (`SyncedFile`),
and the one it applies is among them (`CandidateApplied`). A switch that used the cache
would bring a deleted profile back, which is what the mutant does.

*RotationProofs*, of the page. `PageImplementsRotation`: every step of the composition is a step of
`ProfileRotation` or leaves its variables alone, if that module's clients may send any
list. So what is proved of `ProfileRotation` holds with the page, and `PageKeepsRotation`
draws that conclusion. `PageAgrees` is `PageAndListAgree` for any number of rows, acts and
profiles. Three parts make it inductive: `Synchronised` (file and daemon have one list,
or the daemon has one it has not written, except between a deletion and the switch that
follows it), `RowsSent` (the rows are what the calls under way will leave the daemon's list
at, unless they drifted), and `NamesKnown` (every name in the file, the cache, the rows and
the calls is that of a profile, unless it was revived). `LeavesAt` gives the list after a
sequence of calls; lemmas say what sending and delivering one does to it.

*DriverProofs*, of `DriverAccess`. `TabletDoesAsAsked` speaks of a time when nothing is left
to write, so its invariant speaks of the writes that are left. `Leads(tool, dev, s, had,
new, exact)` is the relation between what a tool has and what it should have when the
writes `s` lie between: every write of `s` that lands brings what the tool should have;
a property that none of them lands on is as it should be; an area among them is written
again behind every rotation; and if none is, the area there, if it counts (`exact`), is
the one it should have but for the turn still to come.
`ToolInv` says that of every tool: what it has leads by `todo` to what is `wanted`. Then

- a request (`SetProfile`, `ScreenRotated`, `SetProperty`, `OnToggleTouch`) comes when
  `todo` is empty, and its writes lead from anything to what it asks (the section "what a
  request leads to"). This is where the order matters: rotation, screen space and area of
  the mapping are written before those of the profile, and of these Rotate before Area, so
  that no area is turned after it was set;
- a write that is made takes the first one of `todo` and moves what its tool has
  (`LeadsWritten`), or does not land and changes nothing (`LeadsPast`). The
  id it goes to is that of the tool: `IsControlled` has no two tools on one id, and a tool
  that is listed is found by its name and by its handle (`ToolDevice`), so the writes of
  one tool leave the others as they are;
- a device that is unplugged takes its tablet out of the statement (`gone`) until the
  daemon has served it.

The measurement of the settings module comes between these. What counts for a tool is
therefore what it will have when the measurement is over (`Held`), which is what it has
unless the id is the one that is measured; `HeldInv` says that until the reset the area
there is the one that will be put back, and that it can be put back; `crossed` exempts the
area of a device from the moment both processes write it until it is written again. The
same steps give `MeasuresWhole`: while nobody comes between (`alone`), the area in the
driver after the reset is the maximum or the four values of the reset, whichever the
driver took (`MeasureInv`), and the latter are no rectangle.

*DriverProofs*, of `ScreenMapping`. `MappingTypeOK`, `MatrixFollowsProfile` and
`EraserFollowsStylus` are inductive together: lemmas say what mapping all tools or
the pen saves, each handler is one lemma. That following the screens keeps the profile
needs the third: it writes the mapping of the stylus into the eraser's
section, which changes nothing only because it is there already. `ScreensOnlyAct` is
proved for tablets whose eraser comes with a stylus.

*ProfileSessionProofs.* `PagesAreOfProfile` speaks of an idle widget; the invariant
has to say of a busy one that the pages will be loaded before it is idle. That is
a fact about the stack: a dialog never lies at its bottom (`Grounded`), so the
answer to a dialog leaves a slot that goes on, and `PagesAreLoaded`: where pages and
profile disagree a slot is under way. Lemmas say what concatenation and `Tail` do to
a grounded stack and what each writer leaves in the file.

`DaemonIsCurrent` and `SelectorsAgree` speak of a time when nothing is under way; `Follows`
adds to the invariant what is under way before:

- `DaemonFollows`: a slot that is cut short will call the daemon or show nothing. Otherwise
  a call for the selected tablet is under way, or it runs what the file says (`RunsFile`).
  `SetProfileCases` is all that is used of setProfile: it applies a profile that is in the
  file afterwards, and changes the file only for a tablet that had none. A shortcut that
  maps the pen saves what is in the file already, because the cache has it.
- `GoneIsTold`, `GroupFollows`: a tablet the daemon lost is offered only while the signal
  of its removal is under way, and the profiles are the selected tablet's unless a
  selection is still in the stack or the tablet was gone when they were read. When no
  signal is under way neither is possible, which is the half of `SelectorsAgree` that
  holds with hotplugs.
- `Calm`: without hotplugs a stack has one of eight shapes, and every switch in it is to the
  profile the selector shows. That needs that every tablet runs a profile of the file or
  will be told to, or else showConfig would be told of one that the selector does not have.

*TabletModelProofs.* What the applet shows when nothing is under way is right because of
what is under way before, so the invariant `IInv` is about `calls` and `inbox`. Its parts,
each with a lemma `...Kept` that says it survives every step:

- `Numbered`, `Known`: no call or message is about a lifetime that has not begun or a tablet
  that never was. `Listening`, `Dormant`: the match rules of an interface object reach the
  bus before its question for the list, and until they do no message concerns the present
  lifetime of the service. `Owned`: the last message about the owner of the name is true.
- `GoneIsTold`, `PresentIsTold`: a tablet believed to be there is there, or the signal that
  it is not is under way behind everything that brings it; one that is there is known, or
  the list is still asked for, or something under way brings it and nothing behind that
  removes it. `ErrorsAreOld` says that only a timeout can make a question of the present
  lifetime fail, which is why `PresentIsTold` has no exception but `timeouts`.
- `AskedOnce`, `DiscoveryGoesOn`, `NoSensors`: a tablet with an epoch is shown, or exactly
  one question of that epoch is under way, unless it is a touch sensor. The daemon says
  of a touch sensor that was unplugged that it is none; the signal is then ahead of the
  answer and ends the epoch (`EndsBefore`).
- `OrdersAreWatched`, `DoneIsWritten`: the calls of an operation under way are those it
  still counts, and what was answered with success was done, unless the tablet's lifetime
  ends before the answer is read: setProperty for a tablet that is gone is no error.
- `OrdersComeFirst`, `SettingsFollow`: a row, or the answer that will make one, has the
  settings of the tablet, or the operation that set them will still show them; a question
  behind a call of an operation is never of the lifetime before it.
- `RowsAreAlive`, `SourcesAreRows`, `SuccessIsReal`, which are properties themselves.

So that not every part has to be followed through every action, the steps are put into
classes once: one lemma per action (`...Effect`) gives what it takes from the front of a queue,
appends to one and changes besides; `Steps` says that every step is announced, served,
delivered, ordered or a timeout. `RowsTrue`, `SuccessReal` and `Typing` follow from
`IInv`, the first because both queues are empty when all is quiet. `KeepsDirectory` is the
safety half of `ImplementsDirectory`: `Known` gives that what comes to be shown was there,
and `RowStep` that rows change one at a time.

*ProfileFilesProofs.* `ProfilesAsChosen` asks that the two halves of a tablet have the
same profiles. That is a fact about the order of two things: who is plugged in first, and
which tablet a client of ProfileManagement asks for first, as the default profile is made
in that tablet's group and read there (`maker`). The invariant says that the maker is a
tablet that was handled (`MakerHandled`); that until both halves were plugged in they are
seen to have the same profiles, unless the one has nothing and the other only the default
that was made for it (`SameBefore`, `Fresh`), and afterwards always (`SameAfter`); that a
tablet that was handled has a group of its own with a profile in it (`HandledSet`); and
that the settings module shows a profile that is there and none of those that were deleted
(`Chosen`). `SetListed` and `SetMade` are the two ways setProfile may go. Under it lie
lemmas on reading and writing: in every file that comes about (`GoodFile`) a profile that
is there has the tablet's main device, stylus or touch, with a key the program knows and
one value of a property, so it is still there when it was read and written again,
whichever way its keys were spelled. `ContentsKept` is what one write leaves of a device:
each step keeps what a profile says or makes it say what the user asked (`StaysOrFollows`,
`BothSay`). Assumption: no value is the empty string, which `saveConfig` takes for none.

*SettingsPagesProofs.* `TouchTurnsWithPage` is about two entries that different pages write
in different orders, so the proof follows them through the save: `PutWrites` says what one
write leaves alone, one lemma per page says what it does to the two entries
(`TabletPageTurns`, `TouchPageTurns`), `SaveTurnsAlike` composes them, and `SwitchKeeps`
covers the save that an unsaved change asks for on the way to another profile. It is
inductive with the shape of file and selectors; the values of entries and widgets may be
anything.

`SavedIsShown` needs the whole save, entry by entry (`SaveRows`): every entry of the five
pages is written by one of them last, and the others leave it. From there two facts carry
it: a widget that shows a value shows the same when the value is loaded again (`ReadTwice`,
`Readable`), and a form that is loaded from what it saved saves the same (`LoadedAgain`),
also where ring and wheel share entries and the eraser follows the stylus. `PagesInv` says
it of every profile in `saved` and not only of the one that is shown, as another one may be
selected at any time, and that mapping it again changes nothing.

`DriverDoesAsShown` is about two things. Of buttons it says, for any tablet, that a button of
X does what is shown for the last button of the tablet that is mapped to it. It needs that a
profile saved here has entries for the buttons the tablet has and none for others
(`PadIsSaved`), so that of all entries for one button of X the last that is set is that of the
last such button (`SetLast`), which the daemon writes after the others. That no two share
one is not assumed: it is false of a tablet in the device list, see "Finding". Of
curves it needs what the dialog remembers (`IsDialog`): while it is open the form still
has the curve it started with, and that is what cancelling goes back to. The driver never
has a curve it would refuse as the two points are each other's mirror image wherever mouse
and pen are (`Points`), and rounding to per cent keeps that (`PointsAreDrawable`).

The assumptions: what is in a profile at first has no curve or one that was drawn with the
dialog, and is not emptied by being mapped (`PresetAssumption`); texts of curves can be read
back (`TextAssumption`); a curve is set in the dialog only, and no widget has an empty value
to be set to (`InputAssumption`); and buttons of X have names that no other entry of the
driver has (`MapAssumption`).

*DialogProofs*, of `ButtonActions`. A shortcut has one of four shapes (`Valid`): none, a button, stored
modifiers, or words in storage format that Qt gives back as it took them. `SetIsValid` says
that any text at all is read as one of them, `ValidIsRead` that each is read as itself from
what `AsText` and xsetwacom make of it, `ValidShown` that each but none shows in exactly the
selector of its kind. They rest on the tables: storage format is a projection
(`StoredTwice`), what Qt makes of words depends on names that it keeps (`ParsedNames`), and
the last word of a key sequence is never a modifier (`ParsedTyped`), or it would be read as
one. The invariant of the dialog is then short: the shortcuts are valid, also the one the
dialog was given and may have to give back to a page loaded since; the selectors of
an open dialog show the one of the widget (`SetShortcutShows`, once for all handlers), the
recorder unless it is `astray`; and
the page's is what would be read from the profile unless it reports a change. It holds for
any texts, key presses and buttons; the tables and the names of keys are those of the model.

*DialogProofs*, of `AreaSelection`. Nothing is lost between what is shown and what is saved,
for any tablet, size of the widget, screens and input. What is nothing is the full tablet
wherever it is shown again, saved as the geometry of the page's map, and the properties
say so. The rest is about the conversions. A whole number of units, drawn at whatever
scale, with the margin added, is the same number when it is rounded back
(`UnscaledScaled`): the scale is positive (`ScaleIsPositive`, from the greatest common
divisor that puts it in lowest terms), and `Rounded` takes a multiple of it to its factor.
An area that is turned and turned back is itself (`ConvertedBack`), with the same corners
(`CornersAreTurned`). Both would not do if what is shown did not fit: the part of an area
that is larger than the tablet gives way. So the invariant `AreaInv` says that the area of
the view is not larger than the tablet as it is turned (`IsView`), and that what was kept
is not either; every way to set an area leaves that (`EdgesGiveWay`), and a length that
fits fits after it was rounded (`RoundedAtMost`). `FieldsAreFilled` follows the four
fields one by one: each that changes sets the area from old and new numbers mixed, and the
last that changes sets it from the new ones, which are the area there was. The half of
`SelectionFollowsMouse` that is about the mouse is arithmetic of edges, one lemma for each
way to drag; it needs the invariant, since an area wider than a handle says that the
tablet is, and so it can be made to fit. `SizeAssumption` has the sides of the tablet
divisible by ten; the margin is then a whole number of units. What is stored for an empty
area, all of the tablet or no area, is in both cases shown as the full tablet, however it
is turned (`ShownAsLeft`).

Only model-checked: the liveness properties (`GhostIsDropped`, `OperationEnds`) and the
liveness half of `ImplementsDirectory`, which the prover cannot do. Every invariant and
every other action property of a run is a theorem.

## The plan

Done: every component of the program's own logic has a module; hotplug, rotation with
its page, mapping, the session, the file of profiles, the settings pages with driver and
dialog, the shortcuts of buttons, the areas of screens, the driver, the applet and the tablet finder
have proofs.

Next: `TabletHotplug` with the service side of `TabletModel`, as one refinement.

### Not modelled, and why

- Global actions and notifications: registration with KGlobalAccel and KNotification has
  no state of the program's. The slots the actions call are modelled.
- QML, forms, translations, icons, painting, the captions and fonts of the area widget:
  presentation.
- `kded/tabletdaemon.cpp:222`: the slot for a screen that turns outlives the handler it
  captures. What happens then is undefined; `TabletHotplug` has no screens and
  `ScreenMapping` no restart.
- A mode or rotation set over D-Bus is reverted by the next change of the screens, as it is
  not in the profile. `ScreenMapping` has both steps; that it is wrong is nowhere said.
- The D-Bus calls that only read the record of a tablet; the list of operators Enum and
  Property generate from constant tables, which are sets here.
- xsetwacom, libwacom, KConfig, Qt and the driver: external, as the code uses them.
