--------------------------- MODULE TabletHotplug ---------------------------
(***************************************************************************)
(* Hotplug in the kded daemon: from an X device that comes or goes to the  *)
(* list of tablets the daemon offers on D-Bus.                             *)
(*                                                                         *)
(*   X server  --events-->  X11EventNotifier  --slot-->  TabletFinder      *)
(*                              --slot-->  TabletHandler                   *)
(*                              --slot-->  DBusTabletService               *)
(*                                                                         *)
(* The daemon has one thread and every connection is direct, so one call   *)
(* of a TabletFinder slot, with everything it emits, is one step.  The X   *)
(* server runs beside it: it adds and removes devices between two steps,   *)
(* and a scan reads the devices it has now, not those it had when the      *)
(* event being served was sent.                                            *)
(*                                                                         *)
(* A tablet is named by its serial: X11TabletFinder groups devices by the  *)
(* first of the "Wacom Serial IDs", which is the product id of the model,  *)
(* and TabletInformation::set derives the TabletId from that number.       *)
(***************************************************************************)
EXTENDS Naturals, Sequences, SequencesExt, FiniteSets

CONSTANTS
    Tablet,      \* tablet serials; the TabletId is the same number in hex
    Named,       \* the tablets TabletDatabase or libwacom has a name for
    DevType,     \* the tools of a tablet: stylus, eraser, pad, ...
    TouchOf,     \* TouchOf[t]: the tablet that TouchSensorId of t names, or NoTablet
    Profile,     \* profile names
    NoTablet, NoInfo, NoProfile,
    MaxId,       \* bound: X device ids are 1..MaxId
    MaxUnits,    \* bound: X devices of one tablet and one type at the same time
    MaxChanges,  \* bound: devices that come or go
    MaxEvents,   \* bound: hierarchy events waiting in the daemon's X connection
    MaxLoads     \* bound: how often the kded module is loaded

ASSUME TabletAssumption ==
    /\ Tablet \subseteq Nat \ {0}
    /\ NoTablet \notin Tablet
    /\ Named \subseteq Tablet
\* A touch sensor has no touch sensor: so it is in data/wacom_devicelist, and the
\* recursion of setProfile ends after one step.
ASSUME TouchAssumption ==
    /\ TouchOf \in [Tablet -> Tablet \cup {NoTablet}]
    /\ \A t, u \in Tablet : TouchOf[t] = u => TouchOf[u] \in {NoTablet, u}
ASSUME ProfileAssumption == NoProfile \notin Profile
ASSUME BoundAssumption ==
    /\ MaxId \in Nat /\ MaxUnits \in Nat /\ MaxEvents \in Nat /\ MaxLoads \in Nat
    /\ MaxChanges \in Nat

NoId == 0
Id == 1..MaxId
\* A device of another driver, a mouse say, belongs to NoTablet.
XDevice == [id : Id, tablet : Tablet, type : DevType]
           \cup [id : Id, tablet : {NoTablet}, type : {NoTablet}]
Info == [tablet : Tablet, devs : [DevType -> Id \cup {NoId}]]

\* A record with no device at all is no tablet information.
ASSUME InfoAssumption == NoInfo \notin Info

VARIABLES
    xdevs,          \* X server: its devices, in the order XListInputDevices gives
    events,         \* hierarchy events sent and not yet read by the daemon
    running,        \* a TabletDaemon exists
    loads,          \* how often one was created: connections notifier -> finder
    calls,          \* slot calls already made for the event at the head
    tabletList,     \* TabletFinder (a singleton: it outlives the daemon object)
    backends,       \* TabletHandler: tabletBackendList
    managers,       \* TabletHandler: profileManagerList
    infos,          \* TabletHandler: tabletInformationList
    current,        \* TabletHandler: currentProfileList
    serviceInfos,   \* DBusTabletService: tabletInformationList
    serviceProfiles, \* DBusTabletService: currentProfileList
    shadowed,       \* history: controlled tablets with a device that older records claim
    changes         \* what MaxChanges counts

xvars == <<xdevs, events, changes>>
finderVars == <<tabletList>>
handlerVars == <<backends, managers, infos, current>>
serviceVars == <<serviceInfos, serviceProfiles>>
vars == <<xvars, running, loads, calls, finderVars, handlerVars, serviceVars, shadowed>>

-----------------------------------------------------------------------------
(* The X server. *)

\* Devices of tablet t that the X server has.
DevicesOf(t) == {i \in DOMAIN xdevs : xdevs[i].tablet = t}
Connected(t) == DevicesOf(t) # {}

FreeIds == Id \ {xdevs[i].id : i \in DOMAIN xdevs}

\* A device appears, last in the list, with the lowest id that is free: ids come
\* back.  The server tells every client.
XAdd(t, ty) ==
    /\ Len(events) < MaxEvents
    /\ changes < MaxChanges
    /\ changes' = changes + 1
    /\ Cardinality({i \in DevicesOf(t) : xdevs[i].type = ty}) < MaxUnits
    /\ \E d \in FreeIds :
           /\ \A e \in FreeIds : d <= e
           /\ xdevs' = Append(xdevs, [id |-> d, tablet |-> t, type |-> ty])
           /\ events' = Append(events, [kind |-> "added", id |-> d])
    /\ UNCHANGED <<running, loads, calls, finderVars, handlerVars, serviceVars, shadowed>>

\* A device goes.
XRemove(i) ==
    /\ Len(events) < MaxEvents
    /\ changes < MaxChanges
    /\ changes' = changes + 1
    /\ xdevs' = RemoveAt(xdevs, i)
    /\ events' = Append(events, [kind |-> "removed", id |-> xdevs[i].id])
    /\ UNCHANGED <<running, loads, calls, finderVars, handlerVars, serviceVars, shadowed>>

-----------------------------------------------------------------------------
(* X11TabletFinder: one TabletInformation per serial, and in it one device *)
(* per type; of two devices of one type the one listed later stays.        *)

Positions(t, ty) == {i \in DevicesOf(t) : xdevs[i].type = ty}
LastPosition(t, ty) == {i \in Positions(t, ty) : \A j \in Positions(t, ty) : j <= i}
ScannedId(t, ty) ==
    IF LastPosition(t, ty) = {} THEN NoId
    ELSE xdevs[CHOOSE i \in LastPosition(t, ty) : TRUE].id

ScannedInfo(t) == [tablet |-> t, devs |-> [ty \in DevType |-> ScannedId(t, ty)]]

Scan == {ScannedInfo(t) : t \in {u \in Tablet : Connected(u)}}

HasDevice(info, d) == \E ty \in DevType : info.devs[ty] = d

-----------------------------------------------------------------------------
(* TabletHandler::setProfile, as far as the tablet lists see it.  Which    *)
(* profile ends up applied depends on the files; any can, or the one in    *)
(* effect stays when not even a default could be created.  A tablet with a *)
(* touch sensor passes the profile on to the sensor if that is controlled. *)
(* Each application is announced, and the D-Bus service stores it.         *)

Reach(t, controlled) ==
    {t} \cup (IF TouchOf[t] # t /\ TouchOf[t] \in controlled THEN {TouchOf[t]} ELSE {})

ApplyProfile(t, controlled) ==
    \E pick \in [Reach(t, controlled) -> Profile \cup {NoProfile}] :
        /\ \A u \in Reach(t, controlled) : pick[u] \in Profile \cup {current[u]}
        /\ current' = [u \in Tablet |->
               IF u \in Reach(t, controlled) THEN pick[u] ELSE current[u]]
        /\ serviceProfiles' = [u \in Tablet |->
               IF u \in Reach(t, controlled) THEN pick[u] ELSE serviceProfiles[u]]

\* Mutant of HandlerAdded: the manager of the touch sensor is looked up with an
\* operator that inserts, also when the tablet has no touch sensor.
LookupInsertsManager(info) ==
    IF info.tablet \in backends
    THEN UNCHANGED <<handlerVars, serviceVars>>
    ELSE /\ backends' = backends \cup {info.tablet}
         /\ managers' = managers \cup {info.tablet, TouchOf[info.tablet]}
         /\ infos' = [infos EXCEPT ![info.tablet] = info]
         /\ ApplyProfile(info.tablet, backends \cup {info.tablet})
         /\ serviceInfos' = [serviceInfos EXCEPT ![info.tablet] = info]

\* TabletHandler::onTabletAdded, and DBusTabletService::onTabletAdded after it.
HandlerAdded(info) ==
    IF info.tablet \in backends
    THEN UNCHANGED <<handlerVars, serviceVars>>
    ELSE /\ backends' = backends \cup {info.tablet}
         /\ managers' = managers \cup {info.tablet}
         /\ infos' = [infos EXCEPT ![info.tablet] = info]
         /\ ApplyProfile(info.tablet, backends \cup {info.tablet})
         /\ serviceInfos' = [serviceInfos EXCEPT ![info.tablet] = info]

\* Mutants of HandlerRemoved: the service keeps the profile; a tablet that is back
\* is not dropped.
ServiceKeepsProfile(info) ==
    IF info.tablet \in backends /\ infos[info.tablet].tablet = info.tablet
    THEN /\ backends' = backends \ {info.tablet}
         /\ managers' = managers \ {info.tablet}
         /\ infos' = [infos EXCEPT ![info.tablet] = NoInfo]
         /\ serviceInfos' = [serviceInfos EXCEPT ![info.tablet] = NoInfo]
         /\ UNCHANGED <<current, serviceProfiles>>
    ELSE UNCHANGED <<handlerVars, serviceVars>>

DropsUnlessBack(info) ==
    IF info.tablet \in backends /\ ~Connected(info.tablet)
    THEN /\ backends' = backends \ {info.tablet}
         /\ managers' = managers \ {info.tablet}
         /\ infos' = [infos EXCEPT ![info.tablet] = NoInfo]
         /\ serviceInfos' = [serviceInfos EXCEPT ![info.tablet] = NoInfo]
         /\ serviceProfiles' = [serviceProfiles EXCEPT ![info.tablet] = NoProfile]
         /\ UNCHANGED current
    ELSE UNCHANGED <<handlerVars, serviceVars>>

\* TabletHandler::onTabletRemoved, and DBusTabletService::onTabletRemoved after
\* it.  The handler keeps the profile of the tablet in currentProfileList.
HandlerRemoved(info) ==
    IF info.tablet \in backends /\ infos[info.tablet].tablet = info.tablet
    THEN /\ backends' = backends \ {info.tablet}
         /\ managers' = managers \ {info.tablet}
         /\ infos' = [infos EXCEPT ![info.tablet] = NoInfo]
         /\ serviceInfos' = [serviceInfos EXCEPT ![info.tablet] = NoInfo]
         /\ serviceProfiles' = [serviceProfiles EXCEPT ![info.tablet] = NoProfile]
         /\ UNCHANGED current
    ELSE UNCHANGED <<handlerVars, serviceVars>>

-----------------------------------------------------------------------------
(* Events.  The notifier's signal is connected to the finder's slot once   *)
(* per TabletDaemon created, and both outlive it: an event makes as many   *)
(* slot calls as the module was loaded.                                    *)

Serving(kind) == running /\ events # <<>> /\ Head(events).kind = kind

\* The records that list a device.
Listing(d) == {i \in DOMAIN tabletList : HasDevice(tabletList[i], d)}

CallDone ==
    IF calls + 1 < loads
    THEN calls' = calls + 1 /\ UNCHANGED events
    ELSE calls' = 0 /\ events' = Tail(events)

\* The notifier opens the device now, to see whether it is a tablet device; it
\* may be gone, or another device may have its id.  A removal is always passed on.
IsTabletDevice(d) == \E i \in DOMAIN xdevs : xdevs[i].id = d /\ xdevs[i].tablet # NoTablet

\* Mutant of NotifierIgnores: the device of a removal is looked at as well.
ChecksRemovalsToo ==
    /\ running
    /\ events # <<>>
    /\ calls = 0
    /\ ~IsTabletDevice(Head(events).id)
    /\ events' = Tail(events)
    /\ UNCHANGED <<xdevs, changes, running, loads, calls, finderVars, handlerVars, serviceVars, shadowed>>

NotifierIgnores ==
    /\ Serving("added")
    /\ calls = 0
    /\ ~IsTabletDevice(Head(events).id)
    /\ events' = Tail(events)
    /\ UNCHANGED <<xdevs, changes, running, loads, calls, finderVars, handlerVars, serviceVars, shadowed>>

\* A device of the tablet is listed by records of other tablets, of which the removals
\* under way will not erase all.
Claims(t, d) == {i \in Listing(d) : tabletList[i].tablet # t}
Removals(d) == {i \in DOMAIN events : events[i] = [kind |-> "removed", id |-> d]}
IsShadowed(info) ==
    \E d \in Id : /\ HasDevice(info, d)
                 /\ Cardinality(Claims(info.tablet, d)) > Cardinality(Removals(d))

NotifierPasses == calls = 0 => IsTabletDevice(Head(events).id)

\* TabletFinder::onX11TabletAdded, left early: a record lists the id already, or
\* the scan shows no named tablet with it.
OnX11TabletAddedIgnored ==
    /\ Serving("added")
    /\ NotifierPasses
    /\ \/ Listing(Head(events).id) # {}
       \/ \A info \in Scan : HasDevice(info, Head(events).id) => info.tablet \notin Named
    /\ CallDone
    /\ UNCHANGED <<xdevs, changes, running, loads, finderVars, handlerVars, serviceVars, shadowed>>

\* TabletFinder::onX11TabletAdded: the scanned tablet joins the list, also when
\* the list holds an older record of the same tablet.
OnX11TabletAdded ==
    /\ Serving("added")
    /\ NotifierPasses
    /\ Listing(Head(events).id) = {}
    /\ \E info \in Scan :
           /\ HasDevice(info, Head(events).id)
           /\ info.tablet \in Named
           /\ tabletList' = Append(tabletList, info)
           /\ HandlerAdded(info)
           /\ shadowed' = IF info.tablet \notin backends /\ IsShadowed(info)
                           THEN shadowed \cup {info.tablet}
                           ELSE shadowed
    /\ CallDone
    /\ UNCHANGED <<xdevs, changes, running, loads>>

\* TabletFinder::onX11TabletRemoved for an id no record lists.
OnX11TabletRemovedIgnored ==
    /\ Serving("removed")
    /\ Listing(Head(events).id) = {}
    /\ CallDone
    /\ UNCHANGED <<xdevs, changes, running, loads, finderVars, handlerVars, serviceVars, shadowed>>

\* TabletFinder::onX11TabletRemoved: the first record listing the id is erased,
\* whichever of its devices the id is.
OnX11TabletRemoved ==
    /\ Serving("removed")
    /\ \E i \in Listing(Head(events).id) :
           /\ \A j \in Listing(Head(events).id) : i <= j
           /\ tabletList' = RemoveAt(tabletList, i)
           /\ HandlerRemoved(tabletList[i])
    /\ shadowed' = shadowed \cap backends'
    /\ CallDone
    /\ UNCHANGED <<xdevs, changes, running, loads>>

\* Nobody filters the X events of a daemon that is not there.
EventLost ==
    /\ ~running
    /\ events # <<>>
    /\ events' = Tail(events)
    /\ UNCHANGED <<xdevs, changes, running, loads, calls, finderVars, handlerVars, serviceVars, shadowed>>

-----------------------------------------------------------------------------
(* The kded module. *)

\* The records of a scan in the order of the serials, as the QMap gives them.
IsScanOrder(list, S) ==
    /\ ToSet(list) = S
    /\ \A i, j \in DOMAIN list : i < j => list[i].tablet < list[j].tablet

\* TabletDaemon's constructor.  The connections are made and the notifier is
\* started before TabletFinder::scan(); a scan that finds no device returns
\* without touching the list.  Each named tablet found is handed on in turn: to
\* a new handler, so none is refused, and setProfile runs for each.
Load ==
    /\ ~running
    /\ loads < MaxLoads
    /\ running' = TRUE
    /\ loads' = loads + 1
    /\ IF Scan = {}
       THEN UNCHANGED <<tabletList, handlerVars, serviceVars>>
       ELSE \E list \in BoundedSeq(Scan, MaxId) :
            LET found == {t \in Named : Connected(t)}
            IN  /\ IsScanOrder(list, Scan)
                /\ tabletList' = list
                /\ backends' = found
                /\ managers' = found
                /\ infos' = [t \in Tablet |-> IF t \in found THEN ScannedInfo(t) ELSE NoInfo]
                /\ current' \in {f \in [Tablet -> Profile \cup {NoProfile}] :
                                    \A t \in Tablet \ found : f[t] = NoProfile}
                /\ serviceInfos' = infos'
                /\ serviceProfiles' = current'
    /\ UNCHANGED <<xvars, calls, shadowed>>

\* TabletDaemon's destructor: the handler and the D-Bus service go, TabletFinder
\* and X11EventNotifier stay.
Unload ==
    /\ running
    /\ calls = 0
    /\ running' = FALSE
    /\ backends' = {}
    /\ managers' = {}
    /\ infos' = [t \in Tablet |-> NoInfo]
    /\ current' = [t \in Tablet |-> NoProfile]
    /\ serviceInfos' = [t \in Tablet |-> NoInfo]
    /\ serviceProfiles' = [t \in Tablet |-> NoProfile]
    /\ shadowed' = {}
    /\ UNCHANGED <<xvars, loads, calls, tabletList>>

\* setProfile from D-Bus or a global shortcut, for a tablet that is controlled.
SetProfile(t) ==
    /\ running
    /\ calls = 0
    /\ t \in backends
    /\ ApplyProfile(t, backends)
    /\ UNCHANGED <<xvars, running, loads, calls, finderVars, backends, managers, infos,
                   serviceInfos, shadowed>>

-----------------------------------------------------------------------------
Init ==
    /\ xdevs = <<>>
    /\ events = <<>>
    /\ changes = 0
    /\ running = FALSE
    /\ loads = 0
    /\ calls = 0
    /\ tabletList = <<>>
    /\ backends = {}
    /\ managers = {}
    /\ infos = [t \in Tablet |-> NoInfo]
    /\ current = [t \in Tablet |-> NoProfile]
    /\ serviceInfos = [t \in Tablet |-> NoInfo]
    /\ serviceProfiles = [t \in Tablet |-> NoProfile]
    /\ shadowed = {}

XServer ==
    \/ \E t \in Tablet, ty \in DevType : XAdd(t, ty)
    \/ XAdd(NoTablet, NoTablet)
    \/ \E i \in DOMAIN xdevs : XRemove(i)

EventLoop ==
    \/ NotifierIgnores
    \/ OnX11TabletAddedIgnored
    \/ OnX11TabletAdded
    \/ OnX11TabletRemovedIgnored
    \/ OnX11TabletRemoved

Next ==
    \/ XServer
    \/ EventLoop
    \/ EventLost
    \/ Load
    \/ Unload
    \/ \E t \in Tablet : SetProfile(t)

Spec == Init /\ [][Next]_vars

\* Qt's event loop serves the X connection as long as the module is loaded.
FairSpec == Spec /\ WF_vars(EventLoop)
-----------------------------------------------------------------------------
(* Properties. *)

TypeOK ==
    /\ xdevs \in Seq(XDevice)
    /\ events \in Seq([kind : {"added", "removed"}, id : Id])
    /\ changes \in Nat
    /\ running \in BOOLEAN
    /\ loads \in Nat
    /\ calls \in Nat
    /\ tabletList \in Seq(Info)
    /\ backends \subseteq Tablet
    /\ managers \subseteq Tablet
    /\ infos \in [Tablet -> Info \cup {NoInfo}]
    /\ current \in [Tablet -> Profile \cup {NoProfile}]
    /\ serviceInfos \in [Tablet -> Info \cup {NoInfo}]
    /\ serviceProfiles \in [Tablet -> Profile \cup {NoProfile}]
    /\ shadowed \subseteq backends

\* A controlled tablet has all that the handlers of shortcuts and screen changes
\* use without looking (tablethandler.cpp: profileManagerList.value(id)->...), and
\* its record is one the finder still lists: the removal that ends it can arrive.
ControlledIsListed ==
    /\ managers = backends
    /\ \A t \in Tablet :
           IF t \in backends
           THEN \E i \in DOMAIN tabletList : tabletList[i].tablet = t /\ tabletList[i] = infos[t]
           ELSE infos[t] = NoInfo

\* What D-Bus clients are told is what the handler has: the same tablets, with the
\* profile in effect, and no profile of a tablet that is not there, although the
\* handler itself remembers one.
ServiceMirrorsHandler ==
    /\ serviceInfos = infos
    /\ \A t \in Tablet :
           serviceProfiles[t] = IF t \in backends THEN current[t] ELSE NoProfile

\* So the three lists agree after every step: what one slot leaves behind the next
\* one, and the client that asks in between, finds as it expects it.
ListsAgree == ControlledIsListed /\ ServiceMirrorsHandler

\* The daemon has nothing left to serve.
Quiet == running /\ events = <<>>

\* X has this device of the tablet, of the type it is recorded with.
Has(t, ty, d) == [id |-> d, tablet |-> t, type |-> ty] \in ToSet(xdevs)

\* Once all events are served no tablet is offered that is not connected, one of the
\* devices it is offered with is there, and all of them are, however ids were handed
\* out again and events of several tablets interleaved, and whatever the finder kept
\* over a restart: the id the handler asks the driver with is that of the same tool of
\* the same tablet.  A tablet that is shadowed may be offered with devices it has lost:
\* the removal erased the older record instead.
NoGhostTablet ==
    Quiet => \A t \in backends :
        /\ \E ty \in DevType : Has(t, ty, infos[t].devs[ty])
        /\ t \notin shadowed =>
               \A ty \in DevType : infos[t].devs[ty] # NoId => Has(t, ty, infos[t].devs[ty])

\* Until the first restart the finder forgets a tablet whose devices are all gone:
\* nothing is left that could claim the ids when they are handed out again.
FinderForgets ==
    (Quiet /\ loads = 1) =>
        \A i \in DOMAIN tabletList : Connected(tabletList[i].tablet)

\* Handler and finder are rid of what is gone, with the ids X hands out again.
NothingLeftBehind == NoGhostTablet /\ FinderForgets

\* A controlled tablet that has lost all its devices is dropped in the end, unless
\* it comes back.
GhostIsDropped ==
    \A t \in Tablet :
        (t \in backends /\ ~Connected(t)) ~> (t \notin backends \/ Connected(t))
=============================================================================
