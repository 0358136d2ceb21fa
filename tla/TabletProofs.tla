---------------------------- MODULE TabletProofs ----------------------------
(***************************************************************************)
(* Proofs about TabletHotplug and TabletLookup, for every set of tablets,  *)
(* device types and profiles, for every database and for every value of    *)
(* the bounds.                                                             *)
(*                                                                         *)
(* TabletHotplug needs two inductive invariants, one on top of the other.  *)
(* IInv is the types, ControlledIsListed and ServiceMirrorsHandler: that a *)
(* removal drops the right tablet needs to know that the record kept for a *)
(* controlled tablet bears that tablet's serial.  Claimed adds what the    *)
(* records stand for between an event and the slot that serves it, from    *)
(* which it follows what is left when no event is under way.               *)
(*                                                                         *)
(* TabletLookup needs LookupInv: each tablet is in the dialog's list once  *)
(* and of one kind, in the list as in what was saved; the box of sensors   *)
(* shows the place of the entry's sensor also while the entry is no        *)
(* parent's, as it may become one; and what the daemon knows of a tablet   *)
(* that no database has is what libwacom said.                             *)
(***************************************************************************)
EXTENDS TabletHotplug, TabletLookup, SequenceTheorems, FiniteSetTheorems, WellFoundedInduction, TLAPS

Event == [kind : {"added", "removed"}, id : Id]

\* TypeOK in parts: the X server, the daemon's bookkeeping and the finder; the handler
\* and the service.
QueueType ==
    /\ xdevs \in Seq(XDevice)
    /\ events \in Seq(Event)
    /\ changes \in Nat
    /\ running \in BOOLEAN
    /\ loads \in Nat
    /\ calls \in Nat
    /\ tabletList \in Seq(Info)

HandlerType ==
    /\ backends \subseteq Tablet
    /\ managers \subseteq Tablet
    /\ infos \in [Tablet -> Info \cup {NoInfo}]
    /\ current \in [Tablet -> Profile \cup {NoProfile}]
    /\ serviceInfos \in [Tablet -> Info \cup {NoInfo}]
    /\ serviceProfiles \in [Tablet -> Profile \cup {NoProfile}]

IInv == QueueType /\ HandlerType /\ ControlledIsListed /\ ServiceMirrorsHandler

\* What ControlledIsListed says of one tablet.
Kept(t) ==
    IF t \in backends
    THEN \E i \in DOMAIN tabletList : tabletList[i].tablet = t /\ tabletList[i] = infos[t]
    ELSE infos[t] = NoInfo

-----------------------------------------------------------------------------
(* Sequences and scans. *)

\* r is s without its element i.
IsRemoval(r, s, i) ==
    /\ Len(r) = Len(s) - 1
    /\ \A k \in 1..Len(r) : r[k] = IF k < i THEN s[k] ELSE s[k + 1]

LEMMA RemoveAtKeepsOthers ==
    ASSUME NEW S, NEW s \in Seq(S), NEW i \in DOMAIN s
    PROVE  /\ RemoveAt(s, i) \in Seq(S)
           /\ IsRemoval(RemoveAt(s, i), s, i)
           /\ \A j \in DOMAIN s : j # i =>
                  \E k \in DOMAIN RemoveAt(s, i) : RemoveAt(s, i)[k] = s[j]
<1> DEFINE r == RemoveAt(s, i)
<1>1. /\ r \in Seq(S)
      /\ Len(r) = Len(s) - 1
      /\ \A k \in 1..Len(r) : r[k] = IF k < i THEN s[k] ELSE s[k + 1]
  <2> DEFINE a == SubSeq(s, 1, i - 1)
             b == SubSeq(s, i + 1, Len(s))
  <2>1. i \in 1..Len(s) /\ Len(s) \in Nat /\ \A j \in 1..Len(s) : s[j] \in S
    OBVIOUS
  <2>2. /\ a \in Seq(S) /\ Len(a) = i - 1
        /\ \A k \in 1..(i - 1) : a[k] = s[k]
    <3>1. \A k \in 1..(i - 1) : s[k] \in S
      BY <2>1
    <3> HIDE DEF r
    <3> QED BY <2>1, <3>1, SubSeqProperties
  <2>3. /\ b \in Seq(S) /\ Len(b) = Len(s) - i
        /\ \A k \in 1..(Len(s) - i) : b[k] = s[i + k]
    <3>1. \A k \in (i + 1)..Len(s) : s[k] \in S
      BY <2>1
    <3> HIDE DEF r
    <3> QED BY <2>1, <3>1, SubSeqProperties
  <2> HIDE DEF a, b
  <2>4. /\ a \o b \in Seq(S)
        /\ Len(a \o b) = Len(s) - 1
        /\ \A k \in 1..(Len(s) - 1) : (a \o b)[k] = IF k < i THEN s[k] ELSE s[k + 1]
    <3> HIDE DEF r
    <3>1. Len(a) = i - 1 /\ Len(b) = Len(s) - i /\ i \in Nat
      BY <2>1, <2>2, <2>3
    <3>2. /\ a \o b \in Seq(S)
          /\ Len(a \o b) = Len(a) + Len(b)
          /\ \A k \in 1..(Len(a) + Len(b)) :
                 (a \o b)[k] = IF k <= Len(a) THEN a[k] ELSE b[k - Len(a)]
      BY <2>2, <2>3, ConcatProperties
    <3>3. ASSUME NEW k \in 1..(Len(s) - 1)
          PROVE  (a \o b)[k] = IF k < i THEN s[k] ELSE s[k + 1]
      <4>1. k \in 1..(Len(a) + Len(b))
        BY <2>1, <3>1
      <4>2. CASE k < i
        <5>1. (a \o b)[k] = a[k]
          BY <3>1, <3>2, <4>1, <4>2
        <5> QED BY <2>1, <2>2, <4>2, <5>1
      <4>3. CASE ~(k < i)
        <5>1. (a \o b)[k] = b[k - (i - 1)]
          <6>1. ~(k <= Len(a)) /\ Len(a) = i - 1
            BY <2>1, <3>1, <4>3
          <6>2. (a \o b)[k] = b[k - Len(a)]
            BY <3>2, <4>1, <6>1
          <6> QED BY <6>1, <6>2
        <5>2. k - (i - 1) \in 1..(Len(s) - i) /\ i + (k - (i - 1)) = k + 1
          BY <2>1, <4>3
        <5>3. b[k - (i - 1)] = s[i + (k - (i - 1))]
          BY <2>3, <5>2
        <5> QED BY <4>3, <5>1, <5>2, <5>3
      <4> QED BY <4>2, <4>3
    <3>4. Len(a) + Len(b) = Len(s) - 1
      BY <2>1, <3>1
    <3> HIDE DEF a, b
    <3> QED BY <3>2, <3>3, <3>4
  <2>5. r = a \o b
    BY DEF RemoveAt, a, b
  <2> QED BY <2>1, <2>4, <2>5
<1> HIDE DEF r
<1>2. ASSUME NEW j \in DOMAIN s, j # i
      PROVE  \E k \in DOMAIN r : r[k] = s[j]
  <2>1. CASE j < i
    <3>1. j \in 1..Len(r) /\ r[j] = s[j]
      BY <1>1, <2>1
    <3> QED BY <1>1, <3>1
  <2>2. CASE i < j
    <3>1. j - 1 \in 1..Len(r) /\ r[j - 1] = s[j]
      BY <1>1, <2>2
    <3> QED BY <1>1, <3>1
  <2> QED BY <1>2, <2>1, <2>2
<1> QED BY <1>1, <1>2 DEF r, IsRemoval

LEMMA AppendKeeps ==
    ASSUME NEW S, NEW s \in Seq(S), NEW e \in S
    PROVE  /\ Append(s, e) \in Seq(S)
           /\ \A j \in DOMAIN s : j \in DOMAIN Append(s, e) /\ Append(s, e)[j] = s[j]
           /\ Len(s) + 1 \in DOMAIN Append(s, e) /\ Append(s, e)[Len(s) + 1] = e
OBVIOUS

LEMMA ScannedInfoType ==
    ASSUME xdevs \in Seq(XDevice), NEW t \in Tablet
    PROVE  ScannedInfo(t) \in Info
<1>1. ASSUME NEW ty \in DevType
      PROVE  ScannedId(t, ty) \in Id \cup {NoId}
  <2>1. LastPosition(t, ty) \subseteq DOMAIN xdevs
    BY DEF LastPosition, Positions, DevicesOf
  <2>2. CASE LastPosition(t, ty) # {}
    <3> DEFINE last == CHOOSE i \in LastPosition(t, ty) : TRUE
    <3>1. last \in DOMAIN xdevs
      BY <2>1, <2>2
    <3>2. ScannedId(t, ty) = xdevs[last].id
      BY <2>2 DEF ScannedId
    <3> HIDE DEF last
    <3>3. xdevs[last] \in XDevice
      BY <3>1
    <3> QED BY <3>2, <3>3 DEF XDevice
  <2> QED BY <2>2 DEF ScannedId
<1> QED BY <1>1 DEF ScannedInfo, Info

LEMMA ScanType ==
    ASSUME xdevs \in Seq(XDevice)
    PROVE  Scan \subseteq Info
BY ScannedInfoType DEF Scan

-----------------------------------------------------------------------------
(* What the two handler slots keep. *)

LEMMA ReachType ==
    ASSUME NEW t \in Tablet, NEW C \in SUBSET Tablet, t \in C
    PROVE  t \in Reach(t, C) /\ Reach(t, C) \subseteq C
BY DEF Reach

LEMMA ApplyProfileKeeps ==
    ASSUME HandlerType, NEW t \in Tablet, NEW C \in SUBSET Tablet, t \in C,
           ApplyProfile(t, C)
    PROVE  /\ current' \in [Tablet -> Profile \cup {NoProfile}]
           /\ serviceProfiles' \in [Tablet -> Profile \cup {NoProfile}]
           /\ \A u \in Tablet :
                  \/ u \in C /\ serviceProfiles'[u] = current'[u]
                  \/ /\ current'[u] = current[u]
                     /\ serviceProfiles'[u] = serviceProfiles[u]
                     /\ u # t
<1>1. PICK pick \in [Reach(t, C) -> Profile \cup {NoProfile}] :
          /\ current' = [u \in Tablet |->
                 IF u \in Reach(t, C) THEN pick[u] ELSE current[u]]
          /\ serviceProfiles' = [u \in Tablet |->
                 IF u \in Reach(t, C) THEN pick[u] ELSE serviceProfiles[u]]
  BY DEF ApplyProfile
<1> QED BY <1>1, ReachType DEF HandlerType

LEMMA HandlerAddedKeeps ==
    ASSUME IInv, NEW info \in Info, HandlerAdded(info),
           tabletList' = Append(tabletList, info)
    PROVE  HandlerType' /\ ControlledIsListed' /\ ServiceMirrorsHandler'
<1> USE TabletAssumption DEF IInv, QueueType, HandlerType
<1>0. HandlerType /\ info.tablet \in Tablet
  BY DEF HandlerType, Info
<1>1. CASE info.tablet \in backends
  <2>1. UNCHANGED <<backends, managers, infos, current, serviceInfos, serviceProfiles>>
    BY <1>1 DEF HandlerAdded, handlerVars, serviceVars
  <2>2. ControlledIsListed'
    BY <2>1, AppendKeeps DEF ControlledIsListed
  <2> QED BY <1>0, <2>1, <2>2 DEF HandlerType, ServiceMirrorsHandler
<1>2. CASE info.tablet \notin backends
  <2> DEFINE C == backends \cup {info.tablet}
  <2>1. /\ backends' = C
        /\ managers' = managers \cup {info.tablet}
        /\ infos' = [infos EXCEPT ![info.tablet] = info]
        /\ ApplyProfile(info.tablet, C)
        /\ serviceInfos' = [serviceInfos EXCEPT ![info.tablet] = info]
    BY <1>2 DEF HandlerAdded
  <2>2. /\ current' \in [Tablet -> Profile \cup {NoProfile}]
        /\ serviceProfiles' \in [Tablet -> Profile \cup {NoProfile}]
        /\ \A u \in Tablet :
               \/ u \in C /\ serviceProfiles'[u] = current'[u]
               \/ /\ current'[u] = current[u]
                  /\ serviceProfiles'[u] = serviceProfiles[u]
                  /\ u # info.tablet
    <3>1. C \in SUBSET Tablet /\ info.tablet \in C /\ ApplyProfile(info.tablet, C)
      BY <1>0, <2>1
    <3> HIDE DEF C, IInv, QueueType, HandlerType
    <3> QED BY <1>0, <3>1, ApplyProfileKeeps
  <2>3. HandlerType'
    BY <1>0, <2>1, <2>2 DEF HandlerType
  <2>4. ControlledIsListed'
    <3>1. managers' = backends'
      BY <2>1 DEF ControlledIsListed
    <3>2. ASSUME NEW t \in Tablet
          PROVE  Kept(t)'
      <4>0. /\ \A j \in DOMAIN tabletList :
                   j \in DOMAIN tabletList' /\ tabletList'[j] = tabletList[j]
            /\ \E j \in DOMAIN tabletList' : tabletList'[j] = info
        BY AppendKeeps
      <4>1. CASE t = info.tablet
        BY <1>0, <2>1, <4>0, <4>1 DEF Kept
      <4>2. CASE t # info.tablet
        <5>1. Kept(t)
          BY DEF ControlledIsListed, Kept
        <5>2. infos'[t] = infos[t] /\ (t \in backends' <=> t \in backends)
          BY <1>0, <2>1, <4>2
        <5> QED BY <4>0, <5>1, <5>2 DEF Kept
      <4> QED BY <4>1, <4>2
    <3> QED BY <3>1, <3>2 DEF ControlledIsListed, Kept
  <2>5. ServiceMirrorsHandler'
    BY <1>0, <2>1, <2>2 DEF ServiceMirrorsHandler
  <2> QED BY <2>3, <2>4, <2>5
<1> QED BY <1>1, <1>2

LEMMA HandlerRemovedKeeps ==
    ASSUME IInv, NEW i \in DOMAIN tabletList, HandlerRemoved(tabletList[i]),
           tabletList' = RemoveAt(tabletList, i)
    PROVE  HandlerType' /\ ControlledIsListed' /\ ServiceMirrorsHandler'
<1> USE TabletAssumption DEF IInv, QueueType, HandlerType
<1> DEFINE info == tabletList[i]
<1>0. HandlerType /\ info \in Info /\ info.tablet \in Tablet
  <2>1. info \in Info
    OBVIOUS
  <2> QED BY <2>1 DEF HandlerType, Info
<1>1. \A j \in DOMAIN tabletList : j # i =>
          \E k \in DOMAIN tabletList' : tabletList'[k] = tabletList[j]
  BY RemoveAtKeepsOthers
<1>2. CASE info.tablet \in backends
  <2>1. infos[info.tablet].tablet = info.tablet
    BY <1>0, <1>2 DEF ControlledIsListed
  <2>2. /\ backends' = backends \ {info.tablet}
        /\ managers' = managers \ {info.tablet}
        /\ infos' = [infos EXCEPT ![info.tablet] = NoInfo]
        /\ serviceInfos' = [serviceInfos EXCEPT ![info.tablet] = NoInfo]
        /\ serviceProfiles' = [serviceProfiles EXCEPT ![info.tablet] = NoProfile]
        /\ current' = current
    BY <1>2, <2>1 DEF HandlerRemoved
  <2>3. HandlerType'
    BY <1>0, <2>2 DEF HandlerType
  <2>4. ControlledIsListed'
    <3>1. managers' = backends'
      BY <2>2 DEF ControlledIsListed
    <3>2. ASSUME NEW t \in Tablet
          PROVE  Kept(t)'
      <4>1. CASE t = info.tablet
        BY <1>0, <2>2, <4>1 DEF Kept
      <4>2. CASE t # info.tablet
        <5>1. Kept(t)
          BY DEF ControlledIsListed, Kept
        <5>2. infos'[t] = infos[t] /\ (t \in backends' <=> t \in backends)
          BY <1>0, <2>2, <4>2
        <5>3. CASE t \in backends
          <6>1. PICK j \in DOMAIN tabletList : tabletList[j].tablet = t /\ tabletList[j] = infos[t]
            BY <5>1, <5>3 DEF Kept
          <6>2. j # i
            BY <4>2, <6>1
          <6>3. PICK k \in DOMAIN tabletList' : tabletList'[k] = tabletList[j]
            BY <1>1, <6>2
          <6> QED BY <5>2, <5>3, <6>1, <6>3 DEF Kept
        <5>4. CASE t \notin backends
          BY <5>1, <5>2, <5>4 DEF Kept
        <5> QED BY <5>3, <5>4
      <4> QED BY <4>1, <4>2
    <3> QED BY <3>1, <3>2 DEF ControlledIsListed, Kept
  <2>5. ServiceMirrorsHandler'
    BY <1>0, <2>2 DEF ServiceMirrorsHandler
  <2> QED BY <2>3, <2>4, <2>5
<1>3. CASE info.tablet \notin backends
  <2>1. UNCHANGED <<backends, managers, infos, current, serviceInfos, serviceProfiles>>
    BY <1>3 DEF HandlerRemoved, handlerVars, serviceVars
  <2>2. ControlledIsListed'
    <3> SUFFICES ASSUME NEW t \in backends
                 PROVE  \E k \in DOMAIN tabletList' :
                            tabletList'[k].tablet = t /\ tabletList'[k] = infos[t]
      BY <2>1 DEF ControlledIsListed
    <3>1. PICK j \in DOMAIN tabletList : tabletList[j].tablet = t /\ tabletList[j] = infos[t]
      BY DEF ControlledIsListed
    <3>2. j # i
      BY <1>3, <3>1
    <3> QED BY <1>1, <3>1, <3>2
  <2> QED BY <1>0, <2>1, <2>2 DEF HandlerType, ServiceMirrorsHandler
<1> QED BY <1>2, <1>3

-----------------------------------------------------------------------------
(* The invariant and the actions. *)

LEMMA InitIInv == Init => IInv
<1> SUFFICES ASSUME Init PROVE IInv
  OBVIOUS
<1>1. QueueType /\ HandlerType
  <2>1. /\ xdevs \in Seq(XDevice)
        /\ events \in Seq(Event)
        /\ tabletList \in Seq(Info)
    BY EmptySeq DEF Init
  <2>2. /\ infos \in [Tablet -> Info \cup {NoInfo}]
        /\ current \in [Tablet -> Profile \cup {NoProfile}]
        /\ serviceInfos \in [Tablet -> Info \cup {NoInfo}]
        /\ serviceProfiles \in [Tablet -> Profile \cup {NoProfile}]
    BY DEF Init
  <2>3. running \in BOOLEAN /\ loads \in Nat /\ calls \in Nat /\ changes \in Nat
    BY DEF Init
  <2>4. backends \subseteq Tablet /\ managers \subseteq Tablet
    BY DEF Init
  <2> QED BY <2>1, <2>2, <2>3, <2>4 DEF QueueType, HandlerType
<1>2. ControlledIsListed
  BY DEF Init, ControlledIsListed
<1>3. ServiceMirrorsHandler
  BY DEF Init, ServiceMirrorsHandler
<1> QED BY <1>1, <1>2, <1>3 DEF IInv

\* Actions that leave the tablet lists alone.
LEMMA ListsAlone ==
    ASSUME IInv, UNCHANGED <<tabletList, handlerVars, serviceVars>>
    PROVE  HandlerType' /\ ControlledIsListed' /\ ServiceMirrorsHandler'
<1>1. UNCHANGED <<tabletList, backends, managers, infos, current, serviceInfos, serviceProfiles>>
  BY DEF handlerVars, serviceVars
<1>2. HandlerType'
  BY <1>1 DEF IInv, HandlerType
<1>3. ControlledIsListed'
  BY <1>1 DEF IInv, ControlledIsListed
<1>4. ServiceMirrorsHandler'
  BY <1>1 DEF IInv, ServiceMirrorsHandler
<1> QED BY <1>2, <1>3, <1>4

LEMMA CallDoneType ==
    ASSUME QueueType, events # <<>>, CallDone
    PROVE  events' \in Seq(Event) /\ calls' \in Nat
<1>1. Tail(events) \in Seq(Event)
  BY HeadTailProperties DEF QueueType
<1>2. CASE calls + 1 < loads
  BY <1>2 DEF QueueType, CallDone
<1>3. CASE ~(calls + 1 < loads)
  BY <1>1, <1>3 DEF CallDone
<1> QED BY <1>2, <1>3

LEMMA XServerKeeps ==
    ASSUME IInv, XServer
    PROVE  IInv'
<1>0. QueueType
  BY DEF IInv
<1>1. UNCHANGED <<running, loads, calls, finderVars, handlerVars, serviceVars>>
  BY DEF XServer, XAdd, XRemove
<1>2. xdevs' \in Seq(XDevice) /\ events' \in Seq(Event)
  <2>1. ASSUME NEW t, NEW ty, XAdd(t, ty),
               (t \in Tablet /\ ty \in DevType) \/ (t = NoTablet /\ ty = NoTablet)
        PROVE  xdevs' \in Seq(XDevice) /\ events' \in Seq(Event)
    <3>1. PICK d \in FreeIds :
              /\ xdevs' = Append(xdevs, [id |-> d, tablet |-> t, type |-> ty])
              /\ events' = Append(events, [kind |-> "added", id |-> d])
      BY <2>1 DEF XAdd
    <3>2. [id |-> d, tablet |-> t, type |-> ty] \in XDevice
      BY <2>1 DEF FreeIds, XDevice
    <3>3. [kind |-> "added", id |-> d] \in Event
      BY DEF FreeIds, Event
    <3> QED BY <1>0, <3>1, <3>2, <3>3, AppendKeeps DEF QueueType
  <2>2. ASSUME NEW i \in DOMAIN xdevs, XRemove(i)
        PROVE  xdevs' \in Seq(XDevice) /\ events' \in Seq(Event)
    <3>1. xdevs \in Seq(XDevice) /\ events \in Seq(Event)
      BY <1>0 DEF QueueType
    <3>2. xdevs[i] \in XDevice
      BY <3>1
    <3>3. [kind |-> "removed", id |-> xdevs[i].id] \in Event
      BY <3>2 DEF XDevice, Event
    <3>4. RemoveAt(xdevs, i) \in Seq(XDevice)
      BY <3>1, RemoveAtKeepsOthers
    <3> QED BY <2>2, <3>1, <3>3, <3>4, AppendKeeps DEF XRemove
  <2> QED BY <2>1, <2>2 DEF XServer
<1>3. QueueType'
  <2>1. changes' = changes + 1
    BY DEF XServer, XAdd, XRemove
  <2> QED BY <1>0, <1>1, <1>2, <2>1 DEF QueueType, finderVars
<1>4. HandlerType' /\ ControlledIsListed' /\ ServiceMirrorsHandler'
  BY <1>1, ListsAlone DEF finderVars
<1> QED BY <1>3, <1>4 DEF IInv

LEMMA EventLoopKeeps ==
    ASSUME IInv, EventLoop
    PROVE  IInv'
<1>0. QueueType /\ events # <<>>
  BY DEF IInv, EventLoop, Serving, NotifierIgnores, OnX11TabletAddedIgnored,
                    OnX11TabletAdded, OnX11TabletRemovedIgnored, OnX11TabletRemoved
<1>1. CASE NotifierIgnores
  <2>1. QueueType'
    BY <1>0, <1>1, HeadTailProperties DEF NotifierIgnores, QueueType, finderVars
  <2>2. UNCHANGED <<tabletList, handlerVars, serviceVars>>
    BY <1>1 DEF NotifierIgnores, finderVars
  <2> QED BY <2>1, <2>2, ListsAlone DEF IInv
<1>2. CASE OnX11TabletAddedIgnored
  <2>1. QueueType'
    BY <1>0, <1>2, CallDoneType DEF OnX11TabletAddedIgnored, QueueType, finderVars
  <2>2. UNCHANGED <<tabletList, handlerVars, serviceVars>>
    BY <1>2 DEF OnX11TabletAddedIgnored, finderVars
  <2> QED BY <2>1, <2>2, ListsAlone DEF IInv
<1>3. CASE OnX11TabletAdded
  <2>1. PICK info \in Scan : tabletList' = Append(tabletList, info) /\ HandlerAdded(info)
    BY <1>3 DEF OnX11TabletAdded
  <2>2. info \in Info
    BY <1>0, ScanType DEF QueueType
  <2>3. QueueType'
    BY <1>0, <1>3, <2>1, <2>2, CallDoneType, AppendKeeps DEF OnX11TabletAdded, QueueType
  <2> QED BY <2>1, <2>2, <2>3, HandlerAddedKeeps DEF IInv
<1>4. CASE OnX11TabletRemovedIgnored
  <2>1. QueueType'
    BY <1>0, <1>4, CallDoneType DEF OnX11TabletRemovedIgnored, QueueType, finderVars
  <2>2. UNCHANGED <<tabletList, handlerVars, serviceVars>>
    BY <1>4 DEF OnX11TabletRemovedIgnored, finderVars
  <2> QED BY <2>1, <2>2, ListsAlone DEF IInv
<1>5. CASE OnX11TabletRemoved
  <2>1. PICK i \in DOMAIN tabletList :
            tabletList' = RemoveAt(tabletList, i) /\ HandlerRemoved(tabletList[i])
    BY <1>5 DEF OnX11TabletRemoved, Listing
  <2>2. RemoveAt(tabletList, i) \in Seq(Info)
    BY <1>0, RemoveAtKeepsOthers DEF QueueType
  <2>3. QueueType'
    BY <1>0, <1>5, <2>1, <2>2, CallDoneType DEF OnX11TabletRemoved, QueueType
  <2> QED BY <2>1, <2>3, HandlerRemovedKeeps DEF IInv
<1> QED BY <1>1, <1>2, <1>3, <1>4, <1>5 DEF EventLoop

LEMMA EventLostKeeps ==
    ASSUME IInv, EventLost
    PROVE  IInv'
<1>1. QueueType'
  BY HeadTailProperties DEF IInv, EventLost, QueueType, finderVars
<1>2. UNCHANGED <<tabletList, handlerVars, serviceVars>>
  BY DEF EventLost, finderVars
<1> QED BY <1>1, <1>2, ListsAlone DEF IInv

LEMMA LoadKeeps ==
    ASSUME IInv, Load
    PROVE  IInv'
<1>0. QueueType
  BY DEF IInv
<1>1. CASE Scan = {}
  <2>1. UNCHANGED <<tabletList, handlerVars, serviceVars>>
    BY <1>1 DEF Load
  <2>2. QueueType'
    BY <1>0, <2>1 DEF Load, QueueType, xvars
  <2> QED BY <2>1, <2>2, ListsAlone DEF IInv
<1>2. CASE Scan # {}
  <2> DEFINE found == {t \in Named : Connected(t)}
  <2>1. PICK scanned \in BoundedSeq(Scan, MaxId) :
            /\ IsScanOrder(scanned, Scan)
            /\ tabletList' = scanned
            /\ backends' = found
            /\ managers' = found
            /\ infos' = [t \in Tablet |-> IF t \in found THEN ScannedInfo(t) ELSE NoInfo]
            /\ current' \in {f \in [Tablet -> Profile \cup {NoProfile}] :
                                \A t \in Tablet \ found : f[t] = NoProfile}
            /\ serviceInfos' = infos'
            /\ serviceProfiles' = current'
    BY <1>2 DEF Load
  <2>2. found \subseteq Tablet
    BY TabletAssumption
  <2>3. \A t \in found : ScannedInfo(t) \in Scan /\ ScannedInfo(t) \in Info
    BY <1>0, <2>2, ScannedInfoType DEF Scan, QueueType
  <2>4. scanned \in Seq(Scan)
    <3>1. PICK m \in 0..MaxId : scanned \in [1..m -> Scan]
      BY DEF BoundedSeq, SeqOf
    <3> QED BY <3>1, BoundAssumption
  <2>5. scanned \in Seq(Info)
    BY <1>0, <2>4, ScanType DEF QueueType
  <2>6. QueueType'
    BY <1>0, <2>1, <2>5 DEF Load, QueueType, xvars
  <2>7. HandlerType'
    BY <2>1, <2>2, <2>3 DEF HandlerType
  <2>8. ControlledIsListed'
    <3>1. ASSUME NEW t \in Tablet
          PROVE  Kept(t)'
      <4>1. CASE t \in found
        <5>1. PICK i \in DOMAIN scanned : scanned[i] = ScannedInfo(t)
          BY <2>1, <2>3, <4>1 DEF IsScanOrder, ToSet
        <5>2. infos'[t] = ScannedInfo(t) /\ ScannedInfo(t).tablet = t
          BY <2>1, <4>1 DEF ScannedInfo
        <5> QED BY <2>1, <4>1, <5>1, <5>2 DEF Kept
      <4>2. CASE t \notin found
        BY <2>1, <4>2 DEF Kept
      <4> QED BY <4>1, <4>2
    <3> QED BY <2>1, <3>1 DEF ControlledIsListed, Kept
  <2>9. ServiceMirrorsHandler'
    BY <2>1 DEF ServiceMirrorsHandler
  <2> QED BY <2>6, <2>7, <2>8, <2>9 DEF IInv
<1> QED BY <1>1, <1>2

LEMMA UnloadKeeps ==
    ASSUME IInv, Unload
    PROVE  IInv'
BY DEF IInv, QueueType, HandlerType, ControlledIsListed, ServiceMirrorsHandler, Unload, xvars

LEMMA SetProfileKeeps ==
    ASSUME IInv, NEW t \in Tablet, SetProfile(t)
    PROVE  IInv'
<1>0. QueueType /\ HandlerType /\ backends \in SUBSET Tablet
  BY DEF IInv, HandlerType
<1>1. /\ UNCHANGED <<tabletList, backends, managers, infos, serviceInfos>>
      /\ t \in backends
      /\ ApplyProfile(t, backends)
  BY DEF SetProfile, finderVars
<1>2. QueueType'
  BY <1>0 DEF SetProfile, QueueType, xvars, finderVars
<1>3. /\ current' \in [Tablet -> Profile \cup {NoProfile}]
      /\ serviceProfiles' \in [Tablet -> Profile \cup {NoProfile}]
      /\ \A u \in Tablet :
             \/ u \in backends /\ serviceProfiles'[u] = current'[u]
             \/ /\ current'[u] = current[u]
                /\ serviceProfiles'[u] = serviceProfiles[u]
                /\ u # t
  BY <1>0, <1>1, ApplyProfileKeeps
<1>4. HandlerType'
  BY <1>0, <1>1, <1>3 DEF HandlerType
<1>5. ControlledIsListed'
  BY <1>1 DEF IInv, ControlledIsListed
<1>6. ServiceMirrorsHandler'
  BY <1>1, <1>3 DEF IInv, ServiceMirrorsHandler
<1> QED BY <1>2, <1>4, <1>5, <1>6 DEF IInv

LEMMA StutterKeeps ==
    ASSUME IInv, UNCHANGED vars
    PROVE  IInv'
<1>1. QueueType'
  BY DEF IInv, QueueType, vars, xvars, finderVars
<1>2. UNCHANGED <<tabletList, handlerVars, serviceVars>>
  BY DEF vars, finderVars
<1> QED BY <1>1, <1>2, ListsAlone DEF IInv

\* The inductive invariant: every step of the X server, of the event loop and of
\* the kded module keeps types, lists and mirror together.
THEOREM InvariantHolds == Spec => []IInv
<1>1. IInv /\ [Next]_vars => IInv'
  BY XServerKeeps, EventLoopKeeps, EventLostKeeps, LoadKeeps, UnloadKeeps, SetProfileKeeps,
     StutterKeeps DEF Next
<1> QED BY InitIInv, <1>1, PTL DEF Spec

-----------------------------------------------------------------------------
(* What the records of the finder stand for.                               *)
(*                                                                         *)
(* NoGhostTablet is about the time when no event is under way; what makes  *)
(* it so is that before, for every device of a record that is gone, the    *)
(* event that will erase the record is still to come.  That event erases   *)
(* the first record that lists the id, so the records in front matter.     *)

NumRemovals(d) == Cardinality(Removals(d))

\* The device that made a record known: no older record lists it, and it is there or
\* the event of its removal is still to come.
Rooted(i) ==
    \E ty \in DevType, d \in Id :
        /\ tabletList[i].devs[ty] = d
        /\ Has(tabletList[i].tablet, ty, d) \/ NumRemovals(d) > 0
        /\ \A j \in DOMAIN tabletList : j < i => ~HasDevice(tabletList[j], d)

\* Older records of other tablets that list a device.
OfOthers(t, d) == {info \in Info : info.tablet # t /\ HasDevice(info, d)}
Ahead(i, d) ==
    {j \in DOMAIN tabletList : j < i /\ tabletList[j] \in OfOthers(tabletList[i].tablet, d)}

\* The removals to come are enough for those, and for this record if the device is gone.
Enough(i, ty, d) ==
    /\ Cardinality(Ahead(i, d)) <= NumRemovals(d)
    /\ ~Has(tabletList[i].tablet, ty, d) => Cardinality(Ahead(i, d)) < NumRemovals(d)
Intact(i) == \A ty \in DevType, d \in Id : tabletList[i].devs[ty] = d => Enough(i, ty, d)

\* The record that the handler has of a tablet.
Controls(i, t) ==
    /\ tabletList[i].tablet = t /\ tabletList[i] = infos[t]
    /\ Rooted(i)
    /\ t \notin shadowed => Intact(i)

UniqueIds == \A i, j \in DOMAIN xdevs : xdevs[i].id = xdevs[j].id => i = j

Asleep ==
    /\ ~running => backends = {}
    /\ loads = 0 => ~running /\ tabletList = <<>>
    /\ shadowed \subseteq backends
AllControlled == \A t \in backends : \E i \in DOMAIN tabletList : Controls(i, t)
FirstLife == running /\ loads = 1 => \A i \in DOMAIN tabletList : Rooted(i)

Claimed == IInv /\ UniqueIds /\ Asleep /\ AllControlled /\ FirstLife

\* Positions before n that hold one of T.
Places(s, n, T) == {k \in DOMAIN s : k < n /\ s[k] \in T}

LEMMA PlacesFinite ==
    ASSUME NEW S, NEW s \in Seq(S), NEW n, NEW T
    PROVE  IsFiniteSet(Places(s, n, T)) /\ Cardinality(Places(s, n, T)) \in Nat
<1>1. IsFiniteSet(1..Len(s))
  BY FS_Interval
<1>2. Places(s, n, T) \subseteq 1..Len(s)
  BY DEF Places
<1> QED BY <1>1, <1>2, FS_Subset, FS_CardinalityType

\* Without an element of s the places are one fewer if it was one of them.
LEMMA PlacesRemoved ==
    ASSUME NEW S, NEW s \in Seq(S), NEW r \in Seq(S), NEW i \in DOMAIN s, IsRemoval(r, s, i),
           NEW n \in Nat, NEW T, n # i, NEW m, m = IF n < i THEN n ELSE n - 1
    PROVE  /\ i \in Places(s, n, T) =>
                  Cardinality(Places(r, m, T)) = Cardinality(Places(s, n, T)) - 1
           /\ i \notin Places(s, n, T) =>
                  Cardinality(Places(r, m, T)) = Cardinality(Places(s, n, T))
<1> DEFINE P == Places(s, n, T) \ {i}
           Q == Places(r, m, T)
           f == [k \in P |-> IF k < i THEN k ELSE k - 1]
<1>1. /\ i \in 1..Len(s) /\ DOMAIN s = 1..Len(s) /\ DOMAIN r = 1..Len(r)
      /\ Len(s) \in Nat /\ Len(r) = Len(s) - 1
      /\ \A k \in 1..Len(r) : r[k] = IF k < i THEN s[k] ELSE s[k + 1]
  BY DEF IsRemoval
<1>2. \A k \in P : k \in 1..Len(s) /\ k < n /\ k # i /\ s[k] \in T
  BY <1>1 DEF Places
<1>3. \A k \in P : f[k] \in 1..Len(r) /\ f[k] < m /\ r[f[k]] = s[k]
  <2> SUFFICES ASSUME NEW k \in P
               PROVE  f[k] \in 1..Len(r) /\ f[k] < m /\ r[f[k]] = s[k]
    OBVIOUS
  <2>1. CASE k < i
    BY <1>1, <1>2, <2>1
  <2>2. CASE ~(k < i)
    <3>1. k > i /\ f[k] = k - 1 /\ k - 1 \in 1..Len(r)
      BY <1>1, <1>2, <2>2
    <3>2. r[k - 1] = s[k]
      BY <1>1, <1>2, <3>1
    <3> QED BY <1>1, <1>2, <3>1, <3>2
  <2> QED BY <2>1, <2>2
<1>4. \A q \in Q : \E k \in P : f[k] = q
  <2> SUFFICES ASSUME NEW q \in Q PROVE \E k \in P : f[k] = q
    OBVIOUS
  <2>1. q \in 1..Len(r) /\ q < m /\ r[q] \in T
    BY <1>1 DEF Places
  <2>2. CASE q < i
    <3>1. q \in P
      BY <1>1, <2>1, <2>2 DEF Places
    <3> QED BY <2>2, <3>1
  <2>3. CASE ~(q < i)
    <3>1. q + 1 \in P
      BY <1>1, <2>1, <2>3 DEF Places
    <3> QED BY <1>1, <2>1, <2>3, <3>1
  <2> QED BY <2>2, <2>3
<1>5. f \in Bijection(P, Q)
  <2>1. f \in [P -> Q]
    BY <1>1, <1>2, <1>3 DEF Places
  <2>2. \A a, b \in P : f[a] = f[b] => a = b
    BY <1>1, <1>2
  <2> HIDE DEF f, P, Q
  <2> QED BY <1>4, <2>1, <2>2 DEF Bijection, Injection, IsInjective, Surjection
<1>6. IsFiniteSet(Places(s, n, T)) /\ Cardinality(Places(s, n, T)) \in Nat
  BY PlacesFinite
<1>7. /\ IsFiniteSet(P)
      /\ i \in Places(s, n, T) => Cardinality(P) = Cardinality(Places(s, n, T)) - 1
      /\ i \notin Places(s, n, T) => Cardinality(P) = Cardinality(Places(s, n, T))
  <2> HIDE DEF f, Q
  <2> DEFINE U == Places(s, n, T)
  <2>1. P = U \ {i}
    OBVIOUS
  <2> HIDE DEF P, U
  <2> QED BY <1>6, <2>1, FS_RemoveElement DEF U
<1> HIDE DEF f, P, Q
<1>8. Cardinality(Q) = Cardinality(P)
  BY <1>5, <1>7, FS_Bijection DEF ExistsBijection
<1> QED BY <1>7, <1>8 DEF Q

-----------------------------------------------------------------------------
(* Events under way. *)

LEMMA PlacesOfTail ==
    ASSUME NEW S, NEW s \in Seq(S), NEW r \in Seq(S), s # <<>>, IsRemoval(r, s, 1), NEW T
    PROVE  /\ 1 \in Places(s, Len(s) + 1, T) =>
                  Cardinality(Places(r, Len(s), T)) = Cardinality(Places(s, Len(s) + 1, T)) - 1
           /\ 1 \notin Places(s, Len(s) + 1, T) =>
                  Cardinality(Places(r, Len(s), T)) = Cardinality(Places(s, Len(s) + 1, T))
<1> DEFINE n == Len(s) + 1
           m == Len(s)
<1>1. Len(s) \in Nat /\ Len(s) >= 1 /\ 1 \in DOMAIN s
  OBVIOUS
<1>2. n \in Nat /\ n # 1 /\ m = IF n < 1 THEN n ELSE n - 1
  BY <1>1
<1> HIDE DEF n, m
<1>3. /\ 1 \in Places(s, n, T) =>
             Cardinality(Places(r, m, T)) = Cardinality(Places(s, n, T)) - 1
      /\ 1 \notin Places(s, n, T) =>
             Cardinality(Places(r, m, T)) = Cardinality(Places(s, n, T))
  BY <1>1, <1>2, PlacesRemoved
<1> QED BY <1>3 DEF n, m

Removal(d) == [kind |-> "removed", id |-> d]

LEMMA RemovalsArePlaces ==
    ASSUME QueueType, NEW d
    PROVE  /\ Removals(d) = Places(events, Len(events) + 1, {Removal(d)})
           /\ NumRemovals(d) \in Nat
           /\ NumRemovals(d) > 0 <=> Removals(d) # {}
<1>1. Removals(d) = Places(events, Len(events) + 1, {Removal(d)})
  BY DEF QueueType, Removals, Places, Removal
<1>2. IsFiniteSet(Removals(d)) /\ NumRemovals(d) \in Nat
  BY <1>1, PlacesFinite DEF QueueType, NumRemovals
<1>3. Cardinality(Removals(d)) = 0 <=> Removals(d) = {}
  BY <1>2, FS_EmptySet
<1>4. NumRemovals(d) = 0 <=> Removals(d) = {}
  BY <1>3 DEF NumRemovals
<1>5. NumRemovals(d) > 0 <=> NumRemovals(d) # 0
  BY <1>2
<1> QED BY <1>1, <1>2, <1>4, <1>5, Zenon

LEMMA EventSent ==
    ASSUME QueueType, NEW e \in Event, events' = Append(events, e), NEW d
    PROVE  NumRemovals(d)' = NumRemovals(d) + (IF e = Removal(d) THEN 1 ELSE 0)
<1> DEFINE n == Len(events) + 1
<1>1. events' \in Seq(Event) /\ DOMAIN events' = 1..n /\ n \in Nat /\ DOMAIN events = 1..(n - 1)
  BY DEF QueueType
<1>2. events'[n] = e /\ \A k \in 1..(n - 1) : events'[k] = events[k]
  BY DEF QueueType
<1>3. Removals(d)' = IF e = Removal(d) THEN Removals(d) \cup {n} ELSE Removals(d)
  BY <1>1, <1>2 DEF Removals, Removal
<1>4. IsFiniteSet(Removals(d)) /\ n \notin Removals(d) /\ NumRemovals(d) \in Nat
  <2>1. n \notin Removals(d)
    BY <1>1 DEF Removals
  <2>2. IsFiniteSet(Removals(d))
    BY RemovalsArePlaces, PlacesFinite DEF QueueType
  <2> QED BY <2>1, <2>2, RemovalsArePlaces
<1> HIDE DEF n
<1>5. Cardinality(Removals(d) \cup {n}) = Cardinality(Removals(d)) + 1
  BY <1>4, FS_AddElement
<1> QED BY <1>3, <1>4, <1>5 DEF NumRemovals

LEMMA EventTaken ==
    ASSUME QueueType, events # <<>>, events' = Tail(events), NEW d
    PROVE  NumRemovals(d)' = NumRemovals(d) - (IF Head(events) = Removal(d) THEN 1 ELSE 0)
<1>1. /\ events' \in Seq(Event) /\ Len(events') = Len(events) - 1
      /\ \A k \in 1..Len(events') : events'[k] = events[k + 1]
      /\ Head(events) = events[1] /\ 1 \in DOMAIN events /\ Len(events) \in Nat
  BY HeadTailProperties DEF QueueType
<1>2. IsRemoval(events', events, 1)
  BY <1>1 DEF IsRemoval
<1> DEFINE n == Len(events) + 1
           m == Len(events)
           T == {Removal(d)}
<1>3. /\ 1 \in Places(events, n, T) =>
             Cardinality(Places(events', m, T)) = Cardinality(Places(events, n, T)) - 1
      /\ 1 \notin Places(events, n, T) =>
             Cardinality(Places(events', m, T)) = Cardinality(Places(events, n, T))
  BY <1>1, <1>2, PlacesOfTail DEF QueueType
<1>4. 1 \in Places(events, n, T) <=> Head(events) = Removal(d)
  BY <1>1 DEF Places
<1>5. Places(events', m, T) = Removals(d)'
  BY <1>1 DEF Places, Removals, Removal
<1>6. Places(events, n, T) = Removals(d)
  BY RemovalsArePlaces
<1>7. NumRemovals(d) \in Nat
  BY RemovalsArePlaces
<1> HIDE DEF n, m, T
<1>8. /\ Head(events) = Removal(d) => NumRemovals(d)' = NumRemovals(d) - 1
      /\ Head(events) # Removal(d) => NumRemovals(d)' = NumRemovals(d)
  BY <1>3, <1>4, <1>5, <1>6, Zenon DEF NumRemovals
<1> QED BY <1>7, <1>8

\* The call that is the last one for an event takes it, the others leave it.
LEMMA CallTakes ==
    ASSUME QueueType, events # <<>>, CallDone, NEW d
    PROVE  /\ NumRemovals(d)' \in Nat /\ NumRemovals(d) \in Nat
           /\ NumRemovals(d)' <= NumRemovals(d)
           /\ Head(events) # Removal(d) => NumRemovals(d)' = NumRemovals(d)
           /\ NumRemovals(d)' >= NumRemovals(d) - 1
<1>1. NumRemovals(d) \in Nat /\ (Head(events) = Removal(d) => NumRemovals(d) > 0)
  <2>1. Head(events) = events[1] /\ 1 \in DOMAIN events
    BY HeadTailProperties DEF QueueType
  <2> QED BY <2>1, RemovalsArePlaces DEF Removals, Removal
<1>2. CASE events' = events
  BY <1>1, <1>2 DEF NumRemovals, Removals
<1>3. CASE events' = Tail(events)
  BY <1>1, <1>3, EventTaken
<1> QED BY <1>2, <1>3 DEF CallDone


-----------------------------------------------------------------------------
(* Devices that are there. *)

LEMMA LargestExists ==
    ASSUME NEW n \in Nat, NEW S \in SUBSET (1..n), S # {}
    PROVE  \E m \in S : \A k \in S : k <= m
<1> DEFINE D == {n - k : k \in S}
<1>1. D \subseteq Nat /\ D # {}
  <2>1. \A k \in S : n - k \in Nat
    OBVIOUS
  <2> QED BY <2>1
<1>2. PICK x \in D : \A y \in D : ~(<<y, x>> \in OpToRel(<, Nat))
  <2> HIDE DEF D
  <2> QED BY <1>1, WFMin, NatLessThanWellFounded, Zenon
<1>3. \A y \in D : ~(y < x)
  <2> SUFFICES ASSUME NEW y \in D, y < x PROVE FALSE
    OBVIOUS
  <2>1. <<y, x>> \in Nat \X Nat /\ <<y, x>>[1] < <<y, x>>[2]
    BY <1>1
  <2> HIDE DEF D
  <2>2. <<y, x>> \in OpToRel(<, Nat)
    BY <2>1, Zenon DEF OpToRel
  <2> QED BY <1>2, <2>2
<1>4. PICK m \in S : x = n - m
  OBVIOUS
<1>5. \A k \in S : ~(n - k < n - m)
  BY <1>3, <1>4
<1> QED BY <1>5

LEMMA ScannedIsThere ==
    ASSUME xdevs \in Seq(XDevice), NEW t, NEW ty, ScannedId(t, ty) # NoId
    PROVE  Has(t, ty, ScannedId(t, ty))
<1> DEFINE last == CHOOSE i \in LastPosition(t, ty) : TRUE
<1>1. last \in LastPosition(t, ty) /\ ScannedId(t, ty) = xdevs[last].id
  BY DEF ScannedId
<1> HIDE DEF last
<1>2. last \in DOMAIN xdevs /\ xdevs[last].tablet = t /\ xdevs[last].type = ty
  BY <1>1 DEF LastPosition, Positions, DevicesOf
<1>3. xdevs[last] \in XDevice
  BY <1>2
<1>4. xdevs[last] = [id |-> xdevs[last].id, tablet |-> t, type |-> ty]
  BY <1>2, <1>3 DEF XDevice
<1> QED BY <1>1, <1>2, <1>4 DEF Has, ToSet

\* Of a connected tablet a scan sees at least one device.
LEMMA ConnectedIsScanned ==
    ASSUME xdevs \in Seq(XDevice), NEW t \in Tablet, Connected(t)
    PROVE  \E ty \in DevType, d \in Id : ScannedId(t, ty) = d
<1>1. PICK i \in DevicesOf(t) : TRUE
  BY DEF Connected
<1>2. i \in DOMAIN xdevs /\ xdevs[i].tablet = t /\ xdevs[i] \in XDevice
  BY <1>1 DEF DevicesOf
<1> DEFINE ty == xdevs[i].type
<1>3. ty \in DevType
  BY <1>2, TabletAssumption DEF XDevice
<1>4. i \in Positions(t, ty) /\ Positions(t, ty) \subseteq 1..Len(xdevs) /\ Len(xdevs) \in Nat
  BY <1>1, <1>2 DEF Positions, DevicesOf
<1> HIDE DEF ty
<1>5. LastPosition(t, ty) # {}
  <2>1. PICK m \in Positions(t, ty) : \A k \in Positions(t, ty) : k <= m
    BY <1>4, LargestExists
  <2> QED BY <2>1 DEF LastPosition
<1> DEFINE last == CHOOSE j \in LastPosition(t, ty) : TRUE
<1>6. last \in DOMAIN xdevs
  BY <1>5 DEF LastPosition, Positions, DevicesOf
<1>7. ScannedId(t, ty) = xdevs[last].id
  BY <1>5 DEF ScannedId
<1> HIDE DEF last
<1>8. xdevs[last] \in XDevice
  BY <1>6
<1>9. xdevs[last].id \in Id
  BY <1>8 DEF XDevice
<1> QED BY <1>3, <1>7, <1>9

LEMMA OneOwner ==
    ASSUME UniqueIds, NEW t, NEW u, NEW ty, NEW tu, NEW d, Has(t, ty, d), Has(u, tu, d)
    PROVE  t = u
<1>1. PICK i \in DOMAIN xdevs : xdevs[i] = [id |-> d, tablet |-> t, type |-> ty]
  BY DEF Has, ToSet
<1>2. PICK j \in DOMAIN xdevs : xdevs[j] = [id |-> d, tablet |-> u, type |-> tu]
  BY DEF Has, ToSet
<1>3. xdevs[i].id = xdevs[j].id
  BY <1>1, <1>2
<1>4. i = j
  BY <1>3 DEF UniqueIds
<1> QED BY <1>1, <1>2, <1>4

\* What a scan records of a tablet is there, and no other tablet is recorded with it.
LEMMA ScannedRecord ==
    ASSUME xdevs \in Seq(XDevice), NEW info \in Scan
    PROVE  /\ info.tablet \in Tablet /\ info = ScannedInfo(info.tablet)
           /\ Connected(info.tablet)
           /\ \A ty \in DevType, d \in Id :
                  info.devs[ty] = d => Has(info.tablet, ty, d)
           /\ \E ty \in DevType, d \in Id : info.devs[ty] = d
<1>1. PICK t \in Tablet : Connected(t) /\ info = ScannedInfo(t)
  BY DEF Scan
<1>2. info.tablet = t /\ \A ty \in DevType : info.devs[ty] = ScannedId(t, ty)
  BY <1>1 DEF ScannedInfo
<1>3. \A d \in Id : d # NoId
  BY BoundAssumption DEF Id, NoId
<1>4. ASSUME NEW ty \in DevType, NEW d \in Id, info.devs[ty] = d
      PROVE  Has(t, ty, d)
  BY <1>2, <1>3, <1>4, ScannedIsThere
<1>5. \E ty \in DevType, d \in Id : info.devs[ty] = d
  BY <1>1, <1>2, ConnectedIsScanned
<1> QED BY <1>1, <1>2, <1>4, <1>5

-----------------------------------------------------------------------------
(* What the X server does to ids and events. *)

LEMMA IdsStayUnique ==
    ASSUME QueueType, UniqueIds, XServer
    PROVE  UniqueIds'
<1>1. ASSUME NEW t, NEW ty, XAdd(t, ty)
      PROVE  UniqueIds'
  <2>1. PICK d \in FreeIds :
            xdevs' = Append(xdevs, [id |-> d, tablet |-> t, type |-> ty])
    BY <1>1 DEF XAdd
  <2> DEFINE n == Len(xdevs)
  <2>2. n \in Nat /\ DOMAIN xdevs = 1..n /\ DOMAIN xdevs' = 1..(n + 1)
    BY <2>1 DEF QueueType
  <2>3. xdevs'[n + 1].id = d /\ \A k \in 1..n : xdevs'[k] = xdevs[k]
    BY <2>1 DEF QueueType
  <2>4. \A k \in 1..n : xdevs[k].id # d
    BY <2>1, <2>2 DEF FreeIds
  <2> HIDE DEF n
  <2> SUFFICES ASSUME NEW i \in 1..(n + 1), NEW j \in 1..(n + 1), xdevs'[i].id = xdevs'[j].id
               PROVE  i = j
    BY <2>2 DEF UniqueIds
  <2>5. CASE i \in 1..n /\ j \in 1..n
    BY <2>2, <2>3, <2>5 DEF UniqueIds
  <2>6. CASE ~(i \in 1..n /\ j \in 1..n)
    <3>1. i = n + 1 \/ j = n + 1
      BY <2>2, <2>6
    <3>2. i \in 1..n => xdevs'[i].id # d
      BY <2>3, <2>4
    <3>3. j \in 1..n => xdevs'[j].id # d
      BY <2>3, <2>4
    <3> QED BY <2>2, <2>3, <3>1, <3>2, <3>3
  <2> QED BY <2>5, <2>6
<1>2. ASSUME NEW x \in DOMAIN xdevs, XRemove(x)
      PROVE  UniqueIds'
  <2>1. xdevs' = RemoveAt(xdevs, x)
    BY <1>2 DEF XRemove
  <2>2. xdevs' \in Seq(XDevice) /\ IsRemoval(xdevs', xdevs, x)
    BY <2>1, RemoveAtKeepsOthers DEF QueueType
  <2> DEFINE n == Len(xdevs)
             old(k) == IF k < x THEN k ELSE k + 1
  <2>3. n \in Nat /\ DOMAIN xdevs = 1..n /\ x \in 1..n /\ DOMAIN xdevs' = 1..(n - 1)
    BY <2>2 DEF QueueType, IsRemoval
  <2>4. \A k \in 1..(n - 1) : old(k) \in 1..n /\ xdevs'[k] = xdevs[old(k)]
    BY <2>2, <2>3 DEF IsRemoval
  <2>5. \A i, j \in 1..(n - 1) : old(i) = old(j) => i = j
    BY <2>3
  <2> HIDE DEF n, old
  <2>6. \A i, j \in 1..(n - 1) : xdevs'[i].id = xdevs'[j].id => old(i) = old(j)
    BY <2>3, <2>4 DEF UniqueIds
  <2> QED BY <2>3, <2>5, <2>6 DEF UniqueIds
<1> QED BY <1>1, <1>2 DEF XServer

\* A device that goes leaves the event of its removal.
LEMMA XServerTells ==
    ASSUME QueueType, XServer, NEW d \in Id
    PROVE  /\ NumRemovals(d) \in Nat /\ NumRemovals(d)' \in Nat
           /\ NumRemovals(d)' >= NumRemovals(d)
           /\ \A t, ty : Has(t, ty, d) => Has(t, ty, d)' \/ NumRemovals(d)' > NumRemovals(d)
<1>0. NumRemovals(d) \in Nat
  BY RemovalsArePlaces
<1>1. ASSUME NEW u, NEW tu, XAdd(u, tu)
      PROVE  /\ NumRemovals(d)' = NumRemovals(d)
             /\ \A t, ty : Has(t, ty, d) => Has(t, ty, d)'
  <2>1. PICK e \in FreeIds :
            /\ xdevs' = Append(xdevs, [id |-> e, tablet |-> u, type |-> tu])
            /\ events' = Append(events, [kind |-> "added", id |-> e])
    BY <1>1 DEF XAdd
  <2>2. [kind |-> "added", id |-> e] \in Event /\ [kind |-> "added", id |-> e] # Removal(d)
    BY DEF Event, Removal, FreeIds
  <2>3. NumRemovals(d)' = NumRemovals(d)
    BY <1>0, <2>1, <2>2, EventSent
  <2>4. \A k \in DOMAIN xdevs : k \in DOMAIN xdevs' /\ xdevs'[k] = xdevs[k]
    BY <2>1 DEF QueueType
  <2>5. \A t, ty : Has(t, ty, d) => Has(t, ty, d)'
    BY <2>4 DEF Has, ToSet
  <2> QED BY <2>3, <2>5
<1>2. ASSUME NEW x \in DOMAIN xdevs, XRemove(x)
      PROVE  /\ NumRemovals(d)' \in Nat
             /\ NumRemovals(d)' >= NumRemovals(d)
             /\ \A t, ty : Has(t, ty, d) => Has(t, ty, d)' \/ NumRemovals(d)' > NumRemovals(d)
  <2> DEFINE e == Removal(xdevs[x].id)
  <2>1. xdevs' = RemoveAt(xdevs, x) /\ events' = Append(events, e)
    BY <1>2 DEF XRemove, Removal
  <2>2. xdevs[x] \in XDevice
    BY DEF QueueType
  <2>3. e \in Event /\ (xdevs[x].id = d => e = Removal(d))
    BY <2>2 DEF XDevice, Event, Removal
  <2> HIDE DEF e
  <2>4. /\ e = Removal(d) => NumRemovals(d)' = NumRemovals(d) + 1
        /\ e # Removal(d) => NumRemovals(d)' = NumRemovals(d)
    BY <1>0, <2>1, <2>3, EventSent
  <2>5. ASSUME NEW t, NEW ty, Has(t, ty, d)
        PROVE  Has(t, ty, d)' \/ NumRemovals(d)' > NumRemovals(d)
    <3>1. PICK k \in DOMAIN xdevs : xdevs[k] = [id |-> d, tablet |-> t, type |-> ty]
      BY <2>5 DEF Has, ToSet
    <3>2. CASE k = x
      BY <1>0, <2>3, <2>4, <3>1, <3>2
    <3>3. CASE k # x
      <4>1. PICK j \in DOMAIN xdevs' : xdevs'[j] = xdevs[k]
        BY <2>1, <3>3, RemoveAtKeepsOthers DEF QueueType
      <4> QED BY <3>1, <4>1 DEF Has, ToSet
    <3> QED BY <3>2, <3>3
  <2> QED BY <1>0, <2>4, <2>5
<1>3. CASE \E u, tu : XAdd(u, tu)
  BY <1>0, <1>1, <1>3
<1>4. CASE \E x \in DOMAIN xdevs : XRemove(x)
  BY <1>0, <1>2, <1>4
<1> QED BY <1>3, <1>4 DEF XServer

-----------------------------------------------------------------------------
(* Steps that leave the lists alone. *)

LEMMA AheadFinite ==
    ASSUME QueueType, NEW i, NEW d
    PROVE  /\ Ahead(i, d) = Places(tabletList, i, OfOthers(tabletList[i].tablet, d))
           /\ Cardinality(Ahead(i, d)) \in Nat
<1>1. Ahead(i, d) = Places(tabletList, i, OfOthers(tabletList[i].tablet, d))
  BY DEF Ahead, Places
<1> QED BY <1>1, PlacesFinite DEF QueueType

\* No record loses ground: its devices stay or the event of their removal is new.
Holding ==
    \A d \in Id : Listing(d) # {} =>
        /\ NumRemovals(d) \in Nat /\ NumRemovals(d)' \in Nat
        /\ NumRemovals(d)' >= NumRemovals(d)
        /\ \A t, ty : Has(t, ty, d) => Has(t, ty, d)' \/ NumRemovals(d)' > NumRemovals(d)

LEMMA RecordsStay ==
    ASSUME QueueType, UNCHANGED tabletList, Holding, NEW i \in DOMAIN tabletList
    PROVE  (Rooted(i) => Rooted(i)') /\ (Intact(i) => Intact(i)')
<1>1. ASSUME NEW ty \in DevType, NEW d \in Id, tabletList[i].devs[ty] = d
      PROVE  /\ NumRemovals(d) \in Nat /\ NumRemovals(d)' \in Nat
             /\ NumRemovals(d)' >= NumRemovals(d)
             /\ \A t, tu : Has(t, tu, d) => Has(t, tu, d)' \/ NumRemovals(d)' > NumRemovals(d)
  <2>1. Listing(d) # {}
    BY <1>1 DEF Listing, HasDevice
  <2> QED BY <2>1 DEF Holding
<1>2. Rooted(i) => Rooted(i)'
  <2> SUFFICES ASSUME Rooted(i) PROVE Rooted(i)'
    OBVIOUS
  <2>1. PICK ty \in DevType, d \in Id :
            /\ tabletList[i].devs[ty] = d
            /\ Has(tabletList[i].tablet, ty, d) \/ NumRemovals(d) > 0
            /\ \A j \in DOMAIN tabletList : j < i => ~HasDevice(tabletList[j], d)
    BY DEF Rooted
  <2>2. Has(tabletList[i].tablet, ty, d) =>
            Has(tabletList[i].tablet, ty, d)' \/ NumRemovals(d)' > NumRemovals(d)
    BY <1>1, <2>1
  <2>3. Has(tabletList[i].tablet, ty, d)' \/ NumRemovals(d)' > 0
    BY <1>1, <2>1, <2>2
  <2>4. \A j \in DOMAIN tabletList : HasDevice(tabletList[j], d)' = HasDevice(tabletList[j], d)
    BY DEF HasDevice
  <2> QED BY <2>1, <2>3, <2>4 DEF Rooted
<1>3. Intact(i) => Intact(i)'
  <2> SUFFICES ASSUME Intact(i), NEW ty \in DevType, NEW d \in Id, tabletList[i].devs[ty] = d
               PROVE  Enough(i, ty, d)'
    BY DEF Intact
  <2>1. Ahead(i, d)' = Ahead(i, d)
    BY DEF Ahead, OfOthers, HasDevice
  <2>2. Enough(i, ty, d)
    BY DEF Intact
  <2>3. Cardinality(Ahead(i, d)) \in Nat
    BY AheadFinite
  <2>4. (~Has(tabletList[i].tablet, ty, d))' =>
            ~Has(tabletList[i].tablet, ty, d) \/ NumRemovals(d)' > NumRemovals(d)
    BY <1>1
  <2> QED BY <1>1, <2>1, <2>2, <2>3, <2>4 DEF Enough
<1> QED BY <1>2, <1>3

LEMMA ClaimedStays ==
    ASSUME Claimed, IInv', UniqueIds', Holding,
           UNCHANGED <<tabletList, infos, backends, shadowed, running, loads>>
    PROVE  Claimed'
<1>0. QueueType
  BY DEF Claimed, IInv
<1>1. Asleep'
  BY DEF Claimed, Asleep
<1>2. AllControlled'
  <2>1. ASSUME NEW t \in backends, NEW i \in DOMAIN tabletList, Controls(i, t)
        PROVE  Controls(i, t)'
    BY <1>0, <2>1, RecordsStay DEF Controls
  <2> QED BY <2>1 DEF Claimed, AllControlled
<1>3. FirstLife'
  BY <1>0, RecordsStay DEF Claimed, FirstLife
<1> QED BY <1>1, <1>2, <1>3 DEF Claimed

LEMMA IdsUnchanged ==
    ASSUME UniqueIds, UNCHANGED xdevs
    PROVE  UniqueIds'
BY DEF UniqueIds

-----------------------------------------------------------------------------
(* The steps of the event loop. *)

\* An event that no record is concerned by leaves the records as they are.
LEMMA IgnoredClaimed ==
    ASSUME Claimed, IInv', UNCHANGED <<xdevs, tabletList, infos, backends, shadowed, running, loads>>,
           events # <<>>, CallDone,
           \A d \in Id : Listing(d) # {} => Head(events) # Removal(d)
    PROVE  Claimed'
<1>0. QueueType /\ UniqueIds
  BY DEF Claimed, IInv
<1>1. Holding
  <2> SUFFICES ASSUME NEW d \in Id, Listing(d) # {}
               PROVE  /\ NumRemovals(d) \in Nat /\ NumRemovals(d)' \in Nat
                      /\ NumRemovals(d)' = NumRemovals(d)
                      /\ \A t, ty : Has(t, ty, d) => Has(t, ty, d)'
    BY DEF Holding
  <2>1. NumRemovals(d) \in Nat /\ NumRemovals(d)' \in Nat /\ NumRemovals(d)' = NumRemovals(d)
    BY <1>0, CallTakes
  <2>2. \A t, ty : Has(t, ty, d) => Has(t, ty, d)'
    BY DEF Has
  <2> QED BY <2>1, <2>2
<1>2. UniqueIds'
  BY <1>0, IdsUnchanged
<1> QED BY <1>1, <1>2, ClaimedStays

LEMMA HeadIsEvent ==
    ASSUME QueueType, events # <<>>
    PROVE  Head(events) \in Event /\ Head(events).id \in Id
<1>1. Head(events) \in Event
  BY HeadTailProperties DEF QueueType
<1> QED BY <1>1 DEF Event

LEMMA EarlyReturnsClaimed ==
    ASSUME Claimed, IInv',
           NotifierIgnores \/ OnX11TabletAddedIgnored \/ OnX11TabletRemovedIgnored
    PROVE  Claimed'
<1>0. QueueType /\ UniqueIds
  BY DEF Claimed, IInv
<1>1. CASE NotifierIgnores
  <2>1. /\ UNCHANGED <<xdevs, tabletList, infos, backends, shadowed, running, loads>>
        /\ events # <<>> /\ events' = Tail(events) /\ Head(events).kind = "added"
    BY <1>1 DEF NotifierIgnores, finderVars, handlerVars, Serving
  <2>2. Holding
    <3> SUFFICES ASSUME NEW d \in Id
                 PROVE  /\ NumRemovals(d) \in Nat /\ NumRemovals(d)' = NumRemovals(d)
                        /\ \A t, ty : Has(t, ty, d) => Has(t, ty, d)'
      BY DEF Holding
    <3>1. Head(events) # Removal(d)
      BY <2>1 DEF Removal
    <3>2. NumRemovals(d) \in Nat
      BY <1>0, RemovalsArePlaces
    <3>4. NumRemovals(d)' = NumRemovals(d)
      BY <1>0, <2>1, <3>1, <3>2, EventTaken
    <3>3. \A t, ty : Has(t, ty, d) => Has(t, ty, d)'
      BY <2>1 DEF Has
    <3> QED BY <3>2, <3>3, <3>4
  <2>3. UniqueIds'
    BY <1>0, <2>1, IdsUnchanged
  <2> QED BY <2>1, <2>2, <2>3, ClaimedStays
<1>2. CASE OnX11TabletAddedIgnored
  <2>1. /\ UNCHANGED <<xdevs, tabletList, infos, backends, shadowed, running, loads>>
        /\ events # <<>> /\ CallDone /\ Head(events).kind = "added"
    BY <1>2 DEF OnX11TabletAddedIgnored, finderVars, handlerVars, Serving
  <2>2. \A d \in Id : Head(events) # Removal(d)
    BY <2>1 DEF Removal
  <2> QED BY <2>1, <2>2, IgnoredClaimed
<1>3. CASE OnX11TabletRemovedIgnored
  <2>1. /\ UNCHANGED <<xdevs, tabletList, infos, backends, shadowed, running, loads>>
        /\ events # <<>> /\ CallDone /\ Listing(Head(events).id) = {}
    BY <1>3 DEF OnX11TabletRemovedIgnored, finderVars, handlerVars, Serving
  <2>2. \A d \in Id : Listing(d) # {} => Head(events) # Removal(d)
    BY <2>1 DEF Removal
  <2> QED BY <2>1, <2>2, IgnoredClaimed
<1> QED BY <1>1, <1>2, <1>3

\* A new record stands behind the others: its tablet's device is in no other.
LEMMA AddedClaimed ==
    ASSUME Claimed, IInv', OnX11TabletAdded
    PROVE  Claimed'
<1>n. PICK n : n = Len(tabletList) + 1
  OBVIOUS
<1>e. PICK e : e = Head(events).id
  OBVIOUS
<1>0. /\ QueueType /\ HandlerType /\ UniqueIds /\ Asleep /\ AllControlled /\ FirstLife
      /\ xdevs \in Seq(XDevice)
  BY DEF Claimed, IInv, QueueType
<1>1. PICK info \in Scan :
          /\ HasDevice(info, e)
          /\ tabletList' = Append(tabletList, info)
          /\ HandlerAdded(info)
          /\ shadowed' = IF info.tablet \notin backends /\ IsShadowed(info)
                         THEN shadowed \cup {info.tablet} ELSE shadowed
  BY <1>e DEF OnX11TabletAdded
<1>2. /\ UNCHANGED <<xdevs, running, loads>> /\ running /\ events # <<>> /\ CallDone
      /\ Listing(e) = {} /\ Head(events).kind = "added"
  BY <1>e DEF OnX11TabletAdded, Serving
<1>3. e \in Id
  BY <1>0, <1>2, <1>e, HeadIsEvent
<1>4. \A d \in Id : NumRemovals(d) \in Nat /\ NumRemovals(d)' = NumRemovals(d)
  <2> SUFFICES ASSUME NEW d \in Id PROVE NumRemovals(d) \in Nat /\ NumRemovals(d)' = NumRemovals(d)
    OBVIOUS
  <2>1. Head(events) # Removal(d)
    BY <1>2 DEF Removal
  <2> QED BY <1>0, <1>2, <2>1, CallTakes
<1>5. \A t, ty, d : Has(t, ty, d)' = Has(t, ty, d)
  BY <1>2 DEF Has, ToSet
<1>6. /\ n \in Nat /\ n > 0 /\ DOMAIN tabletList = 1..(n - 1) /\ DOMAIN tabletList' = 1..n
      /\ tabletList'[n] = info /\ \A k \in 1..(n - 1) : tabletList'[k] = tabletList[k]
  <2>1. info \in Info
    BY <1>0, ScanType
  <2> QED BY <1>0, <1>1, <1>n, <2>1 DEF QueueType
<1>7. \A k \in 1..n, d \in Id :
          {j \in DOMAIN tabletList' : j < k /\ tabletList'[j] \in OfOthers(tabletList'[k].tablet, d)} =
          {j \in DOMAIN tabletList : j < k /\ tabletList[j] \in OfOthers(tabletList'[k].tablet, d)}
  BY <1>6
<1>8. ASSUME NEW i \in DOMAIN tabletList
      PROVE  (Rooted(i) => Rooted(i)') /\ (Intact(i) => Intact(i)')
  <2>1. i \in 1..n /\ i < n /\ tabletList'[i] = tabletList[i]
    BY <1>6
  <2>2. Rooted(i) => Rooted(i)'
    <3> SUFFICES ASSUME Rooted(i) PROVE Rooted(i)'
      OBVIOUS
    <3>1. PICK ty \in DevType, d \in Id :
              /\ tabletList[i].devs[ty] = d
              /\ Has(tabletList[i].tablet, ty, d) \/ NumRemovals(d) > 0
              /\ \A j \in DOMAIN tabletList : j < i => ~HasDevice(tabletList[j], d)
      BY DEF Rooted
    <3>2. Has(tabletList[i].tablet, ty, d)' \/ NumRemovals(d)' > 0
      BY <1>2, <1>4, <2>1, <3>1 DEF Has
    <3>3. \A j \in DOMAIN tabletList' : j < i => ~HasDevice(tabletList'[j], d)
      BY <1>6, <2>1, <3>1
    <3>4. tabletList'[i].devs[ty] = d
      BY <2>1, <3>1
    <3> QED BY <3>2, <3>3, <3>4 DEF Rooted, HasDevice
  <2>3. Intact(i) => Intact(i)'
    <3> SUFFICES ASSUME Intact(i), NEW ty \in DevType, NEW d \in Id, tabletList'[i].devs[ty] = d
                 PROVE  Enough(i, ty, d)'
      BY DEF Intact
    <3>1. Ahead(i, d)' = Ahead(i, d)
      BY <1>7, <2>1 DEF Ahead, OfOthers, HasDevice
    <3>2. Enough(i, ty, d)
      BY <2>1 DEF Intact
    <3>3. Has(tabletList[i].tablet, ty, d)' = Has(tabletList[i].tablet, ty, d)
      BY <1>5, <2>1 DEF Has
    <3> QED BY <1>4, <3>1, <3>2, <3>3 DEF Enough
  <2> QED BY <2>2, <2>3
<1>9. Rooted(n)'
  <2>1. PICK ty \in DevType : info.devs[ty] = e
    BY <1>1 DEF HasDevice
  <2>2. Has(info.tablet, ty, e)
    BY <1>0, <1>3, <2>1, ScannedRecord
  <2>3. Has(tabletList[n].tablet, ty, e)'
    BY <1>2, <1>6, <2>2 DEF Has
  <2>4. \A j \in DOMAIN tabletList' : j < n => ~HasDevice(tabletList'[j], e)
    BY <1>2, <1>6 DEF Listing
  <2> QED BY <1>3, <1>6, <2>1, <2>3, <2>4 DEF Rooted, HasDevice
<1>10. ASSUME ~IsShadowed(info)
       PROVE  Intact(n)'
  <2> SUFFICES ASSUME NEW ty \in DevType, NEW d \in Id, tabletList'[n].devs[ty] = d
               PROVE  Enough(n, ty, d)'
    BY DEF Intact
  <2>1. HasDevice(info, d) /\ Has(info.tablet, ty, d)
    BY <1>0, <1>6, ScannedRecord DEF HasDevice
  <2>2. Cardinality(Claims(info.tablet, d)) <= NumRemovals(d)
    <3>1. ~(Cardinality(Claims(info.tablet, d)) > Cardinality(Removals(d)))
      BY <1>10, <2>1 DEF IsShadowed
    <3>2. Claims(info.tablet, d) = Places(tabletList, n, OfOthers(info.tablet, d))
      BY <1>0, <1>6 DEF QueueType, Claims, Places, Listing, OfOthers
    <3>3. Cardinality(Claims(info.tablet, d)) \in Nat
      BY <1>0, <3>2, PlacesFinite DEF QueueType
    <3> QED BY <1>4, <3>1, <3>3 DEF NumRemovals
  <2>3. Ahead(n, d)' = Claims(info.tablet, d)
    <3>1. \A k \in 1..(n - 1) : tabletList[k] \in Info
      BY <1>0, <1>6 DEF QueueType
    <3>2. n \in 1..n /\ \A k \in 1..(n - 1) : k < n
      BY <1>6
    <3>3. Ahead(n, d)' = {j \in DOMAIN tabletList : j < n /\ tabletList[j] \in OfOthers(info.tablet, d)}
      BY <1>6, <1>7, <3>2 DEF Ahead, OfOthers, HasDevice
    <3> QED BY <1>6, <3>1, <3>2, <3>3 DEF Claims, Listing, OfOthers
  <2>4. Has(tabletList[n].tablet, ty, d)'
    BY <1>2, <1>6, <2>1 DEF Has
  <2> QED BY <1>4, <2>2, <2>3, <2>4 DEF Enough
<1>11. AllControlled'
  <2>1. /\ info.tablet \in Tablet
        /\ backends' = backends \cup {info.tablet}
        /\ \A t \in backends : infos'[t] = infos[t]
        /\ info.tablet \notin backends => infos'[info.tablet] = info
    <3>1. info.tablet \in Tablet
      BY <1>0, ScannedRecord
    <3>2. CASE info.tablet \in backends
      BY <1>1, <3>1, <3>2 DEF HandlerAdded, handlerVars
    <3>3. CASE info.tablet \notin backends
      BY <1>0, <1>1, <3>1, <3>3 DEF HandlerAdded, HandlerType
    <3> QED BY <3>1, <3>2, <3>3
  <2>2. ASSUME NEW t \in backends
        PROVE  \E i \in DOMAIN tabletList' : Controls(i, t)'
    <3>1. PICK i \in DOMAIN tabletList : Controls(i, t)
      BY <1>0 DEF AllControlled
    <3>2. i \in DOMAIN tabletList' /\ tabletList'[i] = tabletList[i] /\ infos'[t] = infos[t]
      BY <1>6, <2>1
    <3>3. t \notin shadowed' => t \notin shadowed
      BY <1>1
    <3>4. Controls(i, t)'
      BY <1>8, <3>1, <3>2, <3>3 DEF Controls
    <3> QED BY <3>2, <3>4
  <2>3. ASSUME info.tablet \notin backends
        PROVE  \E i \in DOMAIN tabletList' : Controls(i, info.tablet)'
    <3>1. n \in DOMAIN tabletList' /\ tabletList'[n] = info /\ infos'[info.tablet] = info
      BY <1>6, <2>1, <2>3
    <3>2. info.tablet \notin shadowed' => ~IsShadowed(info)
      BY <1>1, <2>3
    <3>3. Controls(n, info.tablet)'
      BY <1>9, <1>10, <3>1, <3>2 DEF Controls
    <3> QED BY <3>1, <3>3
  <2> QED BY <2>1, <2>2, <2>3 DEF AllControlled
<1>12. Asleep'
  <2>1. backends' = backends \cup {info.tablet}
    <3>1. CASE info.tablet \in backends
      BY <1>1, <3>1 DEF HandlerAdded, handlerVars
    <3>2. CASE info.tablet \notin backends
      BY <1>1, <3>2 DEF HandlerAdded
    <3> QED BY <3>1, <3>2
  <2> QED BY <1>0, <1>1, <1>2, <2>1 DEF Asleep
<1>13. FirstLife'
  <2> SUFFICES ASSUME running', loads' = 1, NEW i \in DOMAIN tabletList'
               PROVE  Rooted(i)'
    BY DEF FirstLife
  <2>1. CASE i = n
    BY <1>9, <2>1
  <2>2. CASE i # n
    <3>1. i \in DOMAIN tabletList
      BY <1>6, <2>2
    <3> QED BY <1>0, <1>2, <1>8, <3>1 DEF FirstLife
  <2> QED BY <2>1, <2>2
<1>14. UniqueIds'
  BY <1>0, <1>2, IdsUnchanged
<1> QED BY <1>11, <1>12, <1>13, <1>14 DEF Claimed

-----------------------------------------------------------------------------
(* An erased record: those behind it move up. *)

Shift(i, x) == IF i < x THEN i ELSE i - 1

LEMMA ShiftedPlaces ==
    ASSUME NEW S, NEW s \in Seq(S), NEW r \in Seq(S), NEW x \in DOMAIN s, IsRemoval(r, s, x)
    PROVE  /\ \A i \in DOMAIN s : i # x => Shift(i, x) \in DOMAIN r /\ r[Shift(i, x)] = s[i]
           /\ \A k \in DOMAIN r : \E i \in DOMAIN s : i # x /\ k = Shift(i, x)
           /\ \A i, j \in DOMAIN s : i # x /\ j # x /\ Shift(j, x) < Shift(i, x) => j < i
<1>1. /\ x \in 1..Len(s) /\ DOMAIN s = 1..Len(s) /\ DOMAIN r = 1..Len(r)
      /\ Len(s) \in Nat /\ Len(r) = Len(s) - 1
      /\ \A k \in 1..Len(r) : r[k] = IF k < x THEN s[k] ELSE s[k + 1]
  BY DEF IsRemoval
<1>2. ASSUME NEW i \in DOMAIN s, i # x
      PROVE  Shift(i, x) \in DOMAIN r /\ r[Shift(i, x)] = s[i]
  <2>1. CASE i < x
    BY <1>1, <2>1 DEF Shift
  <2>2. CASE ~(i < x)
    <3>1. i > x /\ i - 1 \in 1..Len(r) /\ Shift(i, x) = i - 1
      BY <1>1, <1>2, <2>2 DEF Shift
    <3>2. r[i - 1] = s[i]
      BY <1>1, <3>1
    <3> QED BY <1>1, <3>1, <3>2
  <2> QED BY <2>1, <2>2
<1>3. ASSUME NEW k \in DOMAIN r
      PROVE  \E i \in DOMAIN s : i # x /\ k = Shift(i, x)
  <2>1. CASE k < x
    BY <1>1, <2>1 DEF Shift
  <2>2. CASE ~(k < x)
    <3>1. k + 1 \in DOMAIN s /\ k + 1 # x /\ k = Shift(k + 1, x)
      BY <1>1, <2>2 DEF Shift
    <3> QED BY <3>1
  <2> QED BY <2>1, <2>2
<1>4. \A i, j \in DOMAIN s : i # x /\ j # x /\ Shift(j, x) < Shift(i, x) => j < i
  BY <1>1 DEF Shift
<1> QED BY <1>2, <1>3, <1>4

\* What an erased record means to another one: it keeps the device that made it
\* known, and of an older claim on one of its devices there is one less.
LEMMA RecordMoves ==
    ASSUME QueueType, events # <<>>, CallDone, UNCHANGED xdevs,
           NEW e \in Id, e = Head(events).id,
           NEW x \in Listing(e), \A j \in Listing(e) : x <= j,
           tabletList' = RemoveAt(tabletList, x),
           NEW i \in DOMAIN tabletList, i # x, NEW m, m = Shift(i, x)
    PROVE  /\ m \in DOMAIN tabletList' /\ tabletList'[m] = tabletList[i]
           /\ Rooted(i) => Rooted(m)'
           /\ tabletList[i].tablet # tabletList[x].tablet /\ Intact(i) => Intact(m)'
<1>1. /\ x \in DOMAIN tabletList /\ tabletList \in Seq(Info)
      /\ tabletList' \in Seq(Info) /\ IsRemoval(tabletList', tabletList, x)
  BY RemoveAtKeepsOthers DEF Listing, QueueType
<1>2. m \in DOMAIN tabletList' /\ tabletList'[m] = tabletList[i]
  BY <1>1, ShiftedPlaces
<1>3. \A k \in DOMAIN tabletList' : k < m =>
          \E j \in DOMAIN tabletList : j < i /\ tabletList'[k] = tabletList[j]
  <2> SUFFICES ASSUME NEW k \in DOMAIN tabletList', k < m
               PROVE  \E j \in DOMAIN tabletList : j < i /\ tabletList'[k] = tabletList[j]
    OBVIOUS
  <2>1. PICK j \in DOMAIN tabletList : j # x /\ k = Shift(j, x)
    BY <1>1, ShiftedPlaces
  <2>2. j < i /\ tabletList'[k] = tabletList[j]
    BY <1>1, <2>1, ShiftedPlaces
  <2> QED BY <2>2
<1>4. PICK u : u = tabletList[i].tablet
  OBVIOUS
<1>5. \A d \in Id :
          /\ NumRemovals(d) \in Nat /\ NumRemovals(d)' \in Nat
          /\ NumRemovals(d)' >= NumRemovals(d) - 1
          /\ d # e => NumRemovals(d)' = NumRemovals(d)
  <2> SUFFICES ASSUME NEW d \in Id
               PROVE  /\ NumRemovals(d) \in Nat /\ NumRemovals(d)' \in Nat
                      /\ NumRemovals(d)' >= NumRemovals(d) - 1
                      /\ d # e => NumRemovals(d)' = NumRemovals(d)
    OBVIOUS
  <2>1. d # e => Head(events) # Removal(d)
    BY DEF Removal
  <2> QED BY <2>1, CallTakes
<1>6. \A t, ty, d : Has(t, ty, d) => Has(t, ty, d)'
  BY DEF Has
<1>7. ASSUME Rooted(i)
      PROVE  Rooted(m)'
  <2>1. PICK ty \in DevType, d \in Id :
            /\ tabletList[i].devs[ty] = d
            /\ Has(u, ty, d) \/ NumRemovals(d) > 0
            /\ \A j \in DOMAIN tabletList : j < i => ~HasDevice(tabletList[j], d)
    BY <1>4, <1>7 DEF Rooted
  <2>2. d # e
    <3> SUFFICES ASSUME d = e PROVE FALSE
      OBVIOUS
    <3>1. HasDevice(tabletList[x], d) /\ i \in Listing(d)
      BY <2>1 DEF Listing, HasDevice
    <3>2. x < i
      BY <1>1, <3>1 DEF QueueType
    <3> QED BY <1>1, <2>1, <3>1, <3>2
  <2>3. Has(u, ty, d)' \/ NumRemovals(d)' > 0
    BY <1>5, <1>6, <2>1, <2>2
  <2>4. Has(tabletList[m].tablet, ty, d)' \/ NumRemovals(d)' > 0
    BY <1>2, <1>4, <2>3 DEF Has
  <2>5. \A k \in DOMAIN tabletList' : k < m => ~HasDevice(tabletList'[k], d)
    BY <1>3, <2>1 DEF HasDevice
  <2> QED BY <1>2, <2>1, <2>4, <2>5 DEF Rooted, HasDevice
<1>8. ASSUME u # tabletList[x].tablet, Intact(i)
      PROVE  Intact(m)'
  <2> SUFFICES ASSUME NEW ty \in DevType, NEW d \in Id, tabletList'[m].devs[ty] = d
               PROVE  Enough(m, ty, d)'
    BY DEF Intact
  <2>1. Enough(i, ty, d)
    BY <1>2, <1>8 DEF Intact
  <2>2. PICK T : T = OfOthers(u, d)
    OBVIOUS
  <2>3. Ahead(i, d) = Places(tabletList, i, T)
    BY <1>4, <2>2, AheadFinite
  <2>4. Ahead(m, d)' = Places(tabletList', m, T)
    BY <1>2, <1>4, <2>2 DEF Ahead, Places, OfOthers, HasDevice
  <2>5. Cardinality(Ahead(i, d)) \in Nat
    BY AheadFinite
  <2>6. i \in Nat /\ m = IF i < x THEN i ELSE i - 1
    BY DEF QueueType, Shift
  <2>7. /\ x \in Places(tabletList, i, T) =>
               Cardinality(Places(tabletList', m, T)) = Cardinality(Places(tabletList, i, T)) - 1
        /\ x \notin Places(tabletList, i, T) =>
               Cardinality(Places(tabletList', m, T)) = Cardinality(Places(tabletList, i, T))
    BY <1>1, <2>6, PlacesRemoved
  <2>8. ~Has(tabletList[m].tablet, ty, d)' => ~Has(u, ty, d)
    BY <1>2, <1>4 DEF Has
  <2>9. CASE d = e
    <3>1. i \in Listing(e) /\ HasDevice(tabletList[x], d) /\ tabletList[x] \in Info
      BY <1>1, <1>2, <2>9 DEF Listing, HasDevice
    <3>2. x < i
      BY <1>1, <3>1 DEF QueueType
    <3>3. x \in Places(tabletList, i, T)
      BY <1>1, <1>8, <2>2, <3>1, <3>2 DEF Places, OfOthers
    <3> QED BY <1>4, <1>5, <2>1, <2>3, <2>4, <2>5, <2>7, <2>8, <3>3 DEF Enough
  <2>10. CASE d # e
    BY <1>4, <1>5, <2>1, <2>3, <2>4, <2>5, <2>7, <2>8, <2>10 DEF Enough
  <2> QED BY <2>9, <2>10
<1> QED BY <1>2, <1>4, <1>7, <1>8

LEMMA RemovedClaimed ==
    ASSUME Claimed, IInv', OnX11TabletRemoved
    PROVE  Claimed'
<1>e. PICK e : e = Head(events).id
  OBVIOUS
<1>0. /\ QueueType /\ HandlerType /\ UniqueIds /\ Asleep /\ AllControlled /\ FirstLife
      /\ ControlledIsListed
  BY DEF Claimed, IInv
<1>1. /\ UNCHANGED <<xdevs, running, loads>> /\ running /\ events # <<>> /\ CallDone
      /\ shadowed' = shadowed \cap backends'
  BY DEF OnX11TabletRemoved, Serving
<1>2. e \in Id
  BY <1>0, <1>1, <1>e, HeadIsEvent
<1>3. PICK x \in Listing(e) :
          /\ \A j \in Listing(e) : x <= j
          /\ tabletList' = RemoveAt(tabletList, x)
          /\ HandlerRemoved(tabletList[x])
  BY <1>e DEF OnX11TabletRemoved
<1>4. x \in DOMAIN tabletList
  BY DEF Listing
<1>5. PICK z : z = tabletList[x].tablet
  OBVIOUS
<1>6. /\ backends' = backends \ {z}
      /\ \A t \in backends' : t \in backends /\ t # z /\ infos'[t] = infos[t]
  <2>1. z \in backends => infos[z].tablet = z
    BY <1>0 DEF ControlledIsListed, HandlerType
  <2>2. CASE z \in backends
    BY <1>0, <1>3, <1>5, <2>1, <2>2 DEF HandlerRemoved, HandlerType
  <2>3. CASE z \notin backends
    BY <1>3, <1>5, <2>3 DEF HandlerRemoved, handlerVars
  <2> QED BY <2>2, <2>3
<1>7. ASSUME NEW i \in DOMAIN tabletList, i # x, NEW m, m = Shift(i, x)
      PROVE  /\ m \in DOMAIN tabletList' /\ tabletList'[m] = tabletList[i]
             /\ Rooted(i) => Rooted(m)'
             /\ tabletList[i].tablet # z /\ Intact(i) => Intact(m)'
  BY <1>0, <1>1, <1>2, <1>3, <1>5, <1>7, <1>e, RecordMoves
<1>8. AllControlled'
  <2> SUFFICES ASSUME NEW t \in backends'
               PROVE  \E m \in DOMAIN tabletList' : Controls(m, t)'
    BY DEF AllControlled
  <2>1. PICK i \in DOMAIN tabletList : Controls(i, t)
    BY <1>0, <1>6 DEF AllControlled
  <2>2. i # x
    BY <1>5, <1>6, <2>1 DEF Controls
  <2>3. PICK m : m = Shift(i, x)
    OBVIOUS
  <2>4. /\ m \in DOMAIN tabletList' /\ tabletList'[m] = tabletList[i]
        /\ Rooted(i) => Rooted(m)'
        /\ tabletList[i].tablet # z /\ Intact(i) => Intact(m)'
    BY <1>7, <2>2, <2>3
  <2>5. t # z /\ infos'[t] = infos[t] /\ (t \notin shadowed' => t \notin shadowed)
    BY <1>1, <1>6
  <2>6. Controls(m, t)'
    BY <2>1, <2>4, <2>5 DEF Controls
  <2> QED BY <2>4, <2>6
<1>9. Asleep'
  BY <1>0, <1>1 DEF Asleep
<1>10. FirstLife'
  <2> SUFFICES ASSUME running', loads' = 1, NEW m \in DOMAIN tabletList'
               PROVE  Rooted(m)'
    BY DEF FirstLife
  <2>1. PICK i \in DOMAIN tabletList : i # x /\ m = Shift(i, x)
    <3>1. tabletList \in Seq(Info) /\ tabletList' \in Seq(Info) /\ IsRemoval(tabletList', tabletList, x)
      BY <1>0, <1>3, <1>4, RemoveAtKeepsOthers DEF QueueType
    <3> QED BY <1>4, <3>1, ShiftedPlaces
  <2>2. Rooted(i)
    BY <1>0, <1>1 DEF FirstLife
  <2> QED BY <1>7, <2>1, <2>2
<1>11. UniqueIds'
  BY <1>0, <1>1, IdsUnchanged
<1> QED BY <1>8, <1>9, <1>10, <1>11 DEF Claimed

-----------------------------------------------------------------------------
(* Loading and unloading. *)

\* A fresh scan: every record is of another tablet and has what X has.
LEMMA LoadClaimed ==
    ASSUME Claimed, IInv', Load
    PROVE  Claimed'
<1>0. /\ QueueType /\ UniqueIds /\ Asleep /\ AllControlled /\ FirstLife
      /\ xdevs \in Seq(XDevice)
  BY DEF Claimed, IInv, QueueType
<1>1. /\ ~running /\ backends = {} /\ shadowed = {} /\ shadowed' = {} /\ running' /\ loads' = loads + 1
      /\ UNCHANGED <<xdevs, events>> /\ loads \in Nat
  BY <1>0 DEF Load, Asleep, xvars, QueueType
<1>2. UniqueIds'
  BY <1>0, <1>1, IdsUnchanged
<1>3. Asleep'
  BY <1>1 DEF Asleep
<1>4. CASE Scan = {}
  <2>1. UNCHANGED <<tabletList, backends>>
    BY <1>4 DEF Load, handlerVars
  <2>2. AllControlled'
    BY <1>1, <2>1 DEF AllControlled
  <2>3. FirstLife'
    <3>1. loads' = 1 => tabletList' = <<>>
      BY <1>0, <1>1, <2>1 DEF Asleep
    <3> QED BY <3>1 DEF FirstLife
  <2> QED BY <1>2, <1>3, <2>2, <2>3 DEF Claimed
<1>5. CASE Scan # {}
  <2>1. PICK scanned \in BoundedSeq(Scan, MaxId) :
            /\ IsScanOrder(scanned, Scan)
            /\ tabletList' = scanned
            /\ backends' = {t \in Named : Connected(t)}
            /\ infos' = [t \in Tablet |->
                   IF t \in {u \in Named : Connected(u)} THEN ScannedInfo(t) ELSE NoInfo]
    BY <1>5 DEF Load
  <2>2. scanned \in Seq(Scan)
    <3>1. PICK n \in 0..MaxId : scanned \in [1..n -> Scan]
      BY DEF BoundedSeq, SeqOf
    <3> QED BY <3>1, BoundAssumption
  <2>3. ASSUME NEW i \in DOMAIN scanned
        PROVE  Rooted(i)' /\ Intact(i)'
    <3>1. scanned[i] \in Scan
      BY <2>2
    <3>2. PICK u \in Tablet : u = scanned[i].tablet
      BY <1>0, <3>1, ScannedRecord
    <3>3. \A ty \in DevType, d \in Id : scanned[i].devs[ty] = d => Has(u, ty, d)
      BY <1>0, <3>1, <3>2, ScannedRecord
    <3>4. ASSUME NEW j \in DOMAIN scanned, j < i, NEW d \in Id, NEW ty \in DevType,
                 scanned[i].devs[ty] = d, HasDevice(scanned[j], d)
          PROVE  FALSE
      <4>1. scanned[j] \in Scan
        BY <2>2
      <4>2. PICK tj \in DevType : scanned[j].devs[tj] = d
        BY <3>4 DEF HasDevice
      <4>3. scanned[j].tablet \in Tablet /\ Has(scanned[j].tablet, tj, d)
        BY <1>0, <4>1, <4>2, ScannedRecord
      <4>4. scanned[j].tablet = u
        BY <1>0, <3>3, <3>4, <4>3, OneOwner
      <4>5. scanned[j].tablet < scanned[i].tablet
        BY <2>1, <3>4 DEF IsScanOrder
      <4> QED BY <3>2, <4>4, <4>5, TabletAssumption
    <3>5. \A ty, d : Has(u, ty, d) => Has(tabletList[i].tablet, ty, d)'
      BY <1>1, <2>1, <3>2 DEF Has
    <3>6. Rooted(i)'
      <4>1. PICK ty \in DevType, d \in Id : scanned[i].devs[ty] = d
        BY <1>0, <3>1, ScannedRecord
      <4>2. Has(tabletList[i].tablet, ty, d)'
        BY <3>3, <3>5, <4>1
      <4>3. \A j \in DOMAIN tabletList' : j < i => ~HasDevice(tabletList'[j], d)
        BY <2>1, <3>4, <4>1
      <4> QED BY <2>1, <4>1, <4>2, <4>3 DEF Rooted, HasDevice
    <3>7. Intact(i)'
      <4> SUFFICES ASSUME NEW ty \in DevType, NEW d \in Id, tabletList'[i].devs[ty] = d
                   PROVE  Enough(i, ty, d)'
        BY DEF Intact
      <4>1. Ahead(i, d)' = {}
        <5>1. \A j \in DOMAIN tabletList' : j < i => ~HasDevice(tabletList'[j], d)
          BY <2>1, <3>4
        <5> QED BY <5>1 DEF Ahead, OfOthers, HasDevice
      <4>2. Cardinality(Ahead(i, d)') = 0
        BY <4>1, FS_EmptySet
      <4>3. Has(tabletList[i].tablet, ty, d)'
        BY <2>1, <3>3, <3>5
      <4>4. NumRemovals(d) \in Nat
        BY <1>0, RemovalsArePlaces
      <4>5. NumRemovals(d)' = NumRemovals(d)
        BY <1>1 DEF NumRemovals, Removals
      <4> QED BY <4>2, <4>3, <4>4, <4>5 DEF Enough
    <3> QED BY <3>6, <3>7
  <2>4. AllControlled'
    <3> SUFFICES ASSUME NEW t \in backends'
                 PROVE  \E i \in DOMAIN tabletList' : Controls(i, t)'
      BY DEF AllControlled
    <3>1. t \in Tablet /\ t \in Named /\ Connected(t) /\ infos'[t] = ScannedInfo(t)
      BY <2>1, TabletAssumption
    <3>2. ScannedInfo(t) \in Scan
      BY <3>1 DEF Scan
    <3>3. PICK i \in DOMAIN scanned : scanned[i] = ScannedInfo(t)
      BY <2>1, <3>2 DEF IsScanOrder, ToSet
    <3>4. ScannedInfo(t).tablet = t
      BY DEF ScannedInfo
    <3>5. Controls(i, t)'
      BY <2>1, <2>3, <3>1, <3>3, <3>4 DEF Controls
    <3> QED BY <2>1, <3>5
  <2>5. FirstLife'
    BY <2>1, <2>3 DEF FirstLife
  <2> QED BY <1>2, <1>3, <2>4, <2>5 DEF Claimed
<1> QED BY <1>4, <1>5

LEMMA AsleepClaimed ==
    ASSUME Claimed, IInv', UNCHANGED <<xdevs, loads, tabletList>>, ~running',
           backends' = {}, shadowed' = {}, loads = 0 => ~running
    PROVE  Claimed'
<1>1. UniqueIds'
  BY IdsUnchanged DEF Claimed
<1>2. Asleep' /\ AllControlled' /\ FirstLife'
  BY DEF Claimed, Asleep, AllControlled, FirstLife
<1> QED BY <1>1, <1>2 DEF Claimed

\* Every step of the X server, of the event loop and of the kded module keeps the
\* claims of the records.
LEMMA ClaimedKept ==
    ASSUME Claimed, [Next]_vars
    PROVE  Claimed'
<1>0. /\ IInv /\ QueueType /\ UniqueIds /\ Asleep /\ AllControlled /\ FirstLife
  BY DEF Claimed, IInv
<1>i. IInv'
  BY <1>0, XServerKeeps, EventLoopKeeps, EventLostKeeps, LoadKeeps, UnloadKeeps,
     SetProfileKeeps, StutterKeeps DEF Next
<1>1. CASE XServer
  <2>1. UNCHANGED <<tabletList, infos, backends, shadowed, running, loads>>
    BY <1>1 DEF XServer, XAdd, XRemove, finderVars, handlerVars
  <2>2. Holding
    BY <1>0, <1>1, XServerTells DEF Holding
  <2>3. UniqueIds'
    BY <1>0, <1>1, IdsStayUnique
  <2> QED BY <1>i, <2>1, <2>2, <2>3, ClaimedStays
<1>2. CASE EventLoop
  BY <1>i, <1>2, EarlyReturnsClaimed, AddedClaimed, RemovedClaimed DEF EventLoop
<1>3. CASE EventLost
  <2>1. UNCHANGED <<xdevs, loads, tabletList, running, backends, shadowed>> /\ ~running
    BY <1>3 DEF EventLost, finderVars, handlerVars
  <2>2. backends = {} /\ shadowed = {}
    BY <1>0, <2>1 DEF Asleep
  <2> QED BY <1>i, <2>1, <2>2, AsleepClaimed
<1>4. CASE Load
  BY <1>i, <1>4, LoadClaimed
<1>5. CASE Unload
  <2>1. UNCHANGED <<xdevs, loads, tabletList>> /\ ~running' /\ backends' = {} /\ shadowed' = {}
    BY <1>5 DEF Unload, xvars
  <2>2. loads = 0 => ~running
    BY <1>0 DEF Asleep
  <2> QED BY <1>i, <2>1, <2>2, AsleepClaimed
<1>6. CASE UNCHANGED <<xdevs, events, tabletList, infos, backends, shadowed, running, loads>>
  <2>1. UniqueIds'
    BY <1>0, <1>6, IdsUnchanged
  <2>2. Holding
    <3> SUFFICES ASSUME NEW d \in Id
                 PROVE  /\ NumRemovals(d) \in Nat /\ NumRemovals(d)' = NumRemovals(d)
                        /\ \A t, ty : Has(t, ty, d) => Has(t, ty, d)'
      BY DEF Holding
    <3>1. NumRemovals(d) \in Nat
      BY <1>0, RemovalsArePlaces
    <3>2. NumRemovals(d)' = NumRemovals(d)
      BY <1>6 DEF NumRemovals, Removals
    <3>3. \A t, ty : Has(t, ty, d) => Has(t, ty, d)'
      BY <1>6 DEF Has
    <3> QED BY <3>1, <3>2, <3>3
  <2> QED BY <1>i, <1>6, <2>1, <2>2, ClaimedStays
<1>7. CASE \E t \in Tablet : SetProfile(t)
  <2>1. UNCHANGED <<xdevs, events, tabletList, infos, backends, shadowed, running, loads>>
    BY <1>7 DEF SetProfile, xvars, finderVars
  <2> QED BY <1>6, <2>1
<1>8. CASE UNCHANGED vars
  <2>1. UNCHANGED <<xdevs, events, tabletList, infos, backends, shadowed, running, loads>>
    BY <1>8 DEF vars, xvars, finderVars, handlerVars
  <2> QED BY <1>6, <2>1
<1> QED BY <1>1, <1>2, <1>3, <1>4, <1>5, <1>7, <1>8 DEF Next

LEMMA InitClaimed == Init => Claimed
<1> SUFFICES ASSUME Init PROVE Claimed
  OBVIOUS
<1>1. IInv
  BY InitIInv
<1>2. UniqueIds /\ Asleep /\ AllControlled /\ FirstLife
  BY DEF Init, UniqueIds, Asleep, AllControlled, FirstLife
<1> QED BY <1>1, <1>2 DEF Claimed

\* The records stand for devices: in every state, the device that made a record of a
\* controlled tablet known is there or its removal is still to be served, and unless
\* the tablet is shadowed so is each of its devices, also when older records of other
\* tablets are erased first.
THEOREM RecordsStand == Spec => []Claimed
<1>1. Claimed /\ [Next]_vars => Claimed'
  BY ClaimedKept
<1> QED BY InitClaimed, <1>1, PTL DEF Spec

\* Once all events are served no tablet is offered without a device that is there,
\* nor, unless it is shadowed, with a device it has lost, and until the first restart
\* the finder remembers no tablet that is gone.
THEOREM NothingIsLeft == Spec => []NothingLeftBehind
<1>1. Claimed => NothingLeftBehind
  <2> SUFFICES ASSUME Claimed, Quiet PROVE NoGhostTablet /\ FinderForgets
    BY DEF NothingLeftBehind, NoGhostTablet, FinderForgets
  <2>0. QueueType /\ HandlerType /\ AllControlled /\ FirstLife
    BY DEF Claimed, IInv
  <2>1. \A d : NumRemovals(d) = 0
    <3>1. \A d : Removals(d) = {}
      BY DEF Quiet, Removals
    <3> QED BY <3>1, FS_EmptySet DEF NumRemovals
  <2>2. ASSUME NEW i \in DOMAIN tabletList, Rooted(i)
        PROVE  \E ty \in DevType, d \in Id :
                   tabletList[i].devs[ty] = d /\ Has(tabletList[i].tablet, ty, d)
    BY <2>1, <2>2 DEF Rooted
  <2>3. NoGhostTablet
    <3> SUFFICES ASSUME NEW t \in backends
                 PROVE  /\ \E ty \in DevType : Has(t, ty, infos[t].devs[ty])
                        /\ t \notin shadowed =>
                               \A ty \in DevType : infos[t].devs[ty] # NoId =>
                                   Has(t, ty, infos[t].devs[ty])
      BY DEF NoGhostTablet
    <3>1. PICK i \in DOMAIN tabletList : Controls(i, t)
      BY <2>0 DEF AllControlled
    <3>2. tabletList[i] = infos[t] /\ tabletList[i].tablet = t /\ tabletList[i] \in Info
      BY <2>0, <3>1 DEF Controls, QueueType
    <3>3. \E ty \in DevType : Has(t, ty, infos[t].devs[ty])
      BY <2>2, <3>1, <3>2 DEF Controls
    <3>4. ASSUME t \notin shadowed, NEW ty \in DevType, infos[t].devs[ty] # NoId
          PROVE  Has(t, ty, infos[t].devs[ty])
      <4>1. PICK d \in Id : tabletList[i].devs[ty] = d
        BY <3>2, <3>4 DEF Info
      <4>2. Enough(i, ty, d)
        BY <3>1, <3>4, <4>1 DEF Controls, Intact
      <4>3. Cardinality(Ahead(i, d)) \in Nat
        BY <2>0, AheadFinite
      <4> QED BY <2>1, <3>2, <4>1, <4>2, <4>3 DEF Enough
    <3> QED BY <3>3, <3>4
  <2>4. FinderForgets
    <3> SUFFICES ASSUME loads = 1, NEW i \in DOMAIN tabletList
                 PROVE  Connected(tabletList[i].tablet)
      BY DEF FinderForgets
    <3>1. Rooted(i)
      BY <2>0 DEF FirstLife, Quiet
    <3>2. PICK ty \in DevType, d \in Id : Has(tabletList[i].tablet, ty, d)
      BY <2>2, <3>1
    <3> QED BY <3>2 DEF Has, ToSet, Connected, DevicesOf
  <2> QED BY <2>3, <2>4
<1> QED BY RecordsStand, <1>1, PTL

\* The variables keep their types.
THEOREM TypeCorrect == Spec => []TypeOK
<1>1. Claimed => TypeOK
  BY DEF Claimed, IInv, QueueType, HandlerType, Asleep, Event, TypeOK
<1> QED BY RecordsStand, <1>1, PTL

\* The handler's maps agree with each other and with a record of the finder, so that
\* no shortcut or screen change meets a tablet without a profile manager and every
\* controlled tablet can still be told to go; and what D-Bus clients can read is
\* what the handler holds, in every state between two events.
THEOREM HandlerListsAgree == Spec => []ListsAgree
<1>1. IInv => ListsAgree
  BY DEF IInv, ListsAgree
<1> QED BY InvariantHolds, <1>1, PTL

-----------------------------------------------------------------------------
(* TabletLookup. *)

Forms == {"upper", "lower", "short"}

\* A group of a database is of one kind, and so is an entry of the list.
OneKind(g) == ~(g.sensor # NoText /\ AsBool(g.isSensor))
EntryOfOneKind(e) == ~(e.hasPaired /\ e.isSensor)

\* The groups that were saved.
Groups(db) ==
    /\ DOMAIN db \subseteq Serial
    /\ \A t \in DOMAIN db : db[t] \in Group /\ OneKind(db[t])

\* The list: each tablet is in it once.
Entries(l) ==
    /\ l \in Seq(Entry)
    /\ \A i \in DOMAIN l : EntryOfOneKind(l[i])
    /\ \A i, j \in DOMAIN l : l[i].tablet = l[j].tablet => i = j

\* What the widgets show of entry e of list l.
Shows(w, l, e) ==
    /\ w.parts = e.parts /\ w.buttons = e.buttons
    /\ w.kind = KindOf(e) /\ w.comboEnabled = e.hasPaired
    /\ w.combo = Place(l, e, w.combo)

\* The dialog: the list, what is selected in it and what the widgets show of that.
Shown(l, i, w) ==
    /\ Entries(l)
    /\ i \in 0..Len(l) /\ (i = 0 <=> l = <<>>)
    /\ w \in Widgets /\ w.combo \in 0..Len(l) /\ (w.combo = 0 <=> l = <<>>)
    /\ i # 0 => Shows(w, l, l[i])

\* The buttons that were recorded.
Recorded(m, i) ==
    /\ m \in [max : Nat, got : Seq(Nat)]
    /\ Len(m.got) <= m.max
    /\ m # NotMapping => i # 0
    /\ \A n \in DOMAIN m.got : m.got[n] \notin 4..7

\* What the daemon found out; a tablet that no database has yet is known from libwacom.
Found(k, c, db) ==
    /\ c \subseteq Serial /\ DOMAIN k \subseteq c
    /\ \A t \in DOMAIN k : k[t] \in Information
    /\ \A t \in DOMAIN k : ~InDatabase(db, t) => t \in DOMAIN LibWacom /\ k[t] = LookupTabletInfo(t)

LookupInv ==
    /\ Groups(local)
    /\ Found(known, connected, local)
    /\ Shown(list, index, widgets)
    /\ Recorded(mapping, index)

USE DataAssumption

-----------------------------------------------------------------------------
(* Texts and databases. *)

LEMMA TextType ==
    ASSUME NEW t \in Serial, NEW f \in Forms
    PROVE  /\ Text(t, f) \in AnyText /\ Text(t, f).tablet = t
           /\ Text(t, f) # NoText
<1>1. Text(t, f) = [tablet |-> t, form |-> IF f = "lower" /\ t \notin HasLetter THEN "upper" ELSE f]
  BY DEF Text
<1>2. t # 0
  OBVIOUS
<1>3. NoText.tablet = 0
  BY DEF NoText
<1> QED
  BY <1>1, <1>2, <1>3 DEF AnyText, Forms

LEMMA NoTextType == NoText \in AnyText
BY DEF NoText, AnyText

LEMMA InformationType ==
    ASSUME NEW g \in Group
    PROVE  GetInformation(g) \in Information
BY DEF GetInformation, Group, Information, AsBool

LEMMA InformationKind ==
    ASSUME NEW g \in Group, OneKind(g)
    PROVE  ~(GetInformation(g).sensor # NoText /\ GetInformation(g).isSensor)
BY DEF GetInformation, OneKind

LEMMA LookupTabletFinds ==
    ASSUME NEW db, Groups(db), NEW t, InDatabase(db, t)
    PROVE  /\ LookupTablet(db, t) \in Information
           /\ ~(LookupTablet(db, t).sensor # NoText /\ LookupTablet(db, t).isSensor)
<1> DEFINE g == IF t \in DOMAIN db THEN db[t] ELSE DeviceList[t]
<1>1. g \in Group /\ OneKind(g)
  BY DeviceListAssumption DEF InDatabase, Groups, OneKind
<1>2. LookupTablet(db, t) = GetInformation(g)
  BY DEF LookupTablet
<1> HIDE DEF g
<1> QED
  BY <1>1, <1>2, InformationType, InformationKind

LEMMA ConvertEvdevType ==
    ASSUME NEW c \in Nat
    PROVE  ConvertEvdev(c) \in Nat
BY DEF ConvertEvdev, ConvertMouseEvdev, SkipWheelButtons

LEMMA LookupTabletInfoType ==
    ASSUME NEW t \in DOMAIN LibWacom
    PROVE  LookupTabletInfo(t) \in Information
<1> DEFINE device == LibWacom[t]
           numbers == [i \in DOMAIN device.codes |-> ConvertEvdev(device.codes[i])]
           begun == [buttons |-> Len(numbers), map |-> <<>>, parts |-> {}, leds |-> device.leds,
                     sensor |-> NoText, isSensor |-> FALSE]
           sensor == IF device.paired = 0 THEN NoText ELSE Text(device.paired, "short")
           whole == [begun EXCEPT !.map = numbers, !.parts = device.parts, !.sensor = sensor]
<1>1. /\ device.codes \in Seq(Nat) /\ device.leds \in Nat
      /\ device.parts \in SUBSET (Parts \ {"wheel"}) /\ device.paired \in Serial \cup {0}
  BY DEF Codes
<1>2. LookupTabletInfo(t) = IF \E i \in DOMAIN numbers : numbers[i] < 1 THEN begun ELSE whole
  BY DEF LookupTabletInfo
<1>3. numbers \in Seq(Nat) /\ Len(numbers) \in Nat
  <2>2. DOMAIN device.codes = 1..Len(device.codes) /\ Len(device.codes) \in Nat
    BY <1>1
  <2>1. \A i \in 1..Len(device.codes) : ConvertEvdev(device.codes[i]) \in Nat
    <3> HIDE DEF device
    <3> QED
      BY <1>1, ConvertEvdevType, ElementOfSeq
  <2>3. numbers = [i \in 1..Len(device.codes) |-> ConvertEvdev(device.codes[i])]
    BY <2>2
  <2> HIDE DEF device
  <2>4. [i \in 1..Len(device.codes) |-> ConvertEvdev(device.codes[i])] \in Seq(Nat)
    BY <2>1, <2>2, IsASeq
  <2> QED
    BY <2>3, <2>4, LenProperties
<1>4. sensor \in AnyText
  BY <1>1, TextType, NoTextType DEF Forms
<1>5. begun \in Information
  <2> HIDE DEF numbers, device
  <2>1. <<>> \in Seq(Nat) /\ {} \in SUBSET Parts
    OBVIOUS
  <2> QED
    BY <1>1, <1>3, <2>1, NoTextType DEF Information
<1>6. whole \in Information
  <2> HIDE DEF numbers, device, sensor
  <2>1. whole = [buttons |-> Len(numbers), map |-> numbers, parts |-> device.parts,
                 leds |-> device.leds, sensor |-> sensor, isSensor |-> FALSE]
    <3> DEFINE empty == <<>>
               none == {}
               m == [buttons |-> Len(numbers), map |-> empty, parts |-> none, leds |-> device.leds,
                     sensor |-> NoText, isSensor |-> FALSE]
    <3>1. whole = [m EXCEPT !.map = numbers, !.parts = device.parts, !.sensor = sensor]
      OBVIOUS
    <3> HIDE DEF empty, none, whole, begun
    <3> QED
      BY <3>1
  <2> QED
    BY <1>1, <1>3, <1>4, <2>1 DEF Information
<1> HIDE DEF begun, whole, numbers
<1> QED
  BY <1>2, <1>5, <1>6

LEMMA LookupInformationType ==
    ASSUME NEW db, Groups(db), NEW t, Identified(db, t)
    PROVE  LookupInformation(db, t) \in Information
BY LookupTabletFinds, LookupTabletInfoType DEF LookupInformation, Identified

-----------------------------------------------------------------------------
(* The list of the dialog. *)

LEMMA HwMappingType ==
    ASSUME NEW info \in Information
    PROVE  HwMapping(info) \in Seq(Nat)
<1>1. info.buttons \in Nat /\ info.map \in Seq(Nat)
  BY DEF Information
<1>2. \A i \in 1..info.buttons : (IF i \in DOMAIN info.map THEN info.map[i] ELSE i) \in Nat
  BY <1>1, LenProperties, ElementOfSeq
<1>3. [i \in 1..info.buttons |-> IF i \in DOMAIN info.map THEN info.map[i] ELSE i] \in Seq(Nat)
  BY <1>1, <1>2, IsASeq
<1> QED
  BY <1>3 DEF HwMapping

LEMMA LoadEntryType ==
    ASSUME NEW db, Groups(db), NEW t \in Serial
    PROVE  LoadEntry(db, t) \in Entry /\ LoadEntry(db, t).tablet = t
           /\ EntryOfOneKind(LoadEntry(db, t))
<1>1. CASE ~InDatabase(db, t)
  <2>1. LoadEntry(db, t) = NewEntry(t)
    BY <1>1 DEF LoadEntry
  <2>2. <<>> \in Seq(Nat) /\ {} \in SUBSET (Parts \cup Leds)
    OBVIOUS
  <2>3. NewEntry(t) \in Entry
    BY <2>2, NoTextType DEF NewEntry, Entry
  <2>4. NewEntry(t).tablet = t /\ ~NewEntry(t).hasPaired
    BY DEF NewEntry
  <2> QED
    BY <2>1, <2>3, <2>4 DEF EntryOfOneKind
<1>2. CASE InDatabase(db, t)
  <2> DEFINE info == LookupTablet(db, t)
             left == IF info.leds > 4 THEN {"leds left"} ELSE {}
             right == IF info.leds > 0 THEN {"leds right"} ELSE {}
             parts == info.parts \cup left \cup right
             loaded == [tablet |-> t, buttons |-> info.buttons, map |-> HwMapping(info),
                        parts |-> parts, paired |-> info.sensor,
                        hasPaired |-> info.sensor # NoText, isSensor |-> info.isSensor]
  <2>1. LoadEntry(db, t) = loaded
    BY <1>2 DEF LoadEntry
  <2>2. info \in Information /\ ~(info.sensor # NoText /\ info.isSensor)
    BY <1>2, LookupTabletFinds
  <2> HIDE DEF info
  <2>3. /\ info.buttons \in Nat /\ info.parts \in SUBSET Parts /\ info.sensor \in AnyText
        /\ info.isSensor \in BOOLEAN
    BY <2>2 DEF Information
  <2>4. left \subseteq Leds /\ right \subseteq Leds
    BY DEF Leds
  <2> HIDE DEF left, right
  <2>5. parts \in SUBSET (Parts \cup Leds)
    BY <2>3, <2>4
  <2> HIDE DEF parts
  <2>6. loaded \in Entry
    BY <2>2, <2>3, <2>5, HwMappingType DEF Entry
  <2>7. loaded.tablet = t /\ EntryOfOneKind(loaded)
    BY <2>2 DEF EntryOfOneKind
  <2> QED
    BY <2>1, <2>6, <2>7
<1> QED
  BY <1>1, <1>2

\* The place of a tablet in a set is how many are before it: the tablets of a set of n
\* have the places 0 to n - 1, each one of them.
LEMMA InOrderPlaces ==
    ASSUME NEW S \in SUBSET Serial
    PROVE  /\ IsFiniteSet(S) /\ Cardinality(S) \in Nat
           /\ \A i \in 1..Cardinality(S) :
                 \E t \in S : Cardinality({u \in S : u < t}) = i - 1
<1> DEFINE Before(t) == {u \in S : u < t}
           n == Cardinality(S)
           place == [t \in S |-> Cardinality(Before(t))]
<1>1. IsFiniteSet(S) /\ n \in Nat
  BY FS_Subset, FS_CardinalityType
<1>2. \A t \in S : IsFiniteSet(Before(t)) /\ Cardinality(Before(t)) \in 0..n - 1
  <2> SUFFICES ASSUME NEW t \in S
               PROVE  IsFiniteSet(Before(t)) /\ Cardinality(Before(t)) \in 0..n - 1
    OBVIOUS
  <2>1. Before(t) \in SUBSET (S \ {t}) /\ t \in S \ Before(t)
    BY t \in Nat
  <2>2. IsFiniteSet(S \ {t}) /\ Cardinality(S \ {t}) = n - 1
    BY <1>1, FS_RemoveElement
  <2> HIDE DEF Before, n
  <2>3. IsFiniteSet(Before(t)) /\ Cardinality(Before(t)) <= n - 1
    BY <2>1, <2>2, FS_Subset
  <2>4. Cardinality(Before(t)) \in Nat
    BY <2>3, FS_CardinalityType
  <2> QED
    BY <1>1, <2>3, <2>4
<1>3. \A t, u \in S : u < t => Cardinality(Before(u)) < Cardinality(Before(t))
  <2> SUFFICES ASSUME NEW t \in S, NEW u \in S, u < t
               PROVE  Cardinality(Before(u)) < Cardinality(Before(t))
    OBVIOUS
  <2>1. t \in Nat /\ u \in Nat /\ \A v \in S : v \in Nat
    OBVIOUS
  <2>2. Before(u) \in SUBSET Before(t) /\ u \in Before(t) /\ u \notin Before(u)
    <3>1. \A v \in Before(u) : v \in Before(t)
      BY <2>1
    <3>2. u \in Before(t) /\ u \notin Before(u)
      BY <2>1
    <3> HIDE DEF Before
    <3> QED
      BY <3>1, <3>2
  <2> HIDE DEF Before
  <2>3. Cardinality(Before(u)) <= Cardinality(Before(t))
    BY <1>2, <2>2, FS_Subset
  <2>4. Cardinality(Before(u)) # Cardinality(Before(t))
    BY <1>2, <2>2, FS_Subset
  <2> QED
    BY <1>2, <2>3, <2>4
<1>4. place \in Injection(S, 0..n - 1)
  <2> HIDE DEF Before, n
  <2>1. place \in [S -> 0..n - 1]
    BY <1>2
  <2>2. ASSUME NEW t \in S, NEW u \in S, place[t] = place[u]
        PROVE  t = u
    <3>1. t \in Nat /\ u \in Nat
      OBVIOUS
    <3>2. Cardinality(Before(t)) = Cardinality(Before(u))
      BY <2>2
    <3>3. Cardinality(Before(t)) \in Nat
      BY <1>1, <1>2
    <3> QED
      BY <1>3, <3>1, <3>2, <3>3
  <2> QED
    BY <2>1, <2>2 DEF Injection, IsInjective
<1>5. IsFiniteSet(0..n - 1) /\ Cardinality(0..n - 1) = n
  BY <1>1, FS_Interval
<1>6. place \in Surjection(S, 0..n - 1)
  <2> HIDE DEF place
  <2> QED
    BY <1>4, <1>5, FS_Injection
<1>7. ASSUME NEW i \in 1..n PROVE \E t \in S : Cardinality(Before(t)) = i - 1
  <2>1. i - 1 \in 0..n - 1
    BY <1>1
  <2>2. \E t \in S : place[t] = i - 1
    <3> HIDE DEF place
    <3> QED
      BY <1>6, <2>1 DEF Surjection
  <2> QED
    BY <2>2
<1> QED
  BY <1>1, <1>7

LEMMA InOrderLists ==
    ASSUME NEW S \in SUBSET Serial
    PROVE  /\ InOrder(S) \in Seq(S)
           /\ Len(InOrder(S)) = Cardinality(S)
           /\ \A i, j \in DOMAIN InOrder(S) : InOrder(S)[i] = InOrder(S)[j] => i = j
<1> DEFINE n == Cardinality(S)
           At(i) == CHOOSE t \in S : Cardinality({u \in S : u < t}) = i - 1
<1>1. n \in Nat
  BY InOrderPlaces
<1>2. \A i \in 1..n : At(i) \in S /\ Cardinality({u \in S : u < At(i)}) = i - 1
  <2> SUFFICES ASSUME NEW i \in 1..n
               PROVE  At(i) \in S /\ Cardinality({u \in S : u < At(i)}) = i - 1
    OBVIOUS
  <2>1. \E t \in S : Cardinality({u \in S : u < t}) = i - 1
    BY InOrderPlaces
  <2> QED
    BY <2>1, Zenon
<1>3. InOrder(S) = [i \in 1..n |-> At(i)]
  BY DEF InOrder
<1> HIDE DEF n, At
<1>4. [i \in 1..n |-> At(i)] \in Seq(S)
  <2>1. \A i \in 1..n : At(i) \in S
    BY <1>2
  <2> QED
    BY <1>1, <2>1, IsASeq
<1>5. DOMAIN InOrder(S) = 1..n /\ Len(InOrder(S)) = n
  BY <1>1, <1>3, <1>4
<1>6. ASSUME NEW i \in 1..n, NEW j \in 1..n, InOrder(S)[i] = InOrder(S)[j] PROVE i = j
  <2>1. At(i) = At(j)
    BY <1>3, <1>6
  <2>2. i - 1 = j - 1
    BY <1>2, <2>1
  <2> QED
    BY <1>1, <2>2
<1> QED
  BY <1>3, <1>4, <1>5, <1>6 DEF n

LEMMA EntryOf ==
    ASSUME NEW l, Entries(l), NEW i \in DOMAIN l
    PROVE  /\ l[i] \in Entry /\ EntryOfOneKind(l[i]) /\ l[i].tablet \in Serial
           /\ i \in Nat \ {0} /\ DOMAIN l = 1..Len(l) /\ Len(l) \in Nat
<1>1. l \in Seq(Entry) /\ DOMAIN l = 1..Len(l) /\ Len(l) \in Nat
  BY LenProperties DEF Entries
<1>2. l[i] \in Entry
  BY <1>1, ElementOfSeq
<1> QED
  BY <1>1, <1>2 DEF Entries, Entry

\* A tablet of the list has one text, and no other tablet of the list has it.
LEMMA PlaceIsThere ==
    ASSUME NEW l, Entries(l), NEW e, NEW j \in DOMAIN l, NEW otherwise,
           e.paired = Text(l[j].tablet, "lower")
    PROVE  Place(l, e, otherwise) = j
<1> DEFINE places == {k \in DOMAIN l : Text(l[k].tablet, "lower") = e.paired}
<1>1. \A k \in DOMAIN l : l[k].tablet \in Serial
  BY EntryOf
<1>2. \A t, u \in Serial : Text(t, "lower") = Text(u, "lower") => t = u
  BY TextType DEF Forms
<1>3. \A k \in places : k = j
  <2> SUFFICES ASSUME NEW k \in places PROVE k = j
    OBVIOUS
  <2>1. Text(l[k].tablet, "lower") = Text(l[j].tablet, "lower")
    OBVIOUS
  <2>2. l[k].tablet \in Serial /\ l[j].tablet \in Serial
    BY <1>1
  <2>3. l[k].tablet = l[j].tablet
    <3> HIDE DEF places
    <3> QED
      BY <1>2, <2>1, <2>2
  <2> QED
    BY <2>3 DEF Entries
<1>4. places = {j}
  BY <1>3
<1>5. j \in Nat
  BY EntryOf
<1>6. Place(l, e, otherwise) =
        IF places = {} THEN otherwise ELSE CHOOSE k \in places : \A m \in places : k <= m
  BY DEF Place
<1> HIDE DEF places
<1> QED
  BY <1>4, <1>5, <1>6

LEMMA PlaceOtherwise ==
    ASSUME NEW l, NEW e, NEW otherwise,
           \A j \in DOMAIN l : Text(l[j].tablet, "lower") # e.paired
    PROVE  Place(l, e, otherwise) = otherwise
BY DEF Place

\* Either the sensor is in the list and its place the one, or any place will do.
LEMMA PlaceCases ==
    ASSUME NEW l, Entries(l), NEW e, NEW otherwise
    PROVE  \/ /\ Place(l, e, otherwise) \in DOMAIN l
              /\ e.paired = Text(l[Place(l, e, otherwise)].tablet, "lower")
              /\ \A other : Place(l, e, other) = Place(l, e, otherwise)
           \/ /\ Place(l, e, otherwise) = otherwise
              /\ \A other : Place(l, e, other) = other
<1>1. CASE \E j \in DOMAIN l : e.paired = Text(l[j].tablet, "lower")
  <2>1. PICK j \in DOMAIN l : e.paired = Text(l[j].tablet, "lower")
    BY <1>1
  <2>2. \A other : Place(l, e, other) = j
    BY <2>1, PlaceIsThere
  <2> QED
    BY <2>1, <2>2
<1>2. CASE \A j \in DOMAIN l : Text(l[j].tablet, "lower") # e.paired
  <2>1. \A other : Place(l, e, other) = other
    BY <1>2, PlaceOtherwise
  <2> QED
    BY <2>1
<1> QED
  BY <1>1, <1>2

LEMMA PlaceSettles ==
    ASSUME NEW l, Entries(l), NEW e, NEW otherwise
    PROVE  Place(l, e, Place(l, e, otherwise)) = Place(l, e, otherwise)
BY PlaceCases

LEMMA PlaceType ==
    ASSUME NEW l, Entries(l), NEW e, NEW otherwise \in DOMAIN l
    PROVE  Place(l, e, otherwise) \in DOMAIN l
BY PlaceCases

LEMMA WithKindType ==
    ASSUME NEW e \in Entry, NEW k \in Kinds
    PROVE  /\ WithKind(e, k) \in Entry /\ EntryOfOneKind(WithKind(e, k))
           /\ KindOf(WithKind(e, k)) = k
           /\ WithKind(e, k).tablet = e.tablet /\ WithKind(e, k).paired = e.paired
           /\ WithKind(e, k).parts = e.parts /\ WithKind(e, k).buttons = e.buttons
           /\ WithKind(e, k).hasPaired = (k = "parent")
BY DEF WithKind, Entry, EntryOfOneKind, KindOf, Kinds

LEMMA OwnKind ==
    ASSUME NEW e \in Entry, EntryOfOneKind(e)
    PROVE  KindOf(e) \in Kinds /\ WithKind(e, KindOf(e)) = e
<1>1. CASE e.hasPaired
  <2>1. KindOf(e) = "parent"
    BY <1>1 DEF KindOf, EntryOfOneKind
  <2>2. WithKind(e, "parent") = [e EXCEPT !.isSensor = FALSE, !.hasPaired = TRUE]
    BY DEF WithKind
  <2>3. [e EXCEPT !.isSensor = FALSE, !.hasPaired = TRUE] = e
    BY <1>1 DEF Entry, EntryOfOneKind
  <2> QED
    BY <2>1, <2>2, <2>3 DEF Kinds
<1>2. CASE ~e.hasPaired /\ e.isSensor
  <2>1. KindOf(e) = "sensor"
    BY <1>2 DEF KindOf
  <2>2. WithKind(e, "sensor") = [e EXCEPT !.isSensor = TRUE, !.hasPaired = FALSE]
    BY DEF WithKind
  <2>3. [e EXCEPT !.isSensor = TRUE, !.hasPaired = FALSE] = e
    BY <1>2 DEF Entry
  <2> QED
    BY <2>1, <2>2, <2>3 DEF Kinds
<1>3. CASE ~e.hasPaired /\ ~e.isSensor
  <2>1. KindOf(e) = "normal"
    BY <1>3 DEF KindOf
  <2>2. WithKind(e, "normal") = [e EXCEPT !.isSensor = FALSE, !.hasPaired = FALSE]
    BY DEF WithKind
  <2>3. [e EXCEPT !.isSensor = FALSE, !.hasPaired = FALSE] = e
    BY <1>3 DEF Entry
  <2> QED
    BY <2>1, <2>2, <2>3 DEF Kinds
<1> QED
  BY <1>1, <1>2, <1>3

\* The radio buttons: the one of the entry's kind is checked, and the entry stays.
LEMMA ChecksKind ==
    ASSUME NEW e \in Entry, EntryOfOneKind(e), NEW k \in Kinds
    PROVE  Check(Check(Check([entry |-> e, kind |-> k], "normal", ~e.isSensor /\ ~e.hasPaired),
                       "sensor", e.isSensor), "parent", e.hasPaired)
             = [entry |-> e, kind |-> KindOf(e)]
<1>0. e.hasPaired \in BOOLEAN /\ e.isSensor \in BOOLEAN
  BY DEF Entry
<1>1. CASE e.hasPaired
  <2>1. ~e.isSensor /\ KindOf(e) = "parent" /\ WithKind(e, "parent") = e
    BY <1>1, OwnKind DEF EntryOfOneKind, KindOf
  <2> HIDE DEF KindOf, WithKind
  <2> QED
    BY <1>1, <2>1 DEF Check
<1>2. CASE ~e.hasPaired /\ e.isSensor
  <2>1. KindOf(e) = "sensor" /\ WithKind(e, "sensor") = e
    BY <1>2, OwnKind DEF KindOf
  <2> QED
    BY <1>2, <2>1 DEF Check
<1>3. CASE ~e.hasPaired /\ ~e.isSensor
  <2>1. KindOf(e) = "normal" /\ WithKind(e, "normal") = e
    BY <1>3, OwnKind DEF KindOf
  <2> QED
    BY <1>3, <2>1 DEF Check
<1> QED
  BY <1>0, <1>1, <1>2, <1>3

\* Selecting a tablet changes no entry, and the widgets then show it.
LEMMA SelectedShows ==
    ASSUME NEW l, Entries(l), NEW i \in DOMAIN l, NEW w \in Widgets, w.combo \in DOMAIN l
    PROVE  /\ Selected(l, i, w).entry = l[i]
           /\ Selected(l, i, w).widgets \in Widgets
           /\ Selected(l, i, w).widgets.combo \in DOMAIN l
           /\ Shows(Selected(l, i, w).widgets, l, l[i])
<1> DEFINE e == l[i]
           combo == Place(l, e, w.combo)
           shown == [parts |-> e.parts, buttons |-> e.buttons, kind |-> KindOf(e),
                     combo |-> combo, comboEnabled |-> e.hasPaired]
<1>1. e \in Entry /\ EntryOfOneKind(e)
  BY EntryOf
<1>2. w.kind \in Kinds
  BY DEF Widgets
<1>3. Selected(l, i, w) =
        [entry |-> IF combo = w.combo THEN e ELSE PairWith(l, e, combo), widgets |-> shown]
  <2> HIDE DEF e
  <2>1. Check(Check(Check([entry |-> e, kind |-> w.kind], "normal", ~e.isSensor /\ ~e.hasPaired),
                    "sensor", e.isSensor), "parent", e.hasPaired)
          = [entry |-> e, kind |-> KindOf(e)]
    BY <1>1, <1>2, ChecksKind
  <2>2. [entry |-> e, kind |-> KindOf(e)].entry = e /\ [entry |-> e, kind |-> KindOf(e)].kind = KindOf(e)
    OBVIOUS
  <2> QED
    BY <2>1, <2>2, Zenon DEF Selected, e
<1>4. combo \in DOMAIN l
  BY PlaceType
<1>5. combo # w.combo => PairWith(l, e, combo) = e
  <2> SUFFICES ASSUME combo # w.combo PROVE PairWith(l, e, combo) = e
    OBVIOUS
  <2>1. e.paired = Text(l[combo].tablet, "lower")
    BY PlaceCases
  <2>2. PairWith(l, e, combo) = [e EXCEPT !.paired = Text(l[combo].tablet, "lower")]
    BY DEF PairWith
  <2> HIDE DEF e, combo
  <2>3. [e EXCEPT !.paired = e.paired] = e
    BY <1>1 DEF Entry
  <2> QED
    BY <2>1, <2>2, <2>3
<1>6. combo \in Nat
  BY <1>4, EntryOf
<1>7. Place(l, e, combo) = combo
  BY PlaceSettles
<1>8. KindOf(e) \in Kinds
  BY <1>1, OwnKind
<1>9. /\ e.parts \in SUBSET (Parts \cup Leds) /\ e.buttons \in Nat
      /\ e.hasPaired \in BOOLEAN
  BY <1>1 DEF Entry
<1> HIDE DEF e, combo
<1>10. shown \in Widgets /\ shown.combo = combo /\ Shows(shown, l, e)
  BY <1>6, <1>7, <1>8, <1>9 DEF Widgets, Shows
<1> QED
  BY <1>3, <1>4, <1>5, <1>10 DEF e

LEMMA RefreshedEntries ==
    ASSUME NEW db, Groups(db), NEW S \in SUBSET Serial
    PROVE  LET entries == [i \in DOMAIN InOrder(S) |-> LoadEntry(db, InOrder(S)[i])]
           IN  /\ Entries(entries)
               /\ \A i \in DOMAIN entries : entries[i] = LoadEntry(db, entries[i].tablet)
<1> DEFINE serials == InOrder(S)
           entries == [i \in DOMAIN serials |-> LoadEntry(db, serials[i])]
<1>1. serials \in Seq(S) /\ DOMAIN serials = 1..Len(serials) /\ Len(serials) \in Nat
  BY InOrderLists, LenProperties
<1>2. \A i, j \in DOMAIN serials : serials[i] = serials[j] => i = j
  BY InOrderLists
<1> HIDE DEF serials
<1>3. \A i \in DOMAIN serials : serials[i] \in Serial
  BY <1>1, ElementOfSeq
<1>4. \A i \in DOMAIN serials : /\ LoadEntry(db, serials[i]) \in Entry
                                /\ LoadEntry(db, serials[i]).tablet = serials[i]
                                /\ EntryOfOneKind(LoadEntry(db, serials[i]))
  BY <1>3, LoadEntryType
<1>5. entries = [i \in 1..Len(serials) |-> LoadEntry(db, serials[i])]
  BY <1>1
<1>6. entries \in Seq(Entry)
  <2>1. \A i \in 1..Len(serials) : LoadEntry(db, serials[i]) \in Entry
    BY <1>1, <1>4
  <2>2. [i \in 1..Len(serials) |-> LoadEntry(db, serials[i])] \in Seq(Entry)
    BY <1>1, <2>1, IsASeq
  <2> QED
    BY <1>5, <2>2
<1>7. DOMAIN entries = DOMAIN serials /\ \A i \in DOMAIN serials : entries[i] = LoadEntry(db, serials[i])
  OBVIOUS
<1> HIDE DEF entries
<1>8. Entries(entries)
  BY <1>2, <1>4, <1>6, <1>7 DEF Entries
<1>9. \A i \in DOMAIN entries : entries[i] = LoadEntry(db, entries[i].tablet)
  BY <1>4, <1>7
<1> QED
  BY <1>8, <1>9 DEF entries, serials

\* A list that was read anew: each entry is what the databases say.
ReadFrom(db, l) == \A i \in DOMAIN l : l[i] = LoadEntry(db, l[i].tablet)

LEMMA FreshShows ==
    ASSUME NEW db, Groups(db), NEW S \in SUBSET Serial, NEW w \in Widgets
    PROVE  /\ Shown(Fresh(db, S, w).list, Fresh(db, S, w).index, Fresh(db, S, w).widgets)
           /\ ReadFrom(db, Fresh(db, S, w).list)
<1> DEFINE entries == [i \in DOMAIN InOrder(S) |-> LoadEntry(db, InOrder(S)[i])]
           w0 == [w EXCEPT !.combo = 0]
           w1 == [w EXCEPT !.combo = 1]
           first == Selected(entries, 1, w1)
<1>1. Fresh(db, S, w) =
        IF entries = <<>> THEN [list |-> <<>>, index |-> 0, widgets |-> w0]
        ELSE [list |-> [entries EXCEPT ![1] = first.entry], index |-> 1, widgets |-> first.widgets]
  BY DEF Fresh
<1>2. Entries(entries) /\ ReadFrom(db, entries)
  BY RefreshedEntries DEF ReadFrom
<1>3. w0 \in Widgets /\ w1 \in Widgets /\ w0.combo = 0 /\ w1.combo = 1
  BY DEF Widgets
<1> HIDE DEF entries, w0, w1
<1>4. CASE entries = <<>>
  <2>1. /\ Fresh(db, S, w).list = entries /\ Fresh(db, S, w).index = 0
        /\ Fresh(db, S, w).widgets = w0
    BY <1>1, <1>4
  <2>2. Len(entries) = 0
    BY <1>4
  <2> QED
    BY <1>2, <1>3, <1>4, <2>1, <2>2 DEF Shown
<1>5. CASE entries # <<>>
  <2>1. entries \in Seq(Entry) /\ 1 \in DOMAIN entries
    BY <1>2, <1>5 DEF Entries
  <2>2. /\ first.entry = entries[1] /\ first.widgets \in Widgets
        /\ first.widgets.combo \in DOMAIN entries
        /\ Shows(first.widgets, entries, entries[1])
    BY <1>2, <1>3, <2>1, SelectedShows
  <2> HIDE DEF first
  <2>3. [entries EXCEPT ![1] = first.entry] = entries
    BY <2>1, <2>2
  <2>4. /\ Fresh(db, S, w).list = entries /\ Fresh(db, S, w).index = 1
        /\ Fresh(db, S, w).widgets = first.widgets
    BY <1>1, <1>5, <2>3
  <2>5. DOMAIN entries = 1..Len(entries) /\ Len(entries) \in Nat
    BY <1>2, <2>1, EntryOf
  <2> QED
    BY <1>2, <1>5, <2>1, <2>2, <2>4, <2>5 DEF Shown
<1> QED
  BY <1>4, <1>5

-----------------------------------------------------------------------------
(* Saving. *)

\* What saving writes can be read, and a tablet is of one kind in it.
LEMMA SavedGroup ==
    ASSUME NEW e \in Entry, EntryOfOneKind(e)
    PROVE  SaveTabletInfo(e) \in Group /\ OneKind(SaveTabletInfo(e))
<1> DEFINE parts == [p \in Parts |-> IF p \in e.parts THEN "true" ELSE "false"]
           leds == IF Leds \subseteq e.parts THEN 8 ELSE IF Leds \cap e.parts # {} THEN 4 ELSE 0
           sensor == IF e.hasPaired THEN e.paired ELSE NoText
           isSensor == IF e.isSensor THEN "true" ELSE ""
           g == [buttons |-> e.buttons, map |-> e.map, parts |-> parts, leds |-> leds,
                 sensor |-> sensor, isSensor |-> isSensor]
<1>1. SaveTabletInfo(e) = g
  BY DEF SaveTabletInfo
<1>2. e.buttons \in Nat /\ e.map \in Seq(Nat) /\ e.paired \in AnyText
  BY DEF Entry
<1>3. parts \in [Parts -> Words]
  BY DEF Words
<1>4. leds \in Nat
  OBVIOUS
<1>5. sensor \in AnyText
  BY <1>2, NoTextType
<1>6. isSensor \in Words
  BY DEF Words
<1>7. sensor # NoText => ~AsBool(isSensor)
  <2> SUFFICES ASSUME sensor # NoText PROVE ~AsBool(isSensor)
    OBVIOUS
  <2>1. e.hasPaired
    OBVIOUS
  <2>2. isSensor = ""
    BY <2>1 DEF EntryOfOneKind
  <2> HIDE DEF isSensor
  <2> QED
    BY <2>2 DEF AsBool
<1> HIDE DEF parts, leds, sensor, isSensor
<1>8. g \in Group
  BY <1>2, <1>3, <1>4, <1>5, <1>6 DEF Group
<1>9. g.sensor = sensor /\ g.isSensor = isSensor
  OBVIOUS
<1> QED
  BY <1>1, <1>7, <1>8, <1>9 DEF OneKind

LEMMA SavedGroups ==
    ASSUME Groups(local), NEW entries,
           \A e \in entries : e \in Entry /\ EntryOfOneKind(e),
           Save(entries)
    PROVE  Groups(local') /\ DOMAIN local \subseteq DOMAIN local'
<1> DEFINE Its(t) == CHOOSE e \in entries : e.tablet = t
           D == DOMAIN local \cup {e.tablet : e \in entries}
<1>1. local' = [t \in D |-> IF \E e \in entries : e.tablet = t THEN SaveTabletInfo(Its(t))
                            ELSE local[t]]
  BY DEF Save
<1>2. D \subseteq Serial
  BY DEF Groups, Entry
<1>3. ASSUME NEW t \in D PROVE local'[t] \in Group /\ OneKind(local'[t])
  <2>1. CASE \E e \in entries : e.tablet = t
    <3>1. Its(t) \in entries
      BY <2>1
    <3>2. local'[t] = SaveTabletInfo(Its(t))
      BY <1>1, <2>1
    <3> HIDE DEF Its
    <3> QED
      BY <3>1, <3>2, SavedGroup
  <2>2. CASE ~\E e \in entries : e.tablet = t
    <3>1. t \in DOMAIN local /\ local'[t] = local[t]
      BY <1>1, <2>2
    <3> QED
      BY <3>1 DEF Groups
  <2> QED
    BY <2>1, <2>2
<1>4. DOMAIN local' = D
  BY <1>1
<1> HIDE DEF D
<1> QED
  BY <1>2, <1>3, <1>4 DEF Groups, D

OnlyLeft(e) == Leds \cap e.parts = {"leds left"}

\* The LEDs that are on the left and on the right side, by their number.
LeftLeds(n) == IF n > 4 THEN {"leds left"} ELSE {}
RightLeds(n) == IF n > 0 THEN {"leds right"} ELSE {}
SavedLeds(e) == IF Leds \subseteq e.parts THEN 8 ELSE IF Leds \cap e.parts # {} THEN 4 ELSE 0

LEMMA LedsFound ==
    ASSUME NEW e, ~OnlyLeft(e)
    PROVE  LeftLeds(SavedLeds(e)) \cup RightLeds(SavedLeds(e)) = e.parts \cap Leds
<1>1. CASE Leds \subseteq e.parts
  <2>1. SavedLeds(e) = 8
    BY <1>1 DEF SavedLeds
  <2>2. LeftLeds(8) = {"leds left"} /\ RightLeds(8) = {"leds right"}
    BY DEF LeftLeds, RightLeds
  <2>3. e.parts \cap Leds = Leds
    BY <1>1
  <2>4. {"leds left"} \cup {"leds right"} = Leds
    BY DEF Leds
  <2> QED
    BY <2>1, <2>2, <2>3, <2>4
<1>2. CASE ~(Leds \subseteq e.parts) /\ Leds \cap e.parts # {}
  <2>1. SavedLeds(e) = 4
    BY <1>2 DEF SavedLeds
  <2>2. LeftLeds(4) = {} /\ RightLeds(4) = {"leds right"}
    BY DEF LeftLeds, RightLeds
  <2>3. Leds \cap e.parts = {"leds right"}
    <3> DEFINE l == "leds left"
               r == "leds right"
    <3>1. Leds = {l, r} /\ Leds \cap e.parts # {l}
      BY DEF Leds, OnlyLeft
    <3> HIDE DEF l, r
    <3>2. Leds \cap e.parts = {r}
      BY <1>2, <3>1
    <3> QED
      BY <3>2 DEF r
  <2> QED
    BY <2>1, <2>2, <2>3
<1>3. CASE ~(Leds \subseteq e.parts) /\ Leds \cap e.parts = {}
  <2>1. SavedLeds(e) = 0
    BY <1>3 DEF SavedLeds
  <2>2. LeftLeds(0) = {} /\ RightLeds(0) = {}
    BY DEF LeftLeds, RightLeds
  <2> QED
    BY <1>3, <2>1, <2>2
<1> QED
  BY <1>1, <1>2, <1>3

\* Boxes and kinds are written as words.
SavedParts(e) == [p \in Parts |-> IF p \in e.parts THEN "true" ELSE "false"]
SavedIsSensor(e) == IF e.isSensor THEN "true" ELSE ""

LEMMA WordsFound ==
    ASSUME NEW e \in Entry
    PROVE  /\ {p \in Parts : AsBool(SavedParts(e)[p])} = e.parts \cap Parts
           /\ AsBool(SavedIsSensor(e)) = e.isSensor
<1>1. ASSUME NEW p \in Parts PROVE AsBool(SavedParts(e)[p]) <=> p \in e.parts
  <2>1. CASE p \in e.parts
    <3>1. SavedParts(e)[p] = "true"
      BY <2>1 DEF SavedParts
    <3> QED
      BY <2>1, <3>1 DEF AsBool
  <2>2. CASE p \notin e.parts
    <3>1. SavedParts(e)[p] = "false"
      BY <2>2 DEF SavedParts
    <3> QED
      BY <2>2, <3>1 DEF AsBool
  <2> QED
    BY <2>1, <2>2
<1>2. {p \in Parts : AsBool(SavedParts(e)[p])} = e.parts \cap Parts
  BY <1>1
<1>3. e.isSensor \in BOOLEAN
  BY DEF Entry
<1>4. CASE e.isSensor
  <2>1. SavedIsSensor(e) = "true"
    BY <1>4 DEF SavedIsSensor
  <2>2. AsBool("true") = TRUE
    BY DEF AsBool
  <2>3. e.isSensor = TRUE
    BY <1>3, <1>4
  <2> QED
    BY <1>2, <2>1, <2>2, <2>3
<1>5. CASE ~e.isSensor
  <2>1. SavedIsSensor(e) = ""
    BY <1>5 DEF SavedIsSensor
  <2>2. AsBool("") = FALSE
    BY DEF AsBool
  <2>3. e.isSensor = FALSE
    BY <1>3, <1>5
  <2> QED
    BY <1>2, <2>1, <2>2, <2>3
<1> QED
  BY <1>4, <1>5

\* What LoadEntry makes of what SaveTabletInfo wrote.
SameAs(found, e) ==
    /\ found.parts = e.parts /\ KindOf(found) = KindOf(e)
    /\ e.hasPaired => found.paired = e.paired
    /\ found.buttons = e.buttons
    /\ \A b \in 1..e.buttons : found.map[b] = IF b \in DOMAIN e.map THEN e.map[b] ELSE b

LEMMA FoundAgain ==
    ASSUME NEW db, NEW e \in Entry, EntryOfOneKind(e),
           e.tablet \in DOMAIN db, db[e.tablet] = SaveTabletInfo(e),
           ~OnlyLeft(e), e.hasPaired => e.paired # NoText
    PROVE  SameAs(LoadEntry(db, e.tablet), e)
<1> DEFINE t == e.tablet
           g == SaveTabletInfo(e)
           found == LoadEntry(db, t)
           sensor == IF e.hasPaired THEN e.paired ELSE NoText
           info == LookupTablet(db, t)
<1>0. /\ e.buttons \in Nat /\ e.parts \in SUBSET (Parts \cup Leds) /\ e.hasPaired \in BOOLEAN
      /\ e.isSensor \in BOOLEAN
  BY DEF Entry
<1>1. g = [buttons |-> e.buttons, map |-> e.map, parts |-> SavedParts(e), leds |-> SavedLeds(e),
           sensor |-> sensor, isSensor |-> SavedIsSensor(e)]
  BY DEF SaveTabletInfo, SavedParts, SavedLeds, SavedIsSensor
<1>2. info = GetInformation(g)
  BY DEF LookupTablet
<1>3. InDatabase(db, t)
  BY DEF InDatabase
<1>4. found = [tablet |-> t, buttons |-> info.buttons, map |-> HwMapping(info),
               parts |-> info.parts \cup LeftLeds(info.leds) \cup RightLeds(info.leds),
               paired |-> info.sensor, hasPaired |-> info.sensor # NoText,
               isSensor |-> info.isSensor]
  BY <1>3 DEF LoadEntry, LeftLeds, RightLeds
<1> HIDE DEF t, g, sensor, found, info
<1>5. /\ g.buttons = e.buttons /\ g.map = e.map /\ g.parts = SavedParts(e)
      /\ g.leds = SavedLeds(e) /\ g.sensor = sensor /\ g.isSensor = SavedIsSensor(e)
  BY <1>1
<1>6. info = [buttons |-> e.buttons, map |-> e.map, parts |-> e.parts \cap Parts,
              leds |-> SavedLeds(e), sensor |-> sensor, isSensor |-> e.isSensor]
  BY <1>2, <1>5, WordsFound DEF GetInformation
<1>7. /\ info.buttons = e.buttons /\ info.map = e.map /\ info.parts = e.parts \cap Parts
      /\ info.leds = SavedLeds(e) /\ info.sensor = sensor /\ info.isSensor = e.isSensor
  BY <1>6
<1>8. /\ found.buttons = info.buttons /\ found.map = HwMapping(info)
      /\ found.parts = info.parts \cup LeftLeds(info.leds) \cup RightLeds(info.leds)
      /\ found.paired = info.sensor
      /\ found.hasPaired = (info.sensor # NoText) /\ found.isSensor = info.isSensor
  BY <1>4
<1>9. info.sensor # NoText <=> e.hasPaired
  BY <1>7 DEF sensor
<1>10. found.parts = e.parts
  BY <1>0, <1>7, <1>8, LedsFound
<1>11. KindOf(found) = KindOf(e)
  BY <1>0, <1>7, <1>8, <1>9 DEF KindOf
<1>12. e.hasPaired => found.paired = e.paired
  BY <1>7, <1>8 DEF sensor
<1>13. \A b \in 1..e.buttons : found.map[b] = IF b \in DOMAIN e.map THEN e.map[b] ELSE b
  BY <1>7, <1>8 DEF HwMapping
<1>14. found.buttons = e.buttons
  BY <1>7, <1>8
<1>15. SameAs(found, e)
  BY <1>10, <1>11, <1>12, <1>13, <1>14 DEF SameAs
<1> QED
  BY <1>15 DEF found, t

LEMMA SavedIsFound ==
    ASSUME Shown(list, index, widgets)
    PROVE  FoundAsSaved
<1>1. ASSUME NEW i \in DOMAIN list,
             list[i].tablet \in DOMAIN local, local[list[i].tablet] = SaveTabletInfo(list[i]),
             ~OnlyLeft(list[i]), list[i].hasPaired => list[i].paired # NoText
      PROVE  SameAs(LoadEntry(local, list[i].tablet), list[i])
  <2>1. list[i] \in Entry /\ EntryOfOneKind(list[i])
    BY EntryOf DEF Shown
  <2> QED
    BY <1>1, <2>1, FoundAgain
<1> QED
  BY <1>1 DEF FoundAsSaved, SameAs, OnlyLeft

-----------------------------------------------------------------------------
(* Numbers of buttons. *)

LEMMA EvdevRanges ==
    ASSUME NEW c \in Nat
    PROVE  /\ c >= 304 => ConvertEvdev(c) = SkipWheelButtons(c - 304 + 11)
           /\ c >= 294 /\ c < 304 => ConvertEvdev(c) = SkipWheelButtons(c - 294 + 17)
           /\ c >= 272 /\ c < 294 => ConvertEvdev(c) = ConvertMouseEvdev(c)
           /\ c >= 256 /\ c < 272 => ConvertEvdev(c) = SkipWheelButtons(c - 256 + 1)
<1> DEFINE gamepad == SkipWheelButtons(c - 304 + 11)
           base == SkipWheelButtons(c - 294 + 17)
           mouse == ConvertMouseEvdev(c)
           misc == SkipWheelButtons(c - 256 + 1)
           isGamepad == c >= 304
           isBase == c >= 294 /\ c < 304
           isMouse == c >= 272 /\ c < 294
           isMisc == c >= 256 /\ c < 272
<1>1. ConvertEvdev(c) =
        CASE isGamepad -> gamepad
          [] isBase -> base
          [] isMouse -> mouse
          [] isMisc -> misc
          [] OTHER -> 0
  BY Zenon DEF ConvertEvdev
<1>2. /\ isGamepad => ~isBase /\ ~isMouse /\ ~isMisc
      /\ isBase => ~isGamepad /\ ~isMouse /\ ~isMisc
      /\ isMouse => ~isGamepad /\ ~isBase /\ ~isMisc
      /\ isMisc => ~isGamepad /\ ~isBase /\ ~isMouse
  OBVIOUS
<1> HIDE DEF gamepad, base, mouse, misc, isGamepad, isBase, isMouse, isMisc
<1>3. isGamepad => ConvertEvdev(c) = gamepad
  BY <1>1, <1>2, Zenon
<1>4. isBase => ConvertEvdev(c) = base
  BY <1>1, <1>2, Zenon
<1>5. isMouse => ConvertEvdev(c) = mouse
  BY <1>1, <1>2, Zenon
<1>6. isMisc => ConvertEvdev(c) = misc
  BY <1>1, <1>2, Zenon
<1> QED
  BY <1>3, <1>4, <1>5, <1>6, Zenon DEF gamepad, base, mouse, misc, isGamepad, isBase, isMouse, isMisc

\* Key codes, and those codes of a mouse that are known, are different buttons of X; none
\* is the wheel's.
LEMMA KeyButton ==
    ASSUME NEW d \in KeyCodes
    PROVE  /\ d \in Nat /\ (d \in 256..265 \/ d \in 294..303 \/ d \in 304..309)
           /\ ConvertEvdev(d) = IF d <= 258 THEN d - 255 ELSE IF d <= 265 THEN d - 251
                                ELSE IF d >= 304 THEN d - 289 ELSE d - 273
<1>1. d \in Nat /\ (d \in 256..265 \/ d \in 294..303 \/ d \in 304..309)
  BY DEF KeyCodes
<1>2. CASE d \in 256..265
  <2>1. ConvertEvdev(d) = SkipWheelButtons(d - 256 + 1)
    BY <1>1, <1>2, EvdevRanges
  <2> QED
    BY <1>1, <1>2, <2>1 DEF SkipWheelButtons
<1>3. CASE d \in 294..303
  <2>1. ConvertEvdev(d) = SkipWheelButtons(d - 294 + 17)
    BY <1>1, <1>3, EvdevRanges
  <2> QED
    BY <1>1, <1>3, <2>1 DEF SkipWheelButtons
<1>4. CASE d \in 304..309
  <2>1. ConvertEvdev(d) = SkipWheelButtons(d - 304 + 11)
    BY <1>1, <1>4, EvdevRanges
  <2> QED
    BY <1>1, <1>4, <2>1 DEF SkipWheelButtons
<1> QED
  BY <1>1, <1>2, <1>3, <1>4

LEMMA KeysApart ==
    ASSUME NEW c \in KeyCodes
    PROVE  /\ ConvertEvdev(c) \notin 4..7
           /\ \A d \in KeyCodes : ConvertEvdev(c) = ConvertEvdev(d) => c = d
<1>1. /\ c \in Nat /\ (c \in 256..265 \/ c \in 294..303 \/ c \in 304..309)
      /\ ConvertEvdev(c) = IF c <= 258 THEN c - 255 ELSE IF c <= 265 THEN c - 251
                           ELSE IF c >= 304 THEN c - 289 ELSE c - 273
  BY KeyButton
<1>2. ConvertEvdev(c) \notin 4..7
  BY <1>1
<1>3. ASSUME NEW d \in KeyCodes, ConvertEvdev(c) = ConvertEvdev(d) PROVE c = d
  <2>1. /\ d \in Nat /\ (d \in 256..265 \/ d \in 294..303 \/ d \in 304..309)
        /\ ConvertEvdev(d) = IF d <= 258 THEN d - 255 ELSE IF d <= 265 THEN d - 251
                             ELSE IF d >= 304 THEN d - 289 ELSE d - 273
    BY KeyButton
  <2> QED
    BY <1>1, <1>3, <2>1
<1> QED
  BY <1>2, <1>3

LEMMA MouseButton ==
    ASSUME NEW d \in MouseCodes
    PROVE  /\ d \in Nat
           /\ ConvertEvdev(d) = IF d = 272 THEN 1 ELSE IF d = 273 THEN 3 ELSE IF d = 274 THEN 2
                                ELSE IF d = 277 THEN 9 ELSE IF d = 278 THEN 8 ELSE 0
<1>1. d \in Nat /\ d >= 272 /\ d < 294
  BY DEF MouseCodes
<1>2. ConvertEvdev(d) = ConvertMouseEvdev(d)
  BY <1>1, EvdevRanges
<1>3. ConvertMouseEvdev(d) = IF d = 272 THEN 1 ELSE IF d = 273 THEN 3 ELSE IF d = 274 THEN 2
                             ELSE IF d = 277 THEN 9 ELSE IF d = 278 THEN 8 ELSE 0
  BY <1>1 DEF ConvertMouseEvdev
<1> QED
  BY <1>1, <1>2, <1>3

LEMMA MouseApart ==
    ASSUME NEW c \in MouseCodes, ConvertEvdev(c) >= 1
    PROVE  /\ ConvertEvdev(c) \notin 4..7
           /\ \A d \in MouseCodes : ConvertEvdev(c) = ConvertEvdev(d) => c = d
<1>1. ConvertEvdev(c) \notin 4..7
  BY MouseButton
<1>2. ASSUME NEW d \in MouseCodes, ConvertEvdev(c) = ConvertEvdev(d) PROVE c = d
  BY <1>2, MouseButton
<1> QED
  BY <1>1, <1>2

LEMMA WacomApart ==
    ASSUME NEW t \in DOMAIN LibWacom
    PROVE  /\ IsInjective(LookupTabletInfo(t).map)
           /\ Range(LookupTabletInfo(t).map) \cap 4..7 = {}
<1> DEFINE codes == LibWacom[t].codes
           numbers == [i \in DOMAIN codes |-> ConvertEvdev(codes[i])]
<1>1. /\ \A i, j \in DOMAIN codes : codes[i] = codes[j] => i = j
      /\ \/ \A i \in DOMAIN codes : codes[i] \in KeyCodes
         \/ \A i \in DOMAIN codes : codes[i] \in MouseCodes
  BY CodesAssumption DEF IsInjective, Range
<1>2. LookupTabletInfo(t).map = IF \E i \in DOMAIN numbers : numbers[i] < 1 THEN <<>> ELSE numbers
  BY DEF LookupTabletInfo
<1>3. DOMAIN numbers = DOMAIN codes /\ \A i \in DOMAIN codes : numbers[i] = ConvertEvdev(codes[i])
  OBVIOUS
<1>4. \A i \in DOMAIN codes : codes[i] \in Nat
  <2>1. KeyCodes \subseteq Nat /\ MouseCodes \subseteq Nat
    BY DEF KeyCodes, MouseCodes
  <2> HIDE DEF codes
  <2> QED
    BY <1>1, <2>1
<1> HIDE DEF codes, numbers
<1>5. CASE \E i \in DOMAIN numbers : numbers[i] < 1
  <2>1. LookupTabletInfo(t).map = <<>>
    BY <1>2, <1>5
  <2>2. DOMAIN LookupTabletInfo(t).map = {}
    BY <2>1
  <2> QED
    BY <2>2 DEF IsInjective, Range
<1>6. CASE \A i \in DOMAIN numbers : ~(numbers[i] < 1)
  <2>1. LookupTabletInfo(t).map = numbers
    BY <1>2, <1>6
  <2>2. \A i \in DOMAIN codes : ConvertEvdev(codes[i]) >= 1
    BY <1>3, <1>4, <1>6, ConvertEvdevType
  <2>3. \A i \in DOMAIN codes :
           /\ numbers[i] \notin 4..7
           /\ \A j \in DOMAIN codes : numbers[i] = numbers[j] => codes[i] = codes[j]
    <3>1. CASE \A i \in DOMAIN codes : codes[i] \in KeyCodes
      BY <1>3, <3>1, KeysApart
    <3>2. CASE \A i \in DOMAIN codes : codes[i] \in MouseCodes
      BY <1>3, <2>2, <3>2, MouseApart
    <3> QED
      BY <1>1, <3>1, <3>2
  <2> QED
    BY <1>1, <1>3, <2>1, <2>3 DEF IsInjective, Range
<1> QED
  BY <1>5, <1>6

\* A button that the dialog records is the one the X server sent, except that the middle
\* and the right one change places.
LEMMA KeyRecorded ==
    ASSUME NEW b \in XButtons
    PROVE  /\ QtButton2X11Button(QtMouseButton(b)) \in Nat
           /\ QtButton2X11Button(QtMouseButton(b)) \notin 4..7
BY DEF QtButton2X11Button, QtMouseButton

LEMMA WheelIsApart ==
    ASSUME Found(known, connected, local), Recorded(mapping, index)
    PROVE  WheelIsNoButton
<1>1. ASSUME NEW t \in DOMAIN known, ~InDatabase(local, t)
      PROVE  IsInjective(known[t].map) /\ Range(known[t].map) \cap 4..7 = {}
  <2>1. t \in DOMAIN LibWacom /\ known[t] = LookupTabletInfo(t)
    BY <1>1 DEF Found
  <2> QED
    BY <2>1, WacomApart
<1>2. Range(mapping.got) \cap 4..7 = {}
  BY DEF Recorded, Range
<1> QED
  BY <1>1, <1>2 DEF WheelIsNoButton

-----------------------------------------------------------------------------
(* Steps of the daemon. *)

LEMMA PlugKeeps ==
    ASSUME LookupInv, NEW t \in Serial, Plug(t)
    PROVE  LookupInv'
<1>1. Groups(local') /\ Shown(list, index, widgets)' /\ Recorded(mapping, index)'
  BY DEF LookupInv, Plug, FinderKeeps
<1>2. local' = local /\ connected' = connected \cup {t} /\ connected' \subseteq Serial
  BY DEF LookupInv, Plug, FinderKeeps, Found
<1>3. \A u \in DOMAIN known : InDatabase(local', u) = InDatabase(local, u)
  BY <1>2
<1>4. CASE ~Identified(local, t)
  <2>1. known' = known
    BY <1>4 DEF Plug
  <2> QED
    BY <1>1, <1>2, <2>1 DEF LookupInv, Found
<1>5. CASE Identified(local, t)
  <2>1. known' = [u \in DOMAIN known \cup {t} |->
                     IF u = t THEN LookupInformation(local, t) ELSE known[u]]
    BY <1>5 DEF Plug
  <2>2. LookupInformation(local, t) \in Information
    BY <1>5, LookupInformationType DEF LookupInv
  <2>3. ~InDatabase(local, t) =>
           t \in DOMAIN LibWacom /\ LookupInformation(local, t) = LookupTabletInfo(t)
    BY <1>5 DEF Identified, LookupInformation
  <2>4. /\ DOMAIN known \subseteq connected /\ \A u \in DOMAIN known : known[u] \in Information
        /\ \A u \in DOMAIN known : ~InDatabase(local, u) =>
              u \in DOMAIN LibWacom /\ known[u] = LookupTabletInfo(u)
    BY DEF LookupInv, Found
  <2>5. DOMAIN known' = DOMAIN known \cup {t}
    BY <2>1
  <2>6. ASSUME NEW u \in DOMAIN known'
        PROVE  /\ known'[u] \in Information
               /\ ~InDatabase(local', u) => u \in DOMAIN LibWacom /\ known'[u] = LookupTabletInfo(u)
    <3>1. CASE u = t
      BY <1>2, <2>1, <2>2, <2>3, <3>1
    <3>2. CASE u # t
      <4>1. u \in DOMAIN known /\ known'[u] = known[u]
        BY <2>1, <2>5, <3>2
      <4> QED
        BY <1>2, <2>4, <4>1
    <3> QED
      BY <3>1, <3>2
  <2>7. Found(known', connected', local')
    BY <1>2, <2>4, <2>5, <2>6 DEF Found
  <2> QED
    BY <1>1, <2>7 DEF LookupInv
<1> QED
  BY <1>4, <1>5

LEMMA UnplugKeeps ==
    ASSUME LookupInv, NEW t \in Serial, Unplug(t)
    PROVE  LookupInv'
<1>1. Groups(local') /\ Shown(list, index, widgets)' /\ Recorded(mapping, index)'
  BY DEF LookupInv, Unplug, FinderKeeps
<1>2. /\ local' = local /\ connected' = connected \ {t}
      /\ known' = [u \in DOMAIN known \ {t} |-> known[u]]
  BY DEF Unplug, FinderKeeps
<1>3. Found(known', connected', local')
  BY <1>2 DEF LookupInv, Found
<1> QED
  BY <1>1, <1>3 DEF LookupInv

-----------------------------------------------------------------------------
(* Steps of the user. *)

LEMMA DaemonStays ==
    ASSUME LookupInv, DaemonKeeps, UNCHANGED local
    PROVE  Groups(local') /\ Found(known', connected', local')
BY DEF LookupInv, DaemonKeeps

LEMMA NothingRecorded == \A i : Recorded(NotMapping, i)
<1>1. <<>> \in Seq(Nat) /\ Len(<<>>) = 0 /\ DOMAIN <<>> = {}
  OBVIOUS
<1> QED
  BY <1>1 DEF Recorded, NotMapping

LEMMA RefreshKeeps ==
    ASSUME LookupInv, RefreshTabletList
    PROVE  LookupInv' /\ ReadFrom(local, list')
<1>1. Groups(local') /\ Found(known', connected', local')
  BY DaemonStays DEF RefreshTabletList
<1>2. connected \in SUBSET Serial /\ widgets \in Widgets /\ Groups(local)
  BY DEF LookupInv, Found, Shown
<1>3. /\ list' = Fresh(local, connected, widgets).list
      /\ index' = Fresh(local, connected, widgets).index
      /\ widgets' = Fresh(local, connected, widgets).widgets
  BY DEF RefreshTabletList
<1>4. Shown(list', index', widgets') /\ ReadFrom(local, list')
  BY <1>2, <1>3, FreshShows
<1>5. mapping' = NotMapping
  BY DEF RefreshTabletList, Act
<1> QED
  BY <1>1, <1>4, <1>5, NothingRecorded DEF LookupInv

LEMMA SelectionKeeps ==
    ASSUME LookupInv, NEW i \in DOMAIN list, ChangeTabletSelection(i)
    PROVE  LookupInv' /\ list' = list
<1> DEFINE selected == Selected(list, i, widgets)
<1>1. Groups(local') /\ Found(known', connected', local')
  BY DaemonStays DEF ChangeTabletSelection
<1>2. Entries(list) /\ widgets \in Widgets /\ widgets.combo \in DOMAIN list
  <2>1. Shown(list, index, widgets)
    BY DEF LookupInv
  <2>2. DOMAIN list = 1..Len(list) /\ Len(list) \in Nat
    BY <2>1, EntryOf DEF Shown
  <2>3. list # <<>>
    OBVIOUS
  <2> QED
    BY <2>1, <2>2, <2>3 DEF Shown
<1>3. /\ list' = [list EXCEPT ![i] = selected.entry] /\ widgets' = selected.widgets
      /\ index' = i
  BY DEF ChangeTabletSelection
<1>4. /\ selected.entry = list[i] /\ selected.widgets \in Widgets
      /\ selected.widgets.combo \in DOMAIN list
      /\ Shows(selected.widgets, list, list[i])
  BY <1>2, SelectedShows
<1> HIDE DEF selected
<1>5. list' = list
  <2>1. list \in Seq(Entry)
    BY <1>2 DEF Entries
  <2> QED
    BY <1>3, <1>4, <2>1
<1>6. DOMAIN list = 1..Len(list) /\ Len(list) \in Nat
  BY <1>2, EntryOf
<1>7. list # <<>>
  BY <1>6
<1>8. Shown(list, i, widgets')
  BY <1>2, <1>3, <1>4, <1>6, <1>7 DEF Shown
<1>9. mapping' = NotMapping
  BY DEF ChangeTabletSelection, Act
<1> QED
  BY <1>1, <1>3, <1>5, <1>8, <1>9, NothingRecorded DEF LookupInv

SamePlaces(m, l) == \A f, x : Place(m, f, x) = Place(l, f, x)

\* An entry that changes but for its tablet leaves the list one, and every place in it.
LEMMA EntryEdited ==
    ASSUME NEW l, Entries(l), NEW i \in DOMAIN l, NEW e \in Entry, EntryOfOneKind(e),
           e.tablet = l[i].tablet
    PROVE  /\ Entries([l EXCEPT ![i] = e]) /\ Len([l EXCEPT ![i] = e]) = Len(l)
           /\ DOMAIN [l EXCEPT ![i] = e] = DOMAIN l /\ [l EXCEPT ![i] = e][i] = e
           /\ SamePlaces([l EXCEPT ![i] = e], l)
<1> DEFINE m == [l EXCEPT ![i] = e]
<1>1. l \in Seq(Entry) /\ DOMAIN l = 1..Len(l) /\ Len(l) \in Nat
  BY EntryOf DEF Entries
<1>2. m \in Seq(Entry) /\ Len(m) = Len(l) /\ DOMAIN m = DOMAIN l
  BY <1>1, ExceptSeq
<1>3. \A j \in DOMAIN l : m[j] = IF j = i THEN e ELSE l[j]
  BY <1>1
<1> HIDE DEF m
<1>4. \A j \in DOMAIN l : m[j].tablet = l[j].tablet
  BY <1>3
<1>5. Entries(m)
  BY <1>2, <1>3, <1>4 DEF Entries
<1>6. ASSUME NEW f, NEW x PROVE Place(m, f, x) = Place(l, f, x)
  <2> DEFINE Texts(s) == {j \in DOMAIN s : Text(s[j].tablet, "lower") = f.paired}
  <2>1. Texts(m) = Texts(l)
    BY <1>2, <1>4
  <2>2. /\ Place(m, f, x) = IF Texts(m) = {} THEN x ELSE CHOOSE j \in Texts(m) : \A k \in Texts(m) : j <= k
        /\ Place(l, f, x) = IF Texts(l) = {} THEN x ELSE CHOOSE j \in Texts(l) : \A k \in Texts(l) : j <= k
    BY DEF Place
  <2> HIDE DEF Texts
  <2> QED
    BY <2>1, <2>2
<1> QED
  BY <1>2, <1>3, <1>5, <1>6 DEF m, SamePlaces

LEMMA EditShown ==
    ASSUME NEW l, NEW i, NEW w, Shown(l, i, w), i # 0,
           NEW e \in Entry, EntryOfOneKind(e), e.tablet = l[i].tablet,
           NEW v \in Widgets, v.combo \in DOMAIN l, Shows(v, l, e)
    PROVE  Shown([l EXCEPT ![i] = e], i, v)
<1> DEFINE m == [l EXCEPT ![i] = e]
<1>1. Entries(l) /\ i \in 0..Len(l) /\ Len(l) \in Nat
  BY LenProperties DEF Shown, Entries
<1>2. DOMAIN l = 1..Len(l) /\ i \in DOMAIN l
  BY <1>1, LenProperties DEF Entries
<1>3. /\ Entries(m) /\ Len(m) = Len(l) /\ DOMAIN m = DOMAIN l /\ m[i] = e
      /\ SamePlaces(m, l)
  BY <1>1, <1>2, EntryEdited
<1> HIDE DEF m
<1>4. m # <<>>
  BY <1>2, <1>3
<1>5. Shows(v, m, m[i])
  BY <1>3 DEF Shows, SamePlaces
<1> QED
  BY <1>1, <1>2, <1>3, <1>4, <1>5 DEF Shown, m

\* Before the user changes something: the entry that is selected.
LEMMA Selection ==
    ASSUME LookupInv, index # 0
    PROVE  /\ list[index] \in Entry /\ EntryOfOneKind(list[index]) /\ index \in DOMAIN list
           /\ Entries(list) /\ widgets \in Widgets /\ widgets.combo \in DOMAIN list
           /\ Shows(widgets, list, list[index]) /\ Shown(list, index, widgets)
<1>1. Shown(list, index, widgets)
  BY DEF LookupInv
<1>2. Len(list) \in Nat /\ DOMAIN list = 1..Len(list)
  BY <1>1, LenProperties DEF Shown, Entries
<1>3. index \in DOMAIN list /\ widgets.combo \in DOMAIN list
  BY <1>1, <1>2 DEF Shown
<1> QED
  BY <1>1, <1>3, EntryOf DEF Shown

LEMMA TogglePartKeeps ==
    ASSUME LookupInv, NEW p \in Parts \cup Leds, TogglePart(p)
    PROVE  LookupInv'
<1> DEFINE parts == widgets.parts
           e == list[index]
           toggled == IF p \in parts THEN parts \ {p} ELSE parts \cup {p}
           f == [e EXCEPT !.parts = toggled]
           w == [widgets EXCEPT !.parts = toggled]
<1>1. Groups(local') /\ Found(known', connected', local')
  BY DaemonStays DEF TogglePart
<1>2. /\ e \in Entry /\ EntryOfOneKind(e) /\ index \in DOMAIN list
      /\ Entries(list) /\ widgets \in Widgets /\ widgets.combo \in DOMAIN list
      /\ Shows(widgets, list, e) /\ Shown(list, index, widgets) /\ index # 0
  BY Selection DEF TogglePart, EditEntry
<1>3. e.parts = parts
  BY <1>2 DEF Shows
<1>4. list' = [list EXCEPT ![index] = f] /\ widgets' = w /\ index' = index
  BY <1>3 DEF TogglePart
<1>5. toggled \in SUBSET (Parts \cup Leds)
  BY <1>2 DEF Widgets
<1> HIDE DEF toggled, e
<1>6. /\ f \in Entry /\ EntryOfOneKind(f) /\ f.tablet = e.tablet /\ f.paired = e.paired
      /\ KindOf(f) = KindOf(e) /\ f.parts = toggled /\ f.buttons = e.buttons
      /\ f.hasPaired = e.hasPaired
  BY <1>2, <1>5 DEF Entry, EntryOfOneKind, KindOf
<1>7. w \in Widgets /\ w.parts = toggled /\ w.buttons = widgets.buttons /\ w.kind = widgets.kind
      /\ w.combo = widgets.combo /\ w.comboEnabled = widgets.comboEnabled
  BY <1>2, <1>5 DEF Widgets
<1> HIDE DEF f, w
<1>8. Place(list, f, w.combo) = Place(list, e, widgets.combo)
  BY <1>6, <1>7 DEF Place
<1>9. Shows(w, list, f)
  BY <1>2, <1>6, <1>7, <1>8 DEF Shows
<1>10. Shown(list', index', widgets')
  BY <1>2, <1>4, <1>6, <1>7, <1>9, EditShown DEF e
<1>11. mapping' = NotMapping
  BY DEF TogglePart, EditEntry, Act
<1> QED
  BY <1>1, <1>10, <1>11, NothingRecorded DEF LookupInv

LEMMA NumbersKeep ==
    ASSUME LookupInv, NEW n \in ButtonNumbers, OnExpressKeyNumbersChanged(n)
    PROVE  LookupInv'
<1> DEFINE e == list[index]
           f == [e EXCEPT !.buttons = n]
           w == [widgets EXCEPT !.buttons = n]
<1>1. Groups(local') /\ Found(known', connected', local')
  BY DaemonStays DEF OnExpressKeyNumbersChanged
<1>2. /\ e \in Entry /\ EntryOfOneKind(e) /\ index \in DOMAIN list
      /\ Entries(list) /\ widgets \in Widgets /\ widgets.combo \in DOMAIN list
      /\ Shows(widgets, list, e) /\ Shown(list, index, widgets) /\ index # 0
  BY Selection DEF OnExpressKeyNumbersChanged, EditEntry
<1>3. list' = [list EXCEPT ![index] = f] /\ widgets' = w /\ index' = index
  BY DEF OnExpressKeyNumbersChanged
<1>4. n \in Nat
  OBVIOUS
<1> HIDE DEF e
<1>5. /\ f \in Entry /\ EntryOfOneKind(f) /\ f.tablet = e.tablet /\ f.paired = e.paired
      /\ KindOf(f) = KindOf(e) /\ f.parts = e.parts /\ f.buttons = n
      /\ f.hasPaired = e.hasPaired
  BY <1>2, <1>4 DEF Entry, EntryOfOneKind, KindOf
<1>6. w \in Widgets /\ w.parts = widgets.parts /\ w.buttons = n /\ w.kind = widgets.kind
      /\ w.combo = widgets.combo /\ w.comboEnabled = widgets.comboEnabled
  BY <1>2, <1>4 DEF Widgets
<1> HIDE DEF f, w
<1>7. Place(list, f, w.combo) = Place(list, e, widgets.combo)
  BY <1>5, <1>6 DEF Place
<1>8. Shows(w, list, f)
  BY <1>2, <1>5, <1>6, <1>7 DEF Shows
<1>9. Shown(list', index', widgets')
  BY <1>2, <1>3, <1>5, <1>6, <1>8, EditShown DEF e
<1>10. mapping' = NotMapping
  BY DEF OnExpressKeyNumbersChanged, EditEntry, Act
<1> QED
  BY <1>1, <1>9, <1>10, NothingRecorded DEF LookupInv

\* A tablet that becomes a parent has the sensor that was shown all along.
LEMMA ChooseKindKeeps ==
    ASSUME LookupInv, NEW k \in Kinds, ChooseKind(k)
    PROVE  LookupInv'
<1> DEFINE e == list[index]
           f == WithKind(e, k)
           isParent == k = "parent"
           w == [widgets EXCEPT !.kind = k, !.comboEnabled = isParent]
<1>1. Groups(local') /\ Found(known', connected', local')
  BY DaemonStays DEF ChooseKind
<1>2. /\ e \in Entry /\ EntryOfOneKind(e) /\ index \in DOMAIN list
      /\ Entries(list) /\ widgets \in Widgets /\ widgets.combo \in DOMAIN list
      /\ Shows(widgets, list, e) /\ Shown(list, index, widgets) /\ index # 0
  BY Selection DEF ChooseKind, EditEntry
<1>3. list' = [list EXCEPT ![index] = f] /\ widgets' = w /\ index' = index
  BY DEF ChooseKind
<1> HIDE DEF e
<1>4. /\ f \in Entry /\ EntryOfOneKind(f) /\ KindOf(f) = k
      /\ f.tablet = e.tablet /\ f.paired = e.paired
      /\ f.parts = e.parts /\ f.buttons = e.buttons /\ f.hasPaired = isParent
  BY <1>2, WithKindType
<1>5. isParent \in BOOLEAN
  OBVIOUS
<1> HIDE DEF isParent
<1>6. w \in Widgets /\ w.parts = widgets.parts /\ w.buttons = widgets.buttons /\ w.kind = k
      /\ w.combo = widgets.combo /\ w.comboEnabled = isParent
  BY <1>2, <1>5 DEF Widgets
<1> HIDE DEF f, w
<1>7. Place(list, f, w.combo) = Place(list, e, widgets.combo)
  BY <1>4, <1>6 DEF Place
<1>8. Shows(w, list, f)
  BY <1>2, <1>4, <1>6, <1>7 DEF Shows
<1>9. Shown(list', index', widgets')
  BY <1>2, <1>3, <1>4, <1>6, <1>8, EditShown DEF e
<1>10. mapping' = NotMapping
  BY DEF ChooseKind, EditEntry, Act
<1> QED
  BY <1>1, <1>9, <1>10, NothingRecorded DEF LookupInv

LEMMA PairedKeeps ==
    ASSUME LookupInv, NEW j \in DOMAIN list, OnPairedIdChanged(j)
    PROVE  LookupInv'
<1> DEFINE e == list[index]
           text == Text(list[j].tablet, "lower")
           f == [e EXCEPT !.paired = text]
           w == [widgets EXCEPT !.combo = j]
<1>1. Groups(local') /\ Found(known', connected', local')
  BY DaemonStays DEF OnPairedIdChanged
<1>2. /\ e \in Entry /\ EntryOfOneKind(e) /\ index \in DOMAIN list
      /\ Entries(list) /\ widgets \in Widgets /\ widgets.combo \in DOMAIN list
      /\ Shows(widgets, list, e) /\ Shown(list, index, widgets) /\ index # 0
  BY Selection DEF OnPairedIdChanged, EditEntry
<1>3. list' = [list EXCEPT ![index] = f] /\ widgets' = w /\ index' = index
  BY DEF OnPairedIdChanged, PairWith
<1>4. text \in AnyText /\ j \in Nat
  BY <1>2, EntryOf, TextType DEF Forms
<1> HIDE DEF e
<1>5. f.paired = text
  BY <1>2 DEF Entry
<1>6. Place(list, f, w.combo) = j
  <2> HIDE DEF f
  <2> QED
    BY <1>2, <1>5, PlaceIsThere
<1> HIDE DEF text
<1>7. /\ f \in Entry /\ EntryOfOneKind(f) /\ f.tablet = e.tablet
      /\ KindOf(f) = KindOf(e) /\ f.parts = e.parts /\ f.buttons = e.buttons
      /\ f.hasPaired = e.hasPaired
  BY <1>2, <1>4 DEF Entry, EntryOfOneKind, KindOf
<1>8. w \in Widgets /\ w.parts = widgets.parts /\ w.buttons = widgets.buttons
      /\ w.kind = widgets.kind /\ w.combo = j /\ w.comboEnabled = widgets.comboEnabled
  BY <1>2, <1>4 DEF Widgets
<1> HIDE DEF f, w
<1>9. Shows(w, list, f)
  BY <1>2, <1>6, <1>7, <1>8 DEF Shows
<1>10. Shown(list', index', widgets')
  BY <1>2, <1>3, <1>7, <1>8, <1>9, EditShown DEF e
<1>11. mapping' = NotMapping
  BY DEF OnPairedIdChanged, EditEntry, Act
<1> QED
  BY <1>1, <1>10, <1>11, NothingRecorded DEF LookupInv

LEMMA MapButtonsKeeps ==
    ASSUME LookupInv, OnMapButtons
    PROVE  LookupInv'
<1>1. Groups(local') /\ Found(known', connected', local')
  BY DaemonStays DEF OnMapButtons
<1>2. index # 0 /\ widgets.buttons \in Nat
  BY Selection DEF OnMapButtons, EditEntry, Widgets
<1>3. Shown(list', index', widgets')
  BY DEF OnMapButtons, LookupInv
<1>4. mapping' = [max |-> widgets.buttons, got |-> <<>>] /\ index' = index
  BY DEF OnMapButtons
<1>5. <<>> \in Seq(Nat) /\ Len(<<>>) = 0 /\ DOMAIN <<>> = {}
  OBVIOUS
<1>6. Recorded(mapping', index')
  BY <1>2, <1>4, <1>5 DEF Recorded
<1> QED
  BY <1>1, <1>3, <1>6 DEF LookupInv

LEMMA HwKeyKeeps ==
    ASSUME LookupInv, NEW b \in XButtons, HwKey(b)
    PROVE  LookupInv'
<1> DEFINE button == QtButton2X11Button(QtMouseButton(b))
           got == mapping.got
<1>1. Groups(local') /\ Found(known', connected', local')
  BY DaemonStays DEF HwKey
<1>2. Shown(list', index', widgets')
  BY DEF HwKey, LookupInv
<1>3. /\ mapping \in [max : Nat, got : Seq(Nat)] /\ Len(got) < mapping.max /\ index # 0
      /\ \A n \in DOMAIN got : got[n] \notin 4..7
  BY DEF LookupInv, Recorded, HwKey
<1>4. button \in Nat /\ button \notin 4..7
  BY KeyRecorded
<1>5. got \in Seq(Nat) /\ DOMAIN got = 1..Len(got) /\ Len(got) \in Nat
  BY <1>3
<1>6. mapping' = [mapping EXCEPT !.got = Append(got, button)] /\ index' = index
  BY DEF HwKey
<1> HIDE DEF button, got
<1>7. /\ Append(got, button) \in Seq(Nat) /\ Len(Append(got, button)) = Len(got) + 1
      /\ \A n \in 1..Len(got) : Append(got, button)[n] = got[n]
      /\ Append(got, button)[Len(got) + 1] = button
  BY <1>4, <1>5, AppendProperties
<1>8. DOMAIN Append(got, button) = 1..(Len(got) + 1)
  BY <1>7, LenProperties
<1>9. \A n \in DOMAIN Append(got, button) : Append(got, button)[n] \notin 4..7
  <2> SUFFICES ASSUME NEW n \in DOMAIN Append(got, button)
               PROVE  Append(got, button)[n] \notin 4..7
    OBVIOUS
  <2>1. n \in 1..Len(got) \/ n = Len(got) + 1
    BY <1>5, <1>8
  <2>2. CASE n \in 1..Len(got)
    BY <1>3, <1>5, <1>7, <2>2
  <2>3. CASE n = Len(got) + 1
    BY <1>4, <1>7, <2>3
  <2> QED
    BY <2>1, <2>2, <2>3
<1>10. /\ mapping' \in [max : Nat, got : Seq(Nat)] /\ mapping'.max = mapping.max
       /\ mapping'.got = Append(got, button)
  BY <1>3, <1>6, <1>7
<1>11. Recorded(mapping', index')
  BY <1>3, <1>5, <1>6, <1>7, <1>9, <1>10 DEF Recorded
<1> QED
  BY <1>1, <1>2, <1>11 DEF LookupInv

LEMMA MappedKeeps ==
    ASSUME LookupInv, ButtonsMapped
    PROVE  LookupInv'
<1> DEFINE e == list[index]
<1>1. Groups(local') /\ Found(known', connected', local')
  BY DaemonStays DEF ButtonsMapped
<1>2. Recorded(mapping, index) /\ index # 0
  BY DEF LookupInv, ButtonsMapped, Recorded
<1>3. /\ e \in Entry /\ EntryOfOneKind(e) /\ index \in DOMAIN list
      /\ Entries(list) /\ widgets \in Widgets /\ widgets.combo \in DOMAIN list
      /\ Shows(widgets, list, e) /\ Shown(list, index, widgets)
  BY <1>2, Selection
<1>4. PICK map \in Seq(Nat) : list' = [list EXCEPT ![index] = [e EXCEPT !.map = map]]
  <2>1. mapping.got \in Seq(Nat) /\ <<>> \in Seq(Nat)
    BY <1>2 DEF Recorded
  <2>2. \/ list' = [list EXCEPT ![index] = [e EXCEPT !.map = mapping.got]]
        \/ list' = [list EXCEPT ![index] = [e EXCEPT !.map = <<>>]]
    BY DEF ButtonsMapped
  <2> QED
    BY <2>1, <2>2
<1> DEFINE f == [e EXCEPT !.map = map]
<1>5. index' = index /\ widgets' = widgets /\ mapping' = NotMapping
  BY DEF ButtonsMapped
<1> HIDE DEF e
<1>6. /\ f \in Entry /\ EntryOfOneKind(f) /\ f.tablet = e.tablet /\ f.paired = e.paired
      /\ KindOf(f) = KindOf(e) /\ f.parts = e.parts /\ f.buttons = e.buttons
      /\ f.hasPaired = e.hasPaired
  BY <1>3 DEF Entry, EntryOfOneKind, KindOf
<1>7. list' = [list EXCEPT ![index] = f]
  BY <1>4
<1> HIDE DEF f
<1>8. Place(list, f, widgets.combo) = Place(list, e, widgets.combo)
  BY <1>6 DEF Place
<1>9. Shows(widgets, list, f)
  BY <1>3, <1>6, <1>8 DEF Shows
<1>10. Shown(list', index', widgets')
  BY <1>2, <1>3, <1>5, <1>6, <1>7, <1>9, EditShown DEF e
<1> QED
  BY <1>1, <1>5, <1>10, NothingRecorded DEF LookupInv

LEMMA SaveKeeps ==
    ASSUME LookupInv, NEW entries \in SUBSET {list[i] : i \in DOMAIN list}, Save(entries)
    PROVE  LookupInv'
<1>1. Entries(list) /\ Groups(local)
  BY DEF LookupInv, Shown
<1>2. \A e \in entries : e \in Entry /\ EntryOfOneKind(e)
  BY <1>1, EntryOf
<1>3. Groups(local') /\ DOMAIN local \subseteq DOMAIN local'
  BY <1>1, <1>2, SavedGroups
<1>4. known' = known /\ connected' = connected
  BY DEF Save, DaemonKeeps
<1>5. \A t : ~InDatabase(local', t) => ~InDatabase(local, t)
  BY <1>3 DEF InDatabase
<1>6. Found(known', connected', local')
  BY <1>4, <1>5 DEF LookupInv, Found
<1>7. Shown(list', index', widgets') /\ Recorded(mapping', index')
  BY DEF Save, LookupInv
<1> QED
  BY <1>3, <1>6, <1>7 DEF LookupInv

LEMMA StandsStill ==
    ASSUME LookupInv, UNCHANGED lookupVars
    PROVE  LookupInv'
BY DEF LookupInv, lookupVars

-----------------------------------------------------------------------------
(* The invariant holds. *)

LEMMA LookupStarts == LookupInit => LookupInv
<1> SUFFICES ASSUME LookupInit PROVE LookupInv
  OBVIOUS
<1>1. Groups(local)
  BY DEF LookupInit, NoGroups, Groups
<1>2. connected \in SUBSET Serial
  BY DEF LookupInit
<1>3. Found(known, connected, local)
  <2>1. known = [t \in {u \in connected : Identified(local, u)} |-> LookupInformation(local, t)]
    BY DEF LookupInit
  <2>2. \A t \in DOMAIN known : Identified(local, t) /\ t \in connected
                                /\ known[t] = LookupInformation(local, t)
    BY <2>1
  <2>3. ASSUME NEW t \in DOMAIN known
        PROVE  /\ known[t] \in Information
               /\ ~InDatabase(local, t) => t \in DOMAIN LibWacom /\ known[t] = LookupTabletInfo(t)
    <3>1. known[t] \in Information
      BY <1>1, <2>2, LookupInformationType
    <3>2. ~InDatabase(local, t) => t \in DOMAIN LibWacom /\ known[t] = LookupTabletInfo(t)
      BY <2>2 DEF Identified, LookupInformation
    <3> QED
      BY <3>1, <3>2
  <2> QED
    BY <1>2, <2>2, <2>3 DEF Found
<1>4. Shown(list, index, widgets)
  <2>1. NoWidgets \in Widgets
    BY DEF NoWidgets, Widgets, Kinds
  <2>2. /\ list = Fresh(local, connected, NoWidgets).list
        /\ index = Fresh(local, connected, NoWidgets).index
        /\ widgets = Fresh(local, connected, NoWidgets).widgets
    BY DEF LookupInit
  <2> QED
    BY <1>1, <1>2, <2>1, <2>2, FreshShows
<1>5. Recorded(mapping, index)
  BY NothingRecorded DEF LookupInit
<1> QED
  BY <1>1, <1>3, <1>4, <1>5 DEF LookupInv

LEMMA Saves ==
    ASSUME LookupInv,
           \/ Save({list[i] : i \in {index} \cap DOMAIN list})
           \/ Save(ToSet(list))
    PROVE  LookupInv' /\ list' = list
<1>1. {list[i] : i \in {index} \cap DOMAIN list} \in SUBSET {list[i] : i \in DOMAIN list}
  OBVIOUS
<1>2. ToSet(list) \in SUBSET {list[i] : i \in DOMAIN list}
  BY DEF ToSet
<1>3. LookupInv'
  BY <1>1, <1>2, SaveKeeps
<1>4. list' = list
  BY DEF Save
<1> QED
  BY <1>3, <1>4

LEMMA LookupKept == LookupInv /\ [LookupNext]_lookupVars => LookupInv'
<1> SUFFICES ASSUME LookupInv, [LookupNext]_lookupVars PROVE LookupInv'
  OBVIOUS
<1>1. CASE UNCHANGED lookupVars
  BY <1>1, StandsStill
<1>2. ASSUME NEW t \in Serial, Plug(t) \/ Unplug(t) PROVE LookupInv'
  BY <1>2, PlugKeeps, UnplugKeeps
<1>3. CASE RefreshTabletList
  BY <1>3, RefreshKeeps
<1>4. ASSUME NEW i \in DOMAIN list, ChangeTabletSelection(i) \/ OnPairedIdChanged(i)
      PROVE  LookupInv'
  BY <1>4, SelectionKeeps, PairedKeeps
<1>5. ASSUME NEW p \in Parts \cup Leds, TogglePart(p) PROVE LookupInv'
  BY <1>5, TogglePartKeeps
<1>6. ASSUME NEW n \in ButtonNumbers, OnExpressKeyNumbersChanged(n) PROVE LookupInv'
  BY <1>6, NumbersKeep
<1>7. ASSUME NEW k \in Kinds, ChooseKind(k) PROVE LookupInv'
  BY <1>7, ChooseKindKeeps
<1>8. CASE OnMapButtons
  BY <1>8, MapButtonsKeeps
<1>9. ASSUME NEW b \in XButtons, HwKey(b) PROVE LookupInv'
  BY <1>9, HwKeyKeeps
<1>10. CASE ButtonsMapped
  BY <1>10, MappedKeeps
<1>11. CASE Save({list[i] : i \in {index} \cap DOMAIN list}) \/ Save(ToSet(list))
  BY <1>11, Saves
<1> QED
  BY <1>1, <1>2, <1>3, <1>4, <1>5, <1>6, <1>7, <1>8, <1>9, <1>10, <1>11 DEF LookupNext

\* LookupInv holds in every reachable state.
THEOREM LookupHolds == LookupSpec => []LookupInv
BY LookupStarts, LookupKept, PTL DEF LookupSpec

LEMMA LookupInvTypes == LookupInv => LookupTypeOK
<1> SUFFICES ASSUME LookupInv PROVE LookupTypeOK
  OBVIOUS
<1>1. Entries(list) /\ Groups(local) /\ Found(known, connected, local) /\ Recorded(mapping, index)
  BY DEF LookupInv, Shown
<1>2. \A i \in DOMAIN list : list[i] \in Entry
  BY <1>1, EntryOf
<1>3. /\ index \in 0..Len(list) /\ (index = 0 <=> list = <<>>)
      /\ widgets \in Widgets /\ widgets.combo \in 0..Len(list)
  BY DEF LookupInv, Shown
<1>4. (index = 0) = (list = <<>>)
  BY <1>3
<1> QED
  BY <1>1, <1>2, <1>3, <1>4 DEF LookupTypeOK, Groups, Found, Recorded

\* The variables have their types: what is known of a tablet is a record of it, whichever
\* database it is from and wherever libwacom stopped; the list, the selection and the
\* widgets fit each other; no more buttons are recorded than the tablet has.
THEOREM LookupTypes == LookupSpec => []LookupTypeOK
BY LookupHolds, LookupInvTypes, PTL

-----------------------------------------------------------------------------
(* What the dialog shows and changes. *)

LEMMA ShownEntry == LookupInv => WidgetsShowEntry
<1> SUFFICES ASSUME LookupInv, index # 0
             PROVE  LET e == list[index] IN
                    /\ widgets.parts = e.parts /\ widgets.buttons = e.buttons
                    /\ widgets.kind = KindOf(e) /\ widgets.comboEnabled = e.hasPaired
                    /\ e.hasPaired => widgets.combo = Place(list, e, widgets.combo)
  BY DEF WidgetsShowEntry
<1>1. Shows(widgets, list, list[index])
  BY Selection
<1> QED
  BY <1>1 DEF Shows

\* The entries of a step: as the databases say, or as they were but for the one selected.
OwnEntries ==
    \A i \in DOMAIN list' :
       \/ list'[i] = LoadEntry(local, list'[i].tablet)
       \/ /\ i \in DOMAIN list /\ list'[i].tablet = list[i].tablet
          /\ list'[i] = list[i] \/ (i = index /\ index' = index)

LEMMA ListStays == list' = list => OwnEntries
BY DEF OwnEntries

LEMMA OneEdited ==
    ASSUME Entries(list), index \in DOMAIN list, index' = index,
           NEW e, list' = [list EXCEPT ![index] = e], e.tablet = list[index].tablet
    PROVE  OwnEntries
<1>1. DOMAIN list' = DOMAIN list
  OBVIOUS
<1>2. ASSUME NEW i \in DOMAIN list
      PROVE  /\ list'[i].tablet = list[i].tablet
             /\ list'[i] = list[i] \/ (i = index /\ index' = index)
  <2>1. CASE i = index
    BY <2>1
  <2>2. CASE i # index
    BY <2>2
  <2> QED
    BY <2>1, <2>2
<1> QED
  BY <1>1, <1>2 DEF OwnEntries

LEMMA EditOwn ==
    ASSUME LookupInv, EditEntry, index' = index,
           NEW e, list' = [list EXCEPT ![index] = e], e.tablet = list[index].tablet
    PROVE  OwnEntries
<1>1. Entries(list) /\ index \in DOMAIN list
  BY Selection DEF EditEntry
<1> QED
  BY <1>1, OneEdited

LEMMA EntriesKept == LookupInv /\ [LookupNext]_lookupVars => OwnEntries \/ UNCHANGED lookupVars
<1> SUFFICES ASSUME LookupInv, LookupNext PROVE OwnEntries
  OBVIOUS
<1>1. ASSUME NEW t \in Serial, Plug(t) \/ Unplug(t) PROVE OwnEntries
  <2>1. list' = list
    BY <1>1 DEF Plug, Unplug, FinderKeeps
  <2> QED
    BY <2>1, ListStays
<1>2. CASE RefreshTabletList
  BY <1>2, RefreshKeeps DEF ReadFrom, OwnEntries
<1>3. ASSUME NEW i \in DOMAIN list, ChangeTabletSelection(i) PROVE OwnEntries
  BY <1>3, SelectionKeeps, ListStays
<1>4. ASSUME NEW i \in DOMAIN list, OnPairedIdChanged(i) PROVE OwnEntries
  <2> DEFINE f == PairWith(list, list[index], i)
  <2>1. /\ list' = [list EXCEPT ![index] = f] /\ index' = index /\ EditEntry
    BY <1>4 DEF OnPairedIdChanged
  <2>2. list[index] \in Entry
    BY <2>1, Selection DEF EditEntry
  <2>3. f.tablet = list[index].tablet
    BY <2>2 DEF PairWith, Entry
  <2> QED
    BY <2>1, <2>3, EditOwn
<1>5. ASSUME NEW p \in Parts \cup Leds, TogglePart(p) PROVE OwnEntries
  <2>1. EditEntry /\ index' = index
    BY <1>5 DEF TogglePart
  <2>2. list[index] \in Entry
    BY <2>1, Selection DEF EditEntry
  <2>3. PICK parts : list' = [list EXCEPT ![index] = [list[index] EXCEPT !.parts = parts]]
    BY <1>5 DEF TogglePart
  <2>4. [list[index] EXCEPT !.parts = parts].tablet = list[index].tablet
    BY <2>2 DEF Entry
  <2> QED
    BY <2>1, <2>3, <2>4, EditOwn
<1>6. ASSUME NEW n \in ButtonNumbers, OnExpressKeyNumbersChanged(n) PROVE OwnEntries
  <2>1. EditEntry /\ index' = index
        /\ list' = [list EXCEPT ![index] = [list[index] EXCEPT !.buttons = n]]
    BY <1>6 DEF OnExpressKeyNumbersChanged
  <2>2. list[index] \in Entry
    BY <2>1, Selection DEF EditEntry
  <2>3. [list[index] EXCEPT !.buttons = n].tablet = list[index].tablet
    BY <2>2 DEF Entry
  <2> QED
    BY <2>1, <2>3, EditOwn
<1>7. ASSUME NEW k \in Kinds, ChooseKind(k) PROVE OwnEntries
  <2>1. EditEntry /\ index' = index /\ list' = [list EXCEPT ![index] = WithKind(list[index], k)]
    BY <1>7 DEF ChooseKind
  <2>2. WithKind(list[index], k).tablet = list[index].tablet
    BY <2>1, Selection, WithKindType DEF EditEntry
  <2> QED
    BY <2>1, <2>2, EditOwn
<1>8. CASE OnMapButtons
  BY <1>8, ListStays DEF OnMapButtons
<1>9. ASSUME NEW b \in XButtons, HwKey(b) PROVE OwnEntries
  BY <1>9, ListStays DEF HwKey
<1>10. CASE ButtonsMapped
  <2>1. index # 0 /\ index' = index
    BY <1>10 DEF LookupInv, ButtonsMapped, Recorded
  <2>2. list[index] \in Entry /\ Entries(list) /\ index \in DOMAIN list
    BY <2>1, Selection
  <2>3. PICK map : list' = [list EXCEPT ![index] = [list[index] EXCEPT !.map = map]]
    BY <1>10 DEF ButtonsMapped
  <2>4. [list[index] EXCEPT !.map = map].tablet = list[index].tablet
    BY <2>2 DEF Entry
  <2> QED
    BY <2>1, <2>2, <2>3, <2>4, OneEdited
<1>11. CASE Save({list[i] : i \in {index} \cap DOMAIN list}) \/ Save(ToSet(list))
  BY <1>11, Saves, ListStays
<1> QED
  BY <1>1, <1>2, <1>3, <1>4, <1>5, <1>6, <1>7, <1>8, <1>9, <1>10, <1>11 DEF LookupNext

\* The finder's dialog shows what the selected entry holds, however the radio buttons and
\* the list of sensors were left by the tablet before; only the user makes an entry differ
\* from the databases, although every widget that is set reports as if it was the user;
\* what was saved is found again; and no two buttons of a pad that libwacom named are one
\* for X, nor is any of them the wheel's.
THEOREM DialogTrue == LookupSpec => DialogIsTrue
<1>1. LookupInv => WidgetsShowEntry /\ FoundAsSaved /\ WheelIsNoButton
  BY ShownEntry, SavedIsFound, WheelIsApart DEF LookupInv
<1>2. LookupInv /\ [LookupNext]_lookupVars => [OwnEntries]_lookupVars
  BY EntriesKept
<1>3. LookupSpec => [](WidgetsShowEntry /\ FoundAsSaved /\ WheelIsNoButton)
  BY <1>1, LookupHolds, PTL
<1>4. LookupSpec => [][OwnEntries]_lookupVars
  BY <1>2, LookupHolds, PTL DEF LookupSpec
<1> QED
  BY <1>3, <1>4, PTL DEF DialogIsTrue, EntriesChangeByHand, OwnEntries
=============================================================================
