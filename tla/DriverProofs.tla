---------------------------- MODULE DriverProofs ----------------------------
(***************************************************************************)
(* Proofs about what the daemon does to the X driver: about DriverAccess,  *)
(* for any devices, profiles, clients and any number of calls, and then    *)
(* about ScreenMapping, for any monitors and screen spaces.                *)
(*                                                                         *)
(* Why a tool has what was asked of it (ToolInv): the writes still to come *)
(* take what a tool has to what was asked (Leads).  A request puts its     *)
(* writes behind all others, so where they start is where these end; a     *)
(* write made takes one from the front and moves what the tool has.  Two   *)
(* tools share no id, so a write of one leaves the others alone.  Only a   *)
(* measurement of the settings module comes between: what counts is then   *)
(* the area it will put back (Held), and where the two crossed, nothing    *)
(* is said of the area until it is written again.                          *)
(*                                                                         *)
(* Why a measurement takes the whole tablet (MeasureInv): while it is      *)
(* alone, what it reads is the area that it has reset, or the whole.       *)
(*                                                                         *)
(* Why the mapping is current (MappingInv): each handler that changes the  *)
(* screens or the profile maps the tools again before it returns.          *)
(***************************************************************************)
EXTENDS DriverAccess, ScreenMapping, SequenceTheorems, WellFoundedInduction, TLAPS

-----------------------------------------------------------------------------
(* The inductive invariant. *)

\* What the driver may hold.
Stored(p) == IF p = "CursorAccelProfile" THEN 0..(Word - 1) ELSE Value(p)
IsState(d) == DOMAIN d = Property /\ \A p \in Property : d[p] \in Stored(p)

Listed == [id : XID, dev : XDev]
IsList(l) ==
    /\ l \in Seq(Listed)
    /\ \A i, j \in DOMAIN l : l[i].id = l[j].id \/ l[i].dev.name = l[j].dev.name => i = j
ListInv == IsList(list)

DriverInv == DOMAIN driver = XID /\ \A id \in XID : IsState(driver[id])

IsSeq(s) == s \in Seq(ToSet(s))

IsControlled(b) ==
    /\ DOMAIN b.devs \subseteq Types
    /\ \A t \in DOMAIN b.devs : b.devs[t].id \in XID /\ b.devs[t].name # ""
    /\ \A t, u \in DOMAIN b.devs : b.devs[t].id = b.devs[u].id => t = u
    /\ DOMAIN b.handles = DOMAIN b.devs \cap HasXinput
    /\ \A t \in DOMAIN b.handles : b.handles[t] = b.devs[t].id

IsRequest(w) ==
    /\ w.tool \in Types /\ w.prop \in Property /\ IsValue(w.prop, w.value)

KcmInv ==
    /\ DOMAIN kcm = {"step", "id", "previous", "read", "alone"}
    /\ kcm.step \in {"idle", "reset", "read", "restore"}
    /\ kcm.id \in XID \cup {0} /\ (kcm.id = 0 <=> kcm.step = "idle")
    /\ kcm.previous \in Areas
    /\ kcm.alone \in BOOLEAN

DaemonInv ==
    /\ IsControlled(backend)
    /\ IsProfile(profile)
    /\ IsSeq(todo) /\ \A w \in ToSet(todo) : IsRequest(w)
    /\ screen \in Real /\ gone \in BOOLEAN /\ crossed \subseteq XID
    /\ led \in [0..1 -> 0..3]

TypeInv == ListInv /\ DriverInv /\ KcmInv /\ DaemonInv

-----------------------------------------------------------------------------
(* Areas and numbers. *)

LEMMA MaximumIsArea == Maximum \in Areas /\ Reset \in Areas /\ AsLong(-1) \in Int
<1>1. PICK w \in Nat, h \in Nat : Maximum = <<0, 0, w, h>>
  BY NumberAssumption
<1> QED BY <1>1, NumberAssumption DEF Areas, Reset, AsLong

LEMMA TurnedIsArea ==
    ASSUME NEW a \in Areas, NEW from, NEW to
    PROVE  Turned(a, from, to) \in Areas
BY MaximumIsArea DEF Turned, Areas

LEMMA SetAreaIsArea ==
    ASSUME NEW a \in Areas
    PROVE  SetArea(a) \in Areas
BY MaximumIsArea DEF SetArea

LEMMA FreshIsState == IsState(Fresh)
<1>1. 0 \in 0..(Word - 1)
  BY NumberAssumption
<1> QED BY <1>1, MaximumIsArea DEF IsState, Fresh, Property, XsetwacomProperties, XinputProperties,
        Stored, Value, Real, Switch, Spaces

-----------------------------------------------------------------------------
(* Sequences and ranges. *)

\* r is s without its element i.
IsRemoval(r, s, i) ==
    /\ Len(r) = Len(s) - 1
    /\ \A k \in 1..Len(r) : r[k] = IF k < i THEN s[k] ELSE s[k + 1]

LEMMA RemoveAtKeepsOthers ==
    ASSUME NEW S, NEW s \in Seq(S), NEW i \in DOMAIN s
    PROVE  /\ RemoveAt(s, i) \in Seq(S)
           /\ IsRemoval(RemoveAt(s, i), s, i)
           /\ \A j \in DOMAIN s : j # i =>
                  \E k \in DOMAIN RemoveAt(s, i) : RemoveAt(s, i)[k] = s[j]
<1> DEFINE r == RemoveAt(s, i)
<1>1. /\ r \in Seq(S)
      /\ Len(r) = Len(s) - 1
      /\ \A k \in 1..Len(r) : r[k] = IF k < i THEN s[k] ELSE s[k + 1]
  <2> DEFINE a == SubSeq(s, 1, i - 1)
             b == SubSeq(s, i + 1, Len(s))
  <2>1. i \in 1..Len(s) /\ Len(s) \in Nat /\ \A j \in 1..Len(s) : s[j] \in S
    OBVIOUS
  <2>2. /\ a \in Seq(S) /\ Len(a) = i - 1
        /\ \A k \in 1..(i - 1) : a[k] = s[k]
    <3>1. \A k \in 1..(i - 1) : s[k] \in S
      BY <2>1
    <3> HIDE DEF r
    <3> QED BY <2>1, <3>1, SubSeqProperties
  <2>3. /\ b \in Seq(S) /\ Len(b) = Len(s) - i
        /\ \A k \in 1..(Len(s) - i) : b[k] = s[i + k]
    <3>1. \A k \in (i + 1)..Len(s) : s[k] \in S
      BY <2>1
    <3> HIDE DEF r
    <3> QED BY <2>1, <3>1, SubSeqProperties
  <2> HIDE DEF a, b
  <2>4. /\ a \o b \in Seq(S)
        /\ Len(a \o b) = Len(s) - 1
        /\ \A k \in 1..(Len(s) - 1) : (a \o b)[k] = IF k < i THEN s[k] ELSE s[k + 1]
    <3> HIDE DEF r
    <3>1. Len(a) = i - 1 /\ Len(b) = Len(s) - i /\ i \in Nat
      BY <2>1, <2>2, <2>3
    <3>2. /\ a \o b \in Seq(S)
          /\ Len(a \o b) = Len(a) + Len(b)
          /\ \A k \in 1..(Len(a) + Len(b)) :
                 (a \o b)[k] = IF k <= Len(a) THEN a[k] ELSE b[k - Len(a)]
      BY <2>2, <2>3, ConcatProperties
    <3>3. ASSUME NEW k \in 1..(Len(s) - 1)
          PROVE  (a \o b)[k] = IF k < i THEN s[k] ELSE s[k + 1]
      <4>1. k \in 1..(Len(a) + Len(b))
        BY <2>1, <3>1
      <4>2. CASE k < i
        <5>1. (a \o b)[k] = a[k]
          BY <3>1, <3>2, <4>1, <4>2
        <5> QED BY <2>1, <2>2, <4>2, <5>1
      <4>3. CASE ~(k < i)
        <5>1. (a \o b)[k] = b[k - (i - 1)]
          BY <3>1, <3>2, <4>1, <4>3
        <5>2. k - (i - 1) \in 1..(Len(s) - i) /\ i + (k - (i - 1)) = k + 1
          BY <2>1, <4>3
        <5>3. b[k - (i - 1)] = s[i + (k - (i - 1))]
          BY <2>3, <5>2
        <5> QED BY <4>3, <5>1, <5>2, <5>3
      <4> QED BY <4>2, <4>3
    <3>4. Len(a) + Len(b) = Len(s) - 1
      BY <2>1, <3>1
    <3> HIDE DEF a, b
    <3> QED BY <3>2, <3>3, <3>4
  <2>5. r = a \o b
    BY DEF RemoveAt, a, b
  <2> QED BY <2>1, <2>4, <2>5
<1> HIDE DEF r
<1>2. ASSUME NEW j \in DOMAIN s, j # i
      PROVE  \E k \in DOMAIN r : r[k] = s[j]
  <2>1. CASE j < i
    <3>1. j \in 1..Len(r) /\ r[j] = s[j]
      BY <1>1, <2>1
    <3> QED BY <1>1, <3>1
  <2>2. CASE i < j
    <3>1. j - 1 \in 1..Len(r) /\ r[j - 1] = s[j]
      BY <1>1, <2>2
    <3> QED BY <1>1, <3>1
  <2> QED BY <1>2, <2>1, <2>2
<1> QED BY <1>1, <1>2 DEF r, IsRemoval

LEMMA LargestOfRange ==
    ASSUME NEW n \in Nat, NEW S \in SUBSET (1..n), S # {}
    PROVE  \E m \in S : \A k \in S : k <= m
<1> DEFINE D == {n - k : k \in S}
<1>1. D \subseteq Nat /\ D # {}
  <2>1. \A k \in S : n - k \in Nat
    OBVIOUS
  <2> QED BY <2>1
<1>2. PICK x \in D : \A y \in D : ~(<<y, x>> \in OpToRel(<, Nat))
  <2> HIDE DEF D
  <2> QED BY <1>1, WFMin, NatLessThanWellFounded, Zenon
<1>3. \A y \in D : ~(y < x)
  <2> SUFFICES ASSUME NEW y \in D, y < x PROVE FALSE
    OBVIOUS
  <2>1. <<y, x>> \in Nat \X Nat /\ <<y, x>>[1] < <<y, x>>[2]
    BY <1>1
  <2> HIDE DEF D
  <2>2. <<y, x>> \in OpToRel(<, Nat)
    BY <2>1, Zenon DEF OpToRel
  <2> QED BY <1>2, <2>2
<1>4. PICK m \in S : x = n - m
  OBVIOUS
<1>5. \A k \in S : ~(n - k < n - m)
  BY <1>3, <1>4
<1> QED BY <1>5

-----------------------------------------------------------------------------
(* X devices. *)

LEMMA ListIndices ==
    ASSUME ListInv
    PROVE  DOMAIN list = 1..Len(list) /\ Len(list) \in Nat /\ DOMAIN list \subseteq Int
BY DEF ListInv, IsList

LEMMA OneIndex ==
    ASSUME NEW i \in Int
    PROVE  (CHOOSE j \in {i} : \A k \in {i} : j <= k) = i
OBVIOUS

\* At, of any list.
AtIn(l, id) ==
    IF id \in {l[i].id : i \in DOMAIN l} THEN (CHOOSE e \in ToSet(l) : e.id = id).dev ELSE NoDev

LEMMA ListedAtIn ==
    ASSUME NEW l, IsList(l), NEW i \in DOMAIN l
    PROVE  l[i].id \in XID /\ l[i].dev \in XDev /\ AtIn(l, l[i].id) = l[i].dev
<1>1. \A k \in DOMAIN l : l[k] \in Listed
  BY DEF IsList
<1>2. \A e \in ToSet(l) : e.id = l[i].id => e = l[i]
  BY DEF ToSet, IsList
<1>3. l[i] \in ToSet(l)
  BY DEF ToSet
<1>4. (CHOOSE e \in ToSet(l) : e.id = l[i].id) = l[i]
  BY <1>2, <1>3
<1> QED BY <1>1, <1>4 DEF AtIn, Listed

LEMMA ListedAt ==
    ASSUME ListInv, NEW i \in DOMAIN list
    PROVE  /\ list[i].id \in XID /\ list[i].dev \in XDev
           /\ list[i].id \in Ids
           /\ At(list[i].id) = list[i].dev
<1>1. At(list[i].id) = AtIn(list, list[i].id)
  BY DEF At, AtIn, Ids
<1> QED BY <1>1, ListedAtIn DEF ListInv, Ids

LEMMA FindsByName ==
    ASSUME ListInv, NEW i \in DOMAIN list, list[i].dev.name # ""
    PROVE  FindDevice(list[i].dev.name) = list[i].id
<1>1. {j \in DOMAIN list : list[j].dev.name = list[i].dev.name} = {i}
  BY DEF ListInv, IsList
<1>2. (CHOOSE j \in {i} : \A k \in {i} : j <= k) = i
  BY ListIndices, OneIndex, Zenon
<1> QED BY <1>1, <1>2 DEF FindDevice

LEMMA FindDeviceType ==
    ASSUME ListInv, NEW name
    PROVE  FindDevice(name) \in XID \cup {0}
<1> DEFINE at == {j \in DOMAIN list : list[j].dev.name = name}
<1>1. CASE name = "" \/ at = {}
  BY <1>1 DEF FindDevice, Closed
<1>2. CASE name # "" /\ at # {}
  <2>1. PICK j \in at : TRUE
    BY <1>2
  <2>2. at = {j}
    BY <2>1 DEF ListInv, IsList
  <2>3. FindDevice(name) = list[j].id
    BY FindsByName, <2>1, <1>2
  <2> QED BY <2>3, <2>1, ListedAt
<1> QED BY <1>1, <1>2

LEMMA LastOfIsThere ==
    ASSUME ListInv, NEW serial, NEW j \in OfSerial(serial)
    PROVE  /\ LastOf(serial, ToolAt(j)) \in OfSerial(serial)
           /\ ToolAt(LastOf(serial, ToolAt(j))) = ToolAt(j)
<1> DEFINE S == {i \in OfSerial(serial) : ToolAt(i) = ToolAt(j)}
<1>1. DOMAIN list = 1..Len(list) /\ Len(list) \in Nat
  BY DEF ListInv, IsList
<1>2. S \subseteq 1..Len(list) /\ j \in S
  BY <1>1 DEF OfSerial, Visited
<1>3. PICK m \in S : \A i \in S : i <= m
  BY <1>1, <1>2, LargestOfRange
<1>4. m \in OfSerial(serial) /\ ToolAt(m) = ToolAt(j)
      /\ \A i \in OfSerial(serial) : ToolAt(i) = ToolAt(j) => i <= m
  BY <1>3
<1> QED BY <1>4 DEF LastOf

LEMMA ToolAtType ==
    ASSUME NEW i \in Visited
    PROVE  /\ ToolAt(i) \in Types
           /\ i \in DOMAIN list /\ list[i].dev.name # ""
<1>1. i \in DOMAIN list /\ IsKnown(list[i].dev)
  BY DEF Visited
<1>2. list[i].dev.tool \in DOMAIN ToolTypes /\ list[i].dev.name # ""
  BY <1>1 DEF IsKnown
<1>3. \A x \in DOMAIN ToolTypes : ToolTypes[x] \in Types
  BY DEF ToolTypes, Types
<1> QED BY <1>1, <1>2, <1>3 DEF ToolAt

\* A device of the tablet is in the list, under its id and its name.
IsListed(info) ==
    \E i \in DOMAIN list : list[i].id = info.id /\ list[i].dev.name = info.name

LEMMA ScannedIsListed ==
    ASSUME ListInv, NEW serial \in DOMAIN Scan, NEW t \in DOMAIN Scan[serial].devs
    PROVE  /\ t \in Types
           /\ \E l \in DOMAIN list :
                 /\ Scan[serial].devs[t].id = list[l].id
                 /\ Scan[serial].devs[t].name = list[l].dev.name
                 /\ list[l].dev.name # ""
                 /\ ToolAt(l) = t
<1> DEFINE l == LastOf(serial, t)
<1>1. /\ DOMAIN Scan[serial].devs = {ToolAt(i) : i \in OfSerial(serial)}
      /\ Scan[serial].devs[t] = DeviceInfo(list[l].id)
  BY DEF Scan
<1>2. PICK j \in OfSerial(serial) : t = ToolAt(j)
  BY <1>1
<1>3. l \in OfSerial(serial) /\ ToolAt(l) = t
  BY <1>2, LastOfIsThere
<1> HIDE DEF l
<1>4. l \in Visited
  BY <1>3 DEF OfSerial
<1>5. t \in Types /\ l \in DOMAIN list /\ list[l].dev.name # ""
  BY <1>3, <1>4, ToolAtType
<1>6. At(list[l].id) = list[l].dev
  BY <1>5, ListedAt
<1>7. DeviceInfo(list[l].id).id = list[l].id /\ DeviceInfo(list[l].id).name = list[l].dev.name
  BY <1>6 DEF DeviceInfo
<1> QED BY <1>1, <1>3, <1>5, <1>7

LEMMA ScanIsControlled ==
    ASSUME ListInv, NEW serial \in DOMAIN Scan
    PROVE  /\ IsControlled(CreateBackend(Scan[serial].devs))
           /\ \A t \in DOMAIN Scan[serial].devs : IsListed(Scan[serial].devs[t])
<1> DEFINE devs == Scan[serial].devs
<1>1. ASSUME NEW t \in DOMAIN devs
      PROVE  /\ t \in Types /\ IsListed(devs[t])
             /\ devs[t].id \in XID /\ devs[t].name # ""
             /\ FindDevice(devs[t].name) = devs[t].id
  <2>1. t \in Types
    BY <1>1, ScannedIsListed
  <2>2. PICK l \in DOMAIN list :
             devs[t].id = list[l].id /\ devs[t].name = list[l].dev.name
             /\ list[l].dev.name # "" /\ ToolAt(l) = t
    BY <1>1, ScannedIsListed
  <2>3. list[l].id \in XID
    BY ListedAt
  <2>4. FindDevice(list[l].dev.name) = list[l].id
    BY <2>2, FindsByName
  <2> QED BY <2>1, <2>2, <2>3, <2>4 DEF IsListed
<1>2. ASSUME NEW t \in DOMAIN devs, NEW u \in DOMAIN devs, devs[t].id = devs[u].id
      PROVE  t = u
  <2>1. PICK l \in DOMAIN list : devs[t].id = list[l].id /\ ToolAt(l) = t
    BY <1>2, ScannedIsListed
  <2>2. PICK m \in DOMAIN list : devs[u].id = list[m].id /\ ToolAt(m) = u
    BY <1>2, ScannedIsListed
  <2>3. l = m
    BY <1>2, <2>1, <2>2 DEF ListInv, IsList
  <2> QED BY <2>1, <2>2, <2>3
<1> HIDE DEF devs
<1>3. /\ CreateBackend(devs).devs = devs
      /\ CreateBackend(devs).handles = [t \in DOMAIN devs \cap HasXinput |-> FindDevice(devs[t].name)]
  BY DEF CreateBackend
<1>4. IsControlled(CreateBackend(devs))
  BY <1>1, <1>2, <1>3 DEF IsControlled
<1> QED BY <1>1, <1>4 DEF devs

-----------------------------------------------------------------------------
(* Sequences of writes. *)

LEMMA SeqIsSeq ==
    ASSUME NEW S, NEW s \in Seq(S)
    PROVE  IsSeq(s)
<1>1. /\ Len(s) \in Nat /\ DOMAIN s = 1..Len(s)
      /\ s = [i \in 1..Len(s) |-> s[i]]
  OBVIOUS
<1>2. \A i \in 1..Len(s) : s[i] \in ToSet(s)
  BY <1>1 DEF ToSet
<1>3. s \in [1..Len(s) -> ToSet(s)]
  BY <1>1, <1>2
<1>4. s \in Seq(ToSet(s))
  BY <1>1, <1>3, SeqDef
<1> QED BY <1>4 DEF IsSeq

LEMMA SeqIndices ==
    ASSUME NEW s, IsSeq(s)
    PROVE  DOMAIN s = 1..Len(s) /\ Len(s) \in Nat
BY DEF IsSeq

LEMMA EmptyIsSeq == IsSeq(<<>>) /\ ToSet(<<>>) = {} /\ DOMAIN <<>> = {}
<1>1. <<>> \in Seq({})
  OBVIOUS
<1>2. DOMAIN <<>> = {}
  OBVIOUS
<1>3. ToSet(<<>>) = {}
  BY <1>2 DEF ToSet
<1> QED BY <1>1, <1>2, <1>3, SeqIsSeq

LEMMA SingleIsSeq ==
    ASSUME NEW w
    PROVE  IsSeq(<<w>>) /\ ToSet(<<w>>) = {w}
<1>1. <<w>> \in Seq({w})
  OBVIOUS
<1>2. ToSet(<<w>>) = {w}
  BY DEF ToSet
<1> QED BY <1>1, <1>2, SeqIsSeq

\* c is s and r behind it.
IsConcat(c, s, r) ==
    /\ c \in Seq(ToSet(s) \cup ToSet(r))
    /\ Len(c) = Len(s) + Len(r)
    /\ \A i \in 1..Len(s) : c[i] = s[i]
    /\ \A i \in 1..Len(r) : c[Len(s) + i] = r[i]

LEMMA ConcatIs ==
    ASSUME NEW s, NEW r, IsSeq(s), IsSeq(r)
    PROVE  IsConcat(s \o r, s, r)
<1> DEFINE S == ToSet(s) \cup ToSet(r)
<1>1. s \in Seq(S) /\ r \in Seq(S)
  BY DEF IsSeq
<1> HIDE DEF S
<1>2. /\ s \o r \in Seq(S)
      /\ Len(s) \in Nat /\ Len(r) \in Nat
      /\ Len(s \o r) = Len(s) + Len(r)
      /\ \A i \in 1..(Len(s) + Len(r)) :
            (s \o r)[i] = IF i <= Len(s) THEN s[i] ELSE r[i - Len(s)]
  BY <1>1, ConcatProperties, LenProperties
<1>3. ASSUME NEW i \in 1..Len(s) PROVE (s \o r)[i] = s[i]
  BY <1>2
<1>4. ASSUME NEW i \in 1..Len(r) PROVE (s \o r)[Len(s) + i] = r[i]
  <2>1. Len(s) + i \in 1..(Len(s) + Len(r)) /\ ~(Len(s) + i <= Len(s)) /\ Len(s) + i - Len(s) = i
    BY <1>2
  <2> QED BY <1>2, <2>1
<1> QED BY <1>2, <1>3, <1>4 DEF S, IsConcat

LEMMA ConcatIsSeq ==
    ASSUME NEW s, NEW r, IsSeq(s), IsSeq(r)
    PROVE  IsSeq(s \o r) /\ ToSet(s \o r) = ToSet(s) \cup ToSet(r)
<1> DEFINE c == s \o r
<1>0. IsConcat(c, s, r)
  BY ConcatIs
<1> HIDE DEF c
<1>1. /\ c \in Seq(ToSet(s) \cup ToSet(r))
      /\ Len(c) = Len(s) + Len(r)
      /\ \A i \in 1..Len(s) : c[i] = s[i]
      /\ \A i \in 1..Len(r) : c[Len(s) + i] = r[i]
  BY <1>0 DEF IsConcat
<1>2. DOMAIN s = 1..Len(s) /\ Len(s) \in Nat /\ DOMAIN r = 1..Len(r) /\ Len(r) \in Nat
  BY SeqIndices
<1>3. DOMAIN c = 1..Len(c) /\ \A i \in DOMAIN c : c[i] \in ToSet(s) \cup ToSet(r)
  BY <1>1
<1>4. ASSUME NEW i \in DOMAIN s PROVE s[i] \in ToSet(c)
  <2>1. i \in DOMAIN c /\ c[i] = s[i]
    BY <1>1, <1>2, <1>3
  <2> QED BY <2>1 DEF ToSet
<1>5. ASSUME NEW i \in DOMAIN r PROVE r[i] \in ToSet(c)
  <2>1. Len(s) + i \in DOMAIN c /\ c[Len(s) + i] = r[i]
    BY <1>1, <1>2, <1>3
  <2> QED BY <2>1 DEF ToSet
<1>6. ToSet(c) = ToSet(s) \cup ToSet(r)
  BY <1>3, <1>4, <1>5 DEF ToSet
<1> QED BY <1>1, <1>6, SeqIsSeq DEF c

\* Behind every write of the property to the tool is w.
Precedes(s, tool, p, w) ==
    \A i \in DOMAIN s : s[i].tool = tool /\ s[i].prop = p =>
        \E j \in DOMAIN s : i < j /\ s[j] = w

LEMMA ConcatPrecedes ==
    ASSUME NEW s, NEW r, IsSeq(s), IsSeq(r), NEW tool, NEW p, NEW w,
           Precedes(r, tool, p, w),
           Precedes(s, tool, p, w) \/ w \in ToSet(r)
    PROVE  Precedes(s \o r, tool, p, w)
<1> DEFINE c == s \o r
<1>0. IsConcat(c, s, r)
  BY ConcatIs
<1> HIDE DEF c
<1>1. /\ c \in Seq(ToSet(s) \cup ToSet(r))
      /\ Len(c) = Len(s) + Len(r)
      /\ \A i \in 1..Len(s) : c[i] = s[i]
      /\ \A i \in 1..Len(r) : c[Len(s) + i] = r[i]
  BY <1>0 DEF IsConcat
<1>2. DOMAIN s = 1..Len(s) /\ Len(s) \in Nat /\ DOMAIN r = 1..Len(r) /\ Len(r) \in Nat
  BY SeqIndices
<1>3. DOMAIN c = 1..(Len(s) + Len(r))
  BY <1>1
<1> SUFFICES ASSUME NEW i \in DOMAIN c, c[i].tool = tool, c[i].prop = p
             PROVE  \E j \in DOMAIN c : i < j /\ c[j] = w
  BY DEF Precedes, c
<1>4. CASE i \in 1..Len(s)
  <2>1. c[i] = s[i]
    BY <1>1, <1>4
  <2>2. CASE w \in ToSet(r)
    <3>1. PICK j \in DOMAIN r : r[j] = w
      BY <2>2 DEF ToSet
    <3>2. Len(s) + j \in DOMAIN c /\ i < Len(s) + j /\ c[Len(s) + j] = w
      BY <1>1, <1>2, <1>3, <1>4, <3>1
    <3> QED BY <3>2
  <2>3. CASE Precedes(s, tool, p, w)
    <3>1. PICK j \in DOMAIN s : i < j /\ s[j] = w
      BY <1>2, <1>4, <2>1, <2>3 DEF Precedes
    <3>2. j \in DOMAIN c /\ c[j] = w
      BY <1>1, <1>2, <1>3, <3>1
    <3> QED BY <3>1, <3>2
  <2> QED BY <2>2, <2>3
<1>5. CASE i \notin 1..Len(s)
  <2> DEFINE k == i - Len(s)
  <2>1. k \in 1..Len(r) /\ i = Len(s) + k
    BY <1>2, <1>3, <1>5
  <2>2. c[i] = r[k]
    BY <1>1, <2>1
  <2> HIDE DEF k
  <2>3. PICK j \in DOMAIN r : k < j /\ r[j] = w
    BY <1>2, <2>1, <2>2 DEF Precedes
  <2>4. Len(s) + j \in DOMAIN c /\ i < Len(s) + j /\ c[Len(s) + j] = w
    BY <1>1, <1>2, <1>3, <2>1, <2>3
  <2> QED BY <2>4
<1> QED BY <1>4, <1>5

LEMMA OthersPrecede ==
    ASSUME NEW s, NEW tool, NEW p, NEW w,
           \A x \in ToSet(s) : x.tool = tool => x.prop # p
    PROVE  Precedes(s, tool, p, w)
BY DEF Precedes, ToSet

-----------------------------------------------------------------------------
(* What is written. *)

LEMMA WIs ==
    ASSUME NEW t, NEW p, NEW v
    PROVE  W(t, p, v).tool = t /\ W(t, p, v).prop = p /\ W(t, p, v).value = v
BY DEF W

\* s writes the entries of the properties P to the tool, those that are not empty.
Says(s, t, e, P) ==
    /\ IsSeq(s)
    /\ \A w : w \in ToSet(s) <=> \E p \in P : e[p] # Empty /\ w = W(t, p, e[p])

LEMMA EntryWriteSays ==
    ASSUME NEW t, NEW e, NEW p
    PROVE  Says(EntryWrite(t, e, p), t, e, {p})
<1>1. CASE e[p] = Empty
  <2>1. EntryWrite(t, e, p) = <<>>
    BY <1>1 DEF EntryWrite
  <2> QED BY <1>1, <2>1, EmptyIsSeq DEF Says
<1>2. CASE e[p] # Empty
  <2> DEFINE w == W(t, p, e[p])
  <2>1. EntryWrite(t, e, p) = <<w>>
    BY <1>2 DEF EntryWrite
  <2>2. IsSeq(<<w>>) /\ ToSet(<<w>>) = {w}
    BY SingleIsSeq
  <2> QED BY <1>2, <2>1, <2>2 DEF Says
<1> QED BY <1>1, <1>2

LEMMA ConcatSays ==
    ASSUME NEW s, NEW r, NEW t, NEW e, NEW P, NEW Q, Says(s, t, e, P), Says(r, t, e, Q)
    PROVE  Says(s \o r, t, e, P \cup Q)
<1>1. IsSeq(s \o r) /\ ToSet(s \o r) = ToSet(s) \cup ToSet(r)
  BY ConcatIsSeq DEF Says
<1> QED BY <1>1 DEF Says

\* The area a profile has for a tool.
AreaWrite(prof, t) == W(t, "Area", prof[t].Area)

LEMMA NoRotation ==
    ASSUME NEW s, NEW t, NEW e, NEW P, Says(s, t, e, P), "Rotate" \notin P, NEW u, NEW w
    PROVE  Precedes(s, u, "Rotate", w)
<1>1. \A x \in ToSet(s) : x.prop # "Rotate"
  BY WIs DEF Says
<1> QED BY <1>1, OthersPrecede

LEMMA XsetwacomSays ==
    ASSUME NEW prof, NEW t, prof[t].Area # Empty
    PROVE  /\ Says(XsetwacomWrites(t, prof[t]), t, prof[t], XsetwacomProperties)
           /\ Precedes(XsetwacomWrites(t, prof[t]), t, "Rotate", AreaWrite(prof, t))
<1> DEFINE r == EntryWrite(t, prof[t], "Rotate")
           a == EntryWrite(t, prof[t], "Area")
           f == EntryWrite(t, prof[t], "Touch")
<1>1. /\ Says(r, t, prof[t], {"Rotate"}) /\ Says(a, t, prof[t], {"Area"})
      /\ Says(f, t, prof[t], {"Touch"})
  BY EntryWriteSays
<1>2. XsetwacomWrites(t, prof[t]) = (r \o a) \o f
  BY DEF XsetwacomWrites
<1> HIDE DEF r, a, f
<1>3. Says(r \o a, t, prof[t], {"Rotate"} \cup {"Area"})
  BY <1>1, ConcatSays
<1>4. Says((r \o a) \o f, t, prof[t], ({"Rotate"} \cup {"Area"}) \cup {"Touch"})
  BY <1>1, <1>3, ConcatSays
<1>5. XsetwacomProperties = ({"Rotate"} \cup {"Area"}) \cup {"Touch"}
  BY DEF XsetwacomProperties
<1>6. IsSeq(r) /\ IsSeq(a) /\ IsSeq(f) /\ IsSeq(r \o a)
  BY <1>1, <1>3 DEF Says
<1>7. AreaWrite(prof, t) \in ToSet(a)
  BY <1>1 DEF Says, AreaWrite
<1>8. Precedes(a, t, "Rotate", AreaWrite(prof, t)) /\ Precedes(f, t, "Rotate", AreaWrite(prof, t))
  <2>1. "Rotate" \notin {"Area"} /\ "Rotate" \notin {"Touch"}
    OBVIOUS
  <2> QED BY <1>1, <2>1, NoRotation
<1>9. Precedes(r \o a, t, "Rotate", AreaWrite(prof, t))
  BY <1>6, <1>7, <1>8, ConcatPrecedes
<1>10. Precedes((r \o a) \o f, t, "Rotate", AreaWrite(prof, t))
  BY <1>6, <1>8, <1>9, ConcatPrecedes
<1> QED BY <1>2, <1>4, <1>5, <1>10

LEMMA XinputSays ==
    ASSUME NEW e, NEW t
    PROVE  Says(XinputWrites(t, e), t, e, XinputProperties)
<1> DEFINE c == EntryWrite(t, e, "CursorAccelProfile")
           i == EntryWrite(t, e, "InvertScroll")
           m == EntryWrite(t, e, "ScreenSpace")
<1>1. /\ Says(c, t, e, {"CursorAccelProfile"}) /\ Says(i, t, e, {"InvertScroll"})
      /\ Says(m, t, e, {"ScreenSpace"})
  BY EntryWriteSays
<1>2. XinputWrites(t, e) = (c \o i) \o m
  BY DEF XinputWrites
<1> HIDE DEF c, i, m
<1>3. Says(c \o i, t, e, {"CursorAccelProfile"} \cup {"InvertScroll"})
  BY <1>1, ConcatSays
<1>4. Says((c \o i) \o m, t, e, ({"CursorAccelProfile"} \cup {"InvertScroll"}) \cup {"ScreenSpace"})
  BY <1>1, <1>3, ConcatSays
<1>5. XinputProperties = ({"CursorAccelProfile"} \cup {"InvertScroll"}) \cup {"ScreenSpace"}
  BY DEF XinputProperties
<1> QED BY <1>2, <1>4, <1>5

\* What s writes to the tools of a set is what their entries say, and the area comes last.
Sets(s, tools, prof) ==
    /\ IsSeq(s)
    /\ \A w \in ToSet(s) : \E t \in tools, p \in Property :
          prof[t][p] # Empty /\ w = W(t, p, prof[t][p])
    /\ \A t \in tools, p \in Property : prof[t][p] # Empty => W(t, p, prof[t][p]) \in ToSet(s)
    /\ \A t : Precedes(s, t, "Rotate", AreaWrite(prof, t))

LEMMA ToolWritesSet ==
    ASSUME NEW devs, NEW prof, NEW t,
           t \in DOMAIN prof => prof[t].Area # Empty
    PROVE  Sets(ToolWrites(devs, prof, t), {t} \cap (DOMAIN devs \cap DOMAIN prof), prof)
<1>1. CASE t \notin DOMAIN devs \cap DOMAIN prof
  <2>1. ToolWrites(devs, prof, t) = <<>> /\ {t} \cap (DOMAIN devs \cap DOMAIN prof) = {}
    BY <1>1 DEF ToolWrites
  <2>2. \A u : Precedes(<<>>, u, "Rotate", AreaWrite(prof, u))
    BY EmptyIsSeq DEF Precedes
  <2> QED BY <2>1, <2>2, EmptyIsSeq DEF Sets
<1>2. CASE t \in DOMAIN devs \cap DOMAIN prof
  <2> DEFINE x == XsetwacomWrites(t, prof[t])
             y == XinputWrites(t, prof[t])
  <2>1. /\ Says(x, t, prof[t], XsetwacomProperties)
        /\ Precedes(x, t, "Rotate", AreaWrite(prof, t))
    BY <1>2, XsetwacomSays
  <2>2. Says(y, t, prof[t], XinputProperties)
    BY XinputSays
  <2>3. ToolWrites(devs, prof, t) = x \o y
    BY <1>2 DEF ToolWrites
  <2> HIDE DEF x, y
  <2>4. Says(x \o y, t, prof[t], Property)
    BY <2>1, <2>2, ConcatSays DEF Property
  <2>5. Precedes(x \o y, t, "Rotate", AreaWrite(prof, t))
    <3>1. "Rotate" \notin XinputProperties
      BY DEF XinputProperties
    <3>2. Precedes(y, t, "Rotate", AreaWrite(prof, t))
      BY <2>2, <3>1, NoRotation
    <3>3. IsSeq(x) /\ IsSeq(y)
      BY <2>1, <2>2 DEF Says
    <3> QED BY <2>1, <3>2, <3>3, ConcatPrecedes
  <2>6. ASSUME NEW u, u # t PROVE Precedes(x \o y, u, "Rotate", AreaWrite(prof, u))
    <3>1. \A w \in ToSet(x \o y) : w.tool = u => w.prop # "Rotate"
      BY <2>4, <2>6, WIs DEF Says
    <3> QED BY <3>1, OthersPrecede
  <2>7. {t} \cap (DOMAIN devs \cap DOMAIN prof) = {t}
    BY <1>2
  <2> HIDE DEF Property
  <2>8. Sets(x \o y, {t}, prof)
    BY <2>4, <2>5, <2>6 DEF Sets, Says
  <2> QED BY <2>3, <2>7, <2>8
<1> QED BY <1>1, <1>2

LEMMA ConcatSets ==
    ASSUME NEW s, NEW r, NEW T, NEW U, NEW prof, Sets(s, T, prof), Sets(r, U, prof)
    PROVE  Sets(s \o r, T \cup U, prof)
<1>1. IsSeq(s) /\ IsSeq(r)
  BY DEF Sets
<1>2. IsSeq(s \o r) /\ ToSet(s \o r) = ToSet(s) \cup ToSet(r)
  BY <1>1, ConcatIsSeq
<1>3. ASSUME NEW t PROVE Precedes(s \o r, t, "Rotate", AreaWrite(prof, t))
  <2>1. Precedes(s, t, "Rotate", AreaWrite(prof, t)) /\ Precedes(r, t, "Rotate", AreaWrite(prof, t))
    BY DEF Sets
  <2> QED BY <1>1, <2>1, ConcatPrecedes
<1>4. ASSUME NEW w \in ToSet(s \o r)
      PROVE  \E t \in T \cup U, p \in Property : prof[t][p] # Empty /\ w = W(t, p, prof[t][p])
  BY <1>2, <1>4 DEF Sets
<1>5. ASSUME NEW t \in T \cup U, NEW p \in Property, prof[t][p] # Empty
      PROVE  W(t, p, prof[t][p]) \in ToSet(s \o r)
  BY <1>2, <1>5 DEF Sets
<1> QED BY <1>2, <1>3, <1>4, <1>5 DEF Sets

LEMMA BackendWritesSet ==
    ASSUME NEW devs, DOMAIN devs \subseteq Types, NEW prof,
           \A t \in DOMAIN prof : prof[t].Area # Empty
    PROVE  Sets(BackendWrites(devs, prof), DOMAIN devs \cap DOMAIN prof, prof)
<1> DEFINE both == DOMAIN devs \cap DOMAIN prof
           c == ToolWrites(devs, prof, "cursor")
           e == ToolWrites(devs, prof, "eraser")
           p == ToolWrites(devs, prof, "pad")
           s == ToolWrites(devs, prof, "stylus")
           f == ToolWrites(devs, prof, "touch")
<1>1. /\ Sets(c, {"cursor"} \cap both, prof) /\ Sets(e, {"eraser"} \cap both, prof)
      /\ Sets(p, {"pad"} \cap both, prof) /\ Sets(s, {"stylus"} \cap both, prof)
      /\ Sets(f, {"touch"} \cap both, prof)
  BY ToolWritesSet
<1>2. BackendWrites(devs, prof) = (((c \o e) \o p) \o s) \o f
  BY DEF BackendWrites
<1>3. both = (((({"cursor"} \cap both) \cup ({"eraser"} \cap both)) \cup ({"pad"} \cap both))
             \cup ({"stylus"} \cap both)) \cup ({"touch"} \cap both)
  BY DEF Types
<1> HIDE DEF both, c, e, p, s, f
<1>4. Sets(c \o e, ({"cursor"} \cap both) \cup ({"eraser"} \cap both), prof)
  BY <1>1, ConcatSets
<1>5. Sets((c \o e) \o p, (({"cursor"} \cap both) \cup ({"eraser"} \cap both)) \cup ({"pad"} \cap both), prof)
  BY <1>1, <1>4, ConcatSets
<1>6. Sets(((c \o e) \o p) \o s,
           ((({"cursor"} \cap both) \cup ({"eraser"} \cap both)) \cup ({"pad"} \cap both))
             \cup ({"stylus"} \cap both), prof)
  BY <1>1, <1>5, ConcatSets
<1>7. Sets((((c \o e) \o p) \o s) \o f,
           (((({"cursor"} \cap both) \cup ({"eraser"} \cap both)) \cup ({"pad"} \cap both))
             \cup ({"stylus"} \cap both)) \cup ({"touch"} \cap both), prof)
  BY <1>1, <1>6, ConcatSets
<1>8. Sets(BackendWrites(devs, prof), both, prof)
  BY <1>2, <1>3, <1>7
<1> QED BY <1>8 DEF both

\* The rotations of a screen that turns go first.
RotationTools(devs) == {"stylus", "eraser"} \cup ({"touch"} \cap DOMAIN devs)

LEMMA RotationWritesAre ==
    ASSUME NEW devs, NEW prof, NEW turn
    PROVE  /\ IsSeq(RotationWrites(devs, prof, turn))
           /\ ~FollowsScreen(prof) => ToSet(RotationWrites(devs, prof, turn)) = {}
           /\ FollowsScreen(prof) => ToSet(RotationWrites(devs, prof, turn))
                                   = {W(t, "Rotate", turn) : t \in RotationTools(devs)}
<1> DEFINE a == W("stylus", "Rotate", turn)
           b == W("eraser", "Rotate", turn)
           c == W("touch", "Rotate", turn)
           all == {W(t, "Rotate", turn) : t \in RotationTools(devs)}
           rest == IF "touch" \in DOMAIN devs THEN <<c>> ELSE <<>>
<1>1. CASE ~FollowsScreen(prof)
  <2>1. RotationWrites(devs, prof, turn) = <<>>
    BY <1>1 DEF RotationWrites
  <2> QED BY <1>1, <2>1, EmptyIsSeq
<1>2. CASE FollowsScreen(prof)
  <2>1. RotationWrites(devs, prof, turn) = <<a, b>> \o rest
    BY <1>2 DEF RotationWrites
  <2>2. IsSeq(<<a, b>>) /\ ToSet(<<a, b>>) = {a, b}
    <3>1. <<a, b>> \in Seq({a, b})
      OBVIOUS
    <3>2. ToSet(<<a, b>>) = {a, b}
      BY DEF ToSet
    <3> QED BY <3>1, <3>2, SeqIsSeq
  <2>3. IsSeq(rest) /\ ToSet(rest) = IF "touch" \in DOMAIN devs THEN {c} ELSE {}
    <3> HIDE DEF c
    <3> QED BY SingleIsSeq, EmptyIsSeq
  <2>4. all = {a, b} \cup (IF "touch" \in DOMAIN devs THEN {c} ELSE {})
    BY DEF RotationTools
  <2> HIDE DEF a, b, c, rest, all
  <2>5. IsSeq(<<a, b>> \o rest) /\ ToSet(<<a, b>> \o rest) = ToSet(<<a, b>>) \cup ToSet(rest)
    BY <2>2, <2>3, ConcatIsSeq
  <2>6. IsSeq(RotationWrites(devs, prof, turn)) /\ ToSet(RotationWrites(devs, prof, turn)) = all
    BY <2>1, <2>2, <2>3, <2>4, <2>5
  <2> QED BY <1>2, <2>6 DEF all
<1> QED BY <1>1, <1>2

\* What mapping writes.
SpaceWrite(prof, t) == W(t, "ScreenSpace", prof[t].ScreenSpace)
MapsTo(s, tools, prof) ==
    /\ IsSeq(s)
    /\ \A w : w \in ToSet(s) <=> \E t \in tools : w \in {SpaceWrite(prof, t), AreaWrite(prof, t)}

LEMMA MapToolMaps ==
    ASSUME NEW devs, NEW prof, NEW t
    PROVE  MapsTo(MapTool(devs, prof, t), {t} \cap DOMAIN devs, prof)
<1>1. CASE t \notin DOMAIN devs
  <2>1. MapTool(devs, prof, t) = <<>> /\ {t} \cap DOMAIN devs = {}
    BY <1>1 DEF MapTool
  <2> QED BY <2>1, EmptyIsSeq DEF MapsTo
<1>2. CASE t \in DOMAIN devs
  <2> DEFINE a == SpaceWrite(prof, t)
             b == AreaWrite(prof, t)
  <2>1. MapTool(devs, prof, t) = <<a, b>>
    BY <1>2 DEF MapTool, SpaceWrite, AreaWrite
  <2> HIDE DEF a, b
  <2>2. <<a, b>> \in Seq({a, b}) /\ ToSet(<<a, b>>) = {a, b}
    BY DEF ToSet
  <2>3. IsSeq(<<a, b>>)
    BY <2>2, SeqIsSeq
  <2>4. {t} \cap DOMAIN devs = {t}
    BY <1>2
  <2> QED BY <2>1, <2>2, <2>3, <2>4 DEF MapsTo, a, b
<1> QED BY <1>1, <1>2

LEMMA ConcatMaps ==
    ASSUME NEW s, NEW r, NEW T, NEW U, NEW prof, MapsTo(s, T, prof), MapsTo(r, U, prof)
    PROVE  MapsTo(s \o r, T \cup U, prof)
<1>1. IsSeq(s \o r) /\ ToSet(s \o r) = ToSet(s) \cup ToSet(r)
  BY ConcatIsSeq DEF MapsTo
<1> QED BY <1>1 DEF MapsTo

LEMMA MapWritesMap ==
    ASSUME NEW devs, NEW prof
    PROVE  /\ MapsTo(MapWrites(devs, prof), DOMAIN devs \cap HasXinput, prof)
           /\ \A t, w : Precedes(MapWrites(devs, prof), t, "Rotate", w)
<1> DEFINE D == DOMAIN devs
           s == MapTool(devs, prof, "stylus")
           e == MapTool(devs, prof, "eraser")
           f == MapTool(devs, prof, "touch")
<1>1. /\ MapsTo(s, {"stylus"} \cap D, prof) /\ MapsTo(e, {"eraser"} \cap D, prof)
      /\ MapsTo(f, {"touch"} \cap D, prof)
  BY MapToolMaps
<1>2. MapWrites(devs, prof) = (s \o e) \o f
  BY DEF MapWrites
<1>3. D \cap HasXinput = (({"stylus"} \cap D) \cup ({"eraser"} \cap D)) \cup ({"touch"} \cap D)
  BY DEF HasXinput
<1> HIDE DEF D, s, e, f
<1>4. MapsTo(s \o e, ({"stylus"} \cap D) \cup ({"eraser"} \cap D), prof)
  BY <1>1, ConcatMaps
<1>5. MapsTo((s \o e) \o f, (({"stylus"} \cap D) \cup ({"eraser"} \cap D)) \cup ({"touch"} \cap D), prof)
  BY <1>1, <1>4, ConcatMaps
<1>6. MapsTo(MapWrites(devs, prof), D \cap HasXinput, prof)
  BY <1>2, <1>3, <1>5
<1>7. \A w \in ToSet(MapWrites(devs, prof)) : w.prop # "Rotate"
  BY <1>6, WIs DEF MapsTo, SpaceWrite, AreaWrite
<1> QED BY <1>6, <1>7, OthersPrecede DEF D

-----------------------------------------------------------------------------
(* From what a tool has to what it should have. *)

\* The write ends at the tool's device.
Lands(tool, dev, w) == w.tool = tool /\ Possible(tool, dev, w.prop, w.value)
Brings(new, w) ==
    IF w.prop = "Area" THEN SetArea(w.value) = new.Area ELSE Taken(w.prop, w.value) = new[w.prop]

LandsOn(tool, dev, w, p) == Lands(tool, dev, w) /\ w.prop = p
Others == Property \ {"Area"}
SameBut(had, new) == \A p \in Others : had[p] = new[p]

\* The writes of s take the tool from what it has to what it should have; of its area that
\* is said only if exact.
AreaLands(tool, dev, s) == \E i \in DOMAIN s : LandsOn(tool, dev, s[i], "Area")
AreaAfterTurn(tool, dev, s) ==
    \A i \in DOMAIN s : LandsOn(tool, dev, s[i], "Rotate") =>
        \E j \in DOMAIN s : i < j /\ LandsOn(tool, dev, s[j], "Area")
AreaFollows(had, new) == Turned(had.Area, had.Rotate, new.Rotate) = new.Area
Leads(tool, dev, s, had, new, exact) ==
    /\ \A i \in DOMAIN s : Lands(tool, dev, s[i]) => Brings(new, s[i])
    /\ \A p \in Others : had[p] = new[p] \/ \E i \in DOMAIN s : LandsOn(tool, dev, s[i], p)
    /\ AreaLands(tool, dev, s) => AreaAfterTurn(tool, dev, s)
    /\ exact /\ ~AreaLands(tool, dev, s) => AreaFollows(had, new)

LEMMA OthersAre == "Rotate" \in Others /\ "Area" \notin Others /\ Property = Others \cup {"Area"}
BY DEF Others, Property, XsetwacomProperties, XinputProperties

LEMMA TurnedTwice ==
    ASSUME NEW a, NEW from, NEW to
    PROVE  Turned(Turned(a, from, to), to, to) = Turned(a, from, to)
BY DEF Turned

\* Another state of the tool that differs in the area at most.
LEMMA LeadsFromSame ==
    ASSUME NEW tool, NEW dev, NEW s, NEW had, NEW new, NEW exact,
           Leads(tool, dev, s, had, new, exact),
           NEW had2, NEW exact2, SameBut(had2, had),
           exact2 => exact /\ had2.Area = had.Area
    PROVE  Leads(tool, dev, s, had2, new, exact2)
<1>1. \A p \in Others : had2[p] = had[p]
  BY DEF SameBut
<1>2. had2.Rotate = had.Rotate
  BY <1>1, OthersAre
<1>3. exact2 /\ ~AreaLands(tool, dev, s) => AreaFollows(had2, new)
  BY <1>2 DEF Leads, AreaFollows
<1> QED BY <1>1, <1>3 DEF Leads

\* When all is written the tool has what it should have.
LEMMA LeadsToEnd ==
    ASSUME NEW tool, NEW dev, NEW had, NEW new, NEW exact,
           Leads(tool, dev, <<>>, had, new, exact)
    PROVE  SameBut(had, new) /\ (exact => had.Area = new.Area)
<1>1. ~AreaLands(tool, dev, <<>>)
  BY EmptyIsSeq DEF AreaLands
<1>2. SameBut(had, new)
  BY EmptyIsSeq DEF Leads, SameBut
<1>3. had.Rotate = new.Rotate
  BY <1>2, OthersAre DEF SameBut
<1>4. exact => had.Area = new.Area
  BY <1>1, <1>3 DEF Leads, AreaFollows, Turned
<1> QED BY <1>2, <1>4

\* New requests, made of a tool that has none to come.
LEMMA LeadsOnFromEnd ==
    ASSUME NEW tool, NEW dev, NEW had, NEW mid, NEW exact,
           Leads(tool, dev, <<>>, had, mid, exact),
           NEW s, NEW new, Leads(tool, dev, s, mid, new, TRUE)
    PROVE  Leads(tool, dev, s, had, new, exact)
<1>1. SameBut(had, mid) /\ (exact => had.Area = mid.Area)
  BY LeadsToEnd
<1> QED BY <1>1, LeadsFromSame

LEMMA TailIs ==
    ASSUME NEW s, IsSeq(s), s # <<>>
    PROVE  /\ 1 \in DOMAIN s /\ s[1] = Head(s)
           /\ IsSeq(Tail(s))
           /\ DOMAIN Tail(s) = 1..(Len(s) - 1) /\ Len(s) \in Nat
           /\ \A i \in DOMAIN Tail(s) : i + 1 \in DOMAIN s /\ Tail(s)[i] = s[i + 1]
           /\ \A i \in DOMAIN s : i # 1 => i - 1 \in DOMAIN Tail(s) /\ Tail(s)[i - 1] = s[i]
<1> DEFINE S == ToSet(s)
           r == Tail(s)
<1>1. s \in Seq(S)
  BY DEF IsSeq
<1> HIDE DEF S
<1>2. Len(s) \in Nat /\ Len(s) >= 1 /\ DOMAIN s = 1..Len(s)
  BY <1>1, EmptySeq
<1>3. /\ r \in Seq(S) /\ Len(r) = Len(s) - 1
      /\ \A i \in 1..Len(r) : r[i] = s[i + 1]
  BY <1>1, HeadTailProperties
<1>4. IsSeq(r)
  BY <1>3, SeqIsSeq
<1>5. DOMAIN r = 1..(Len(s) - 1)
  BY <1>3
<1>6. 1 \in DOMAIN s /\ s[1] = Head(s)
  BY <1>1, <1>2
<1> HIDE DEF r
<1>7. \A i \in DOMAIN r : i + 1 \in DOMAIN s /\ r[i] = s[i + 1]
  BY <1>2, <1>3, <1>5
<1>8. \A i \in DOMAIN s : i # 1 => i - 1 \in DOMAIN r /\ r[i - 1] = s[i]
  BY <1>2, <1>3, <1>5
<1> QED BY <1>2, <1>4, <1>5, <1>6, <1>7, <1>8 DEF r

LEMMA TailLands ==
    ASSUME NEW tool, NEW dev, NEW s, IsSeq(s), s # <<>>
    PROVE  /\ AreaLands(tool, dev, Tail(s)) => AreaLands(tool, dev, s)
           /\ AreaLands(tool, dev, s) => AreaLands(tool, dev, Tail(s)) \/ LandsOn(tool, dev, Head(s), "Area")
           /\ AreaAfterTurn(tool, dev, s) => AreaAfterTurn(tool, dev, Tail(s))
<1> DEFINE r == Tail(s)
<1>1. /\ 1 \in DOMAIN s /\ s[1] = Head(s)
      /\ DOMAIN r = 1..(Len(s) - 1) /\ Len(s) \in Nat
      /\ \A i \in DOMAIN r : i + 1 \in DOMAIN s /\ r[i] = s[i + 1]
      /\ \A i \in DOMAIN s : i # 1 => i - 1 \in DOMAIN r /\ r[i - 1] = s[i]
  BY TailIs
<1> HIDE DEF r
<1>2. AreaLands(tool, dev, r) => AreaLands(tool, dev, s)
  BY <1>1 DEF AreaLands
<1>3. AreaLands(tool, dev, s) => AreaLands(tool, dev, r) \/ LandsOn(tool, dev, Head(s), "Area")
  BY <1>1 DEF AreaLands
<1>4. ASSUME AreaAfterTurn(tool, dev, s), NEW i \in DOMAIN r, LandsOn(tool, dev, r[i], "Rotate")
      PROVE  \E j \in DOMAIN r : i < j /\ LandsOn(tool, dev, r[j], "Area")
  <2>1. i + 1 \in DOMAIN s /\ LandsOn(tool, dev, s[i + 1], "Rotate") /\ i \in 1..(Len(s) - 1)
    BY <1>1, <1>4
  <2>2. PICK j \in DOMAIN s : i + 1 < j /\ LandsOn(tool, dev, s[j], "Area")
    BY <1>4, <2>1 DEF AreaAfterTurn
  <2>3. DOMAIN s = 1..Len(s)
    BY SeqIndices
  <2>4. j # 1 /\ i < j - 1
    BY <1>1, <2>1, <2>2, <2>3
  <2>5. j - 1 \in DOMAIN r /\ r[j - 1] = s[j]
    BY <1>1, <2>4
  <2> QED BY <2>2, <2>4, <2>5
<1>5. AreaAfterTurn(tool, dev, s) => AreaAfterTurn(tool, dev, r)
  BY <1>4 DEF AreaAfterTurn
<1> QED BY <1>2, <1>3, <1>5 DEF r

\* A write that ends elsewhere.
LEMMA LeadsPast ==
    ASSUME NEW tool, NEW dev, NEW s, IsSeq(s), s # <<>>, NEW had, NEW new, NEW exact,
           Leads(tool, dev, s, had, new, exact), ~Lands(tool, dev, Head(s))
    PROVE  Leads(tool, dev, Tail(s), had, new, exact)
<1> DEFINE r == Tail(s)
<1>1. /\ s[1] = Head(s)
      /\ \A i \in DOMAIN r : i + 1 \in DOMAIN s /\ r[i] = s[i + 1]
      /\ \A i \in DOMAIN s : i # 1 => i - 1 \in DOMAIN r /\ r[i - 1] = s[i]
  BY TailIs
<1>2. /\ AreaLands(tool, dev, r) => AreaLands(tool, dev, s)
      /\ AreaLands(tool, dev, s) => AreaLands(tool, dev, r)
      /\ AreaAfterTurn(tool, dev, s) => AreaAfterTurn(tool, dev, r)
  BY TailLands DEF LandsOn
<1> HIDE DEF r
<1>3. \A i \in DOMAIN r : Lands(tool, dev, r[i]) => Brings(new, r[i])
  BY <1>1 DEF Leads
<1>4. ASSUME NEW p \in Others
      PROVE  had[p] = new[p] \/ \E i \in DOMAIN r : LandsOn(tool, dev, r[i], p)
  <2>1. CASE had[p] = new[p]
    BY <2>1
  <2>2. CASE \E i \in DOMAIN s : LandsOn(tool, dev, s[i], p)
    <3>1. PICK i \in DOMAIN s : LandsOn(tool, dev, s[i], p)
      BY <2>2
    <3>2. i # 1
      BY <1>1, <3>1 DEF LandsOn
    <3> QED BY <1>1, <3>1, <3>2
  <2> QED BY <2>1, <2>2 DEF Leads
<1>5. /\ AreaLands(tool, dev, r) => AreaAfterTurn(tool, dev, r)
      /\ exact /\ ~AreaLands(tool, dev, r) => AreaFollows(had, new)
  BY <1>2 DEF Leads
<1> QED BY <1>3, <1>4, <1>5 DEF Leads, r

LEMMA TakenIs ==
    /\ \A v : Taken("Rotate", v) = RotationOf(v)
    /\ \A v, p : p # "Rotate" => Taken(p, v) = v
    /\ \A turn \in Real : RotationOf(turn) = turn
    /\ \A v \in Automatic : ~IsReal(v)
    /\ \A v : IsReal(v) => RotationOf(v) \in Real
<1>1. \A v \in Automatic : v \notin Real
  BY DEF Automatic, Real
<1> QED BY <1>1 DEF Taken, RotationOf, IsReal

LEMMA WrittenIs ==
    ASSUME NEW had, DOMAIN had = Property, NEW w, w.prop \in Property
    PROVE  /\ DOMAIN Written(had, w) = Property
           /\ \A p \in Others : p # w.prop => Written(had, w)[p] = had[p]
           /\ w.prop \in Others => Written(had, w)[w.prop] = Taken(w.prop, w.value)
           /\ w.prop = "Area" => Written(had, w).Area = SetArea(w.value)
           /\ w.prop = "Rotate" =>
                  Written(had, w).Area = Turned(had.Area, had.Rotate, Taken("Rotate", w.value))
           /\ w.prop # "Area" /\ w.prop # "Rotate" => Written(had, w).Area = had.Area
<1>1. "Area" \in Property /\ "Rotate" \in Property /\ "Area" \notin Others /\ Others \subseteq Property
  BY OthersAre
<1>2. CASE w.prop = "Rotate"
  <2> DEFINE v == Taken("Rotate", w.value)
  <2>1. Written(had, w) = [had EXCEPT !.Rotate = v, !.Area = Turned(@, had.Rotate, v)]
    BY <1>2, TakenIs DEF Written
  <2> HIDE DEF v
  <2>2. /\ Written(had, w).Rotate = v /\ Written(had, w).Area = Turned(had.Area, had.Rotate, v)
        /\ DOMAIN Written(had, w) = Property
        /\ \A p \in Others : p # w.prop => Written(had, w)[p] = had[p]
    BY <1>1, <1>2, <2>1
  <2> QED BY <1>2, <2>2 DEF v
<1>3. CASE w.prop = "Area"
  <2>1. Written(had, w) = [had EXCEPT !.Area = SetArea(w.value)]
    BY <1>3 DEF Written
  <2> QED BY <1>1, <1>3, <2>1
<1>4. CASE w.prop # "Rotate" /\ w.prop # "Area"
  <2>1. Written(had, w) = [had EXCEPT ![w.prop] = w.value]
    BY <1>4 DEF Written
  <2>2. Taken(w.prop, w.value) = w.value
    BY <1>4, TakenIs
  <2> QED BY <1>1, <1>4, <2>1, <2>2
<1> QED BY <1>2, <1>3, <1>4

\* A write that ends at the tool.  One of the area makes exact what was not.
LEMMA LeadsWritten ==
    ASSUME NEW tool, NEW dev, NEW s, IsSeq(s), s # <<>>, NEW had, NEW new, NEW exact,
           Leads(tool, dev, s, had, new, exact), Lands(tool, dev, Head(s)),
           DOMAIN had = Property, Head(s).prop \in Property,
           NEW exact2, exact2 => exact \/ Head(s).prop = "Area"
    PROVE  Leads(tool, dev, Tail(s), Written(had, Head(s)), new, exact2)
<1> DEFINE r == Tail(s)
           w == Head(s)
           got == Written(had, w)
<1>1. /\ 1 \in DOMAIN s /\ s[1] = w
      /\ \A i \in DOMAIN r : i + 1 \in DOMAIN s /\ r[i] = s[i + 1]
      /\ \A i \in DOMAIN s : i # 1 => i - 1 \in DOMAIN r /\ r[i - 1] = s[i]
  BY TailIs
<1>2. /\ AreaLands(tool, dev, s) => AreaLands(tool, dev, r) \/ LandsOn(tool, dev, w, "Area")
      /\ AreaAfterTurn(tool, dev, s) => AreaAfterTurn(tool, dev, r)
      /\ AreaLands(tool, dev, r) => AreaLands(tool, dev, s)
  BY TailLands
<1>3. /\ \A p \in Others : p # w.prop => got[p] = had[p]
      /\ w.prop \in Others => got[w.prop] = Taken(w.prop, w.value)
      /\ w.prop = "Area" => got.Area = SetArea(w.value)
      /\ w.prop = "Rotate" => got.Area = Turned(had.Area, had.Rotate, Taken("Rotate", w.value))
      /\ w.prop # "Area" /\ w.prop # "Rotate" => got.Area = had.Area
  BY WrittenIs
<1> HIDE DEF r, got
<1>4. Lands(tool, dev, w) /\ Brings(new, w) /\ w.prop \in Property
  BY <1>1 DEF Leads
<1> HIDE DEF w
<1>5. "Area" \notin Others /\ "Rotate" \in Others
  BY OthersAre
<1>6. \A i \in DOMAIN r : Lands(tool, dev, r[i]) => Brings(new, r[i])
  BY <1>1 DEF Leads
<1>7. ASSUME NEW p \in Others
      PROVE  got[p] = new[p] \/ \E i \in DOMAIN r : LandsOn(tool, dev, r[i], p)
  <2>1. CASE p = w.prop
    BY <1>3, <1>4, <1>5, <2>1 DEF Brings
  <2>2. CASE p # w.prop
    <3>1. got[p] = had[p]
      BY <1>3, <2>2
    <3>2. CASE had[p] = new[p]
      BY <3>1, <3>2
    <3>3. CASE \E i \in DOMAIN s : LandsOn(tool, dev, s[i], p)
      <4>1. PICK i \in DOMAIN s : LandsOn(tool, dev, s[i], p)
        BY <3>3
      <4>2. i # 1
        BY <1>1, <2>2, <4>1 DEF LandsOn
      <4> QED BY <1>1, <4>1, <4>2
    <3> QED BY <3>2, <3>3 DEF Leads
  <2> QED BY <2>1, <2>2
<1>8. AreaLands(tool, dev, r) => AreaAfterTurn(tool, dev, r)
  BY <1>2 DEF Leads
<1>9. ASSUME exact2, ~AreaLands(tool, dev, r)
      PROVE  AreaFollows(got, new)
  <2>1. CASE w.prop = "Area"
    <3>1. got.Area = new.Area
      BY <1>3, <1>4, <2>1 DEF Brings
    <3>2. AreaLands(tool, dev, s)
      BY <1>1, <1>4, <2>1 DEF AreaLands, LandsOn
    <3>3. AreaAfterTurn(tool, dev, r)
      BY <1>2, <3>2 DEF Leads
    <3>4. \A i \in DOMAIN r : ~LandsOn(tool, dev, r[i], "Rotate")
      BY <1>9, <3>3 DEF AreaLands, AreaAfterTurn
    <3>5. got.Rotate = new.Rotate
      BY <1>5, <1>7, <3>4
    <3> QED BY <3>1, <3>5 DEF AreaFollows, Turned
  <2>2. CASE w.prop # "Area"
    <3>1. ~AreaLands(tool, dev, s) /\ exact
      BY <1>2, <1>9, <2>2 DEF LandsOn, w
    <3>2. AreaFollows(had, new)
      BY <3>1 DEF Leads
    <3>3. CASE w.prop = "Rotate"
      <4>1. got.Rotate = Taken("Rotate", w.value) /\ new.Rotate = Taken("Rotate", w.value)
        BY <1>3, <1>4, <1>5, <3>3, <2>2 DEF Brings
      <4>2. got.Area = Turned(had.Area, had.Rotate, Taken("Rotate", w.value))
        BY <1>3, <3>3
      <4>3. got.Area = new.Area
        BY <3>2, <4>1, <4>2 DEF AreaFollows
      <4> QED BY <4>1, <4>3 DEF AreaFollows, Turned
    <3>4. CASE w.prop # "Rotate"
      <4>1. got.Area = had.Area /\ got.Rotate = had.Rotate
        BY <1>3, <1>5, <2>2, <3>4
      <4> QED BY <3>2, <4>1 DEF AreaFollows
    <3> QED BY <3>3, <3>4
  <2> QED BY <2>1, <2>2
<1> QED BY <1>6, <1>7, <1>8, <1>9 DEF Leads, r, got, w

-----------------------------------------------------------------------------
(* What a request leads to. *)

\* The writes are of what is asked for, all of it is written, and the area after the
\* rotation.
Covers(tool, dev, s, entry) ==
    /\ \A w \in ToSet(s) : Lands(tool, dev, w) => w.prop \in DOMAIN entry /\ entry[w.prop] = w.value
    /\ \A p \in DOMAIN entry : Possible(tool, dev, p, entry[p]) => W(tool, p, entry[p]) \in ToSet(s)
    /\ "Area" \in DOMAIN entry => Precedes(s, tool, "Rotate", W(tool, "Area", entry.Area))

Asks(tool, dev, entry, p) == p \in DOMAIN entry /\ Possible(tool, dev, p, entry[p])

LEMMA AfterIs ==
    ASSUME NEW tool, NEW had, NEW dev, NEW entry
    PROVE  /\ DOMAIN After(tool, had, dev, entry) = Property
           /\ \A p \in Others : After(tool, had, dev, entry)[p]
                 = IF Asks(tool, dev, entry, p) THEN Taken(p, entry[p]) ELSE had[p]
           /\ After(tool, had, dev, entry).Area
                 = IF Asks(tool, dev, entry, "Area") THEN SetArea(entry.Area)
                   ELSE Turned(had.Area, had.Rotate, After(tool, had, dev, entry).Rotate)
<1> DEFINE new == [p \in Property |->
                      IF Asks(tool, dev, entry, p) THEN Taken(p, entry[p]) ELSE had[p]]
           after == [new EXCEPT !.Area = IF Asks(tool, dev, entry, "Area") THEN SetArea(@)
                                         ELSE Turned(@, had.Rotate, new.Rotate)]
<1>1. After(tool, had, dev, entry) = after
  BY DEF After, Asks
<1>2. "Area" \in Property /\ "Area" \notin Others /\ Others \subseteq Property /\ "Rotate" \in Others
  BY OthersAre
<1>3. /\ DOMAIN new = Property
      /\ \A p \in Property :
            new[p] = IF Asks(tool, dev, entry, p) THEN Taken(p, entry[p]) ELSE had[p]
  OBVIOUS
<1>4. DOMAIN after = Property /\ \A p \in Others : after[p] = new[p]
  BY <1>2, <1>3
<1>5. after.Area = IF Asks(tool, dev, entry, "Area") THEN SetArea(new.Area)
                   ELSE Turned(new.Area, had.Rotate, new.Rotate)
  BY <1>2, <1>3
<1> HIDE DEF new, after
<1>6. after.Rotate = new.Rotate
  BY <1>2, <1>4
<1>7. new.Area = IF Asks(tool, dev, entry, "Area") THEN entry.Area ELSE had.Area
  <2>1. Taken("Area", entry.Area) = entry.Area
    BY TakenIs
  <2> QED BY <1>2, <1>3, <2>1
<1>8. after.Area = IF Asks(tool, dev, entry, "Area") THEN SetArea(entry.Area)
                   ELSE Turned(had.Area, had.Rotate, after.Rotate)
  BY <1>5, <1>6, <1>7
<1>9. \A p \in Others :
         after[p] = IF Asks(tool, dev, entry, p) THEN Taken(p, entry[p]) ELSE had[p]
  BY <1>2, <1>3, <1>4
<1> QED BY <1>1, <1>4, <1>8, <1>9

LEMMA CoversLeads ==
    ASSUME NEW tool, NEW had, NEW dev, NEW entry, NEW s, IsSeq(s), Covers(tool, dev, s, entry),
           \A w \in ToSet(s) : w.prop \in Property
    PROVE  Leads(tool, dev, s, had, After(tool, had, dev, entry), TRUE)
<1> DEFINE new == After(tool, had, dev, entry)
<1>1. /\ \A p \in Others :
            new[p] = IF Asks(tool, dev, entry, p) THEN Taken(p, entry[p]) ELSE had[p]
      /\ new.Area = IF Asks(tool, dev, entry, "Area") THEN SetArea(entry.Area)
                    ELSE Turned(had.Area, had.Rotate, new.Rotate)
  BY AfterIs
<1> HIDE DEF new
<1>2. \A i \in DOMAIN s : s[i] \in ToSet(s)
  BY DEF ToSet
<1>3. ASSUME NEW i \in DOMAIN s, Lands(tool, dev, s[i])
      PROVE  /\ Asks(tool, dev, entry, s[i].prop) /\ entry[s[i].prop] = s[i].value
             /\ s[i].prop = "Area" \/ s[i].prop \in Others
  BY <1>2, <1>3, OthersAre DEF Covers, Asks, Lands
<1>4. ASSUME NEW p, Asks(tool, dev, entry, p)
      PROVE  \E i \in DOMAIN s : LandsOn(tool, dev, s[i], p)
  <2>1. W(tool, p, entry[p]) \in ToSet(s)
    BY <1>4 DEF Covers, Asks
  <2>2. PICK i \in DOMAIN s : s[i] = W(tool, p, entry[p])
    BY <2>1 DEF ToSet
  <2>3. s[i].tool = tool /\ s[i].prop = p /\ s[i].value = entry[p]
    BY <2>2, WIs
  <2> QED BY <1>4, <2>3 DEF LandsOn, Lands, Asks
<1>5. ASSUME NEW i \in DOMAIN s, Lands(tool, dev, s[i]) PROVE Brings(new, s[i])
  BY <1>1, <1>3, <1>5 DEF Brings
<1>6. ASSUME NEW p \in Others
      PROVE  had[p] = new[p] \/ \E i \in DOMAIN s : LandsOn(tool, dev, s[i], p)
  BY <1>1, <1>4
<1>7. ASSUME AreaLands(tool, dev, s), NEW i \in DOMAIN s, LandsOn(tool, dev, s[i], "Rotate")
      PROVE  \E j \in DOMAIN s : i < j /\ LandsOn(tool, dev, s[j], "Area")
  <2>1. Asks(tool, dev, entry, "Area")
    BY <1>3, <1>7 DEF AreaLands, LandsOn
  <2>2. Precedes(s, tool, "Rotate", W(tool, "Area", entry.Area))
    BY <2>1 DEF Covers, Asks
  <2>3. s[i].tool = tool /\ s[i].prop = "Rotate"
    BY <1>7 DEF LandsOn, Lands
  <2>4. PICK j \in DOMAIN s : i < j /\ s[j] = W(tool, "Area", entry.Area)
    BY <2>2, <2>3 DEF Precedes
  <2>5. s[j].tool = tool /\ s[j].prop = "Area" /\ s[j].value = entry.Area
    BY <2>4, WIs
  <2> QED BY <2>1, <2>4, <2>5 DEF LandsOn, Lands, Asks
<1>8. ASSUME ~AreaLands(tool, dev, s) PROVE AreaFollows(had, new)
  <2>1. ~Asks(tool, dev, entry, "Area")
    BY <1>4, <1>8 DEF AreaLands
  <2> QED BY <1>1, <2>1 DEF AreaFollows
<1>9. AreaLands(tool, dev, s) => AreaAfterTurn(tool, dev, s)
  BY <1>7 DEF AreaAfterTurn
<1> QED BY <1>5, <1>6, <1>8, <1>9 DEF Leads, new

LEMMA NothingLeads ==
    ASSUME NEW tool, NEW dev, NEW had, NEW s, \A w \in ToSet(s) : w.tool # tool
    PROVE  Leads(tool, dev, s, had, had, TRUE)
<1>1. \A i \in DOMAIN s : ~Lands(tool, dev, s[i])
  BY DEF ToSet, Lands
<1> QED BY <1>1 DEF Leads, LandsOn, AreaLands, AreaFollows, Turned

LEMMA ProfileIs ==
    ASSUME NEW prof, IsProfile(prof)
    PROVE  /\ DOMAIN prof = HasXinput
           /\ \A t \in HasXinput :
                 /\ DOMAIN prof[t] = Property
                 /\ \A p \in Property : prof[t][p] = Empty \/ IsValue(p, prof[t][p])
                 /\ prof[t].Area # Empty /\ prof[t].ScreenSpace # Empty
                 /\ FollowsScreen(prof) => prof[t].Rotate \in Automatic \cup {Empty}
BY DEF IsProfile, FollowsScreen

LEMMA TurnIsRequest ==
    ASSUME NEW turn \in Real, NEW t \in HasXinput
    PROVE  IsRequest(W(t, "Rotate", turn))
<1>1. turn # Empty
  BY ProfileAssumption
<1>2. IsValue("Rotate", turn)
  BY <1>1 DEF IsValue, Real
<1>3. t \in Types /\ "Rotate" \in Property
  BY DEF HasXinput, Types, Property, XsetwacomProperties
<1> QED BY <1>2, <1>3, WIs DEF IsRequest

LEMMA EntryIsRequest ==
    ASSUME NEW prof, IsProfile(prof), NEW t \in HasXinput, NEW p \in Property, prof[t][p] # Empty
    PROVE  IsRequest(W(t, p, prof[t][p]))
<1>1. IsValue(p, prof[t][p])
  BY ProfileIs
<1>2. t \in Types
  BY DEF HasXinput, Types
<1> QED BY <1>1, <1>2, WIs DEF IsRequest

\* What mapping writes is in the profile.
LEMMA MapIsRequest ==
    ASSUME NEW devs, NEW prof, IsProfile(prof), NEW w \in ToSet(MapWrites(devs, prof))
    PROVE  IsRequest(w) /\ w.tool \in HasXinput
<1>1. PICK t \in DOMAIN devs \cap HasXinput : w \in {SpaceWrite(prof, t), AreaWrite(prof, t)}
  BY MapWritesMap DEF MapsTo
<1>2. "ScreenSpace" \in Property /\ "Area" \in Property
  BY DEF Property, XsetwacomProperties, XinputProperties
<1>3. /\ IsRequest(W(t, "ScreenSpace", prof[t]["ScreenSpace"]))
      /\ IsRequest(W(t, "Area", prof[t]["Area"]))
  BY <1>2, ProfileIs, EntryIsRequest
<1> QED BY <1>1, <1>3, WIs DEF SpaceWrite, AreaWrite

LEMMA RotationIsRequest ==
    ASSUME NEW devs, NEW prof, NEW turn \in Real, NEW w \in ToSet(RotationWrites(devs, prof, turn))
    PROVE  IsRequest(w) /\ w.tool \in HasXinput /\ FollowsScreen(prof) /\ w.prop = "Rotate" /\ w.value = turn
<1>1. FollowsScreen(prof)
  BY RotationWritesAre
<1>2. PICK t \in RotationTools(devs) : w = W(t, "Rotate", turn)
  BY <1>1, RotationWritesAre
<1>3. t \in HasXinput
  BY DEF RotationTools, HasXinput
<1> QED BY <1>1, <1>2, <1>3, TurnIsRequest, WIs

\* The writes for a screen that turns.
LEMMA RotatedWrites ==
    ASSUME NEW devs, NEW prof, IsProfile(prof), NEW turn \in Real,
           NEW s, s = RotationWrites(devs, prof, turn) \o MapWrites(devs, prof)
    PROVE  /\ IsSeq(s)
           /\ ToSet(s) = ToSet(RotationWrites(devs, prof, turn)) \cup ToSet(MapWrites(devs, prof))
           /\ \A w \in ToSet(s) : IsRequest(w) /\ w.tool \in HasXinput
           /\ \A t \in DOMAIN devs \cap HasXinput : Precedes(s, t, "Rotate", AreaWrite(prof, t))
<1>1. /\ IsSeq(RotationWrites(devs, prof, turn)) /\ IsSeq(MapWrites(devs, prof))
      /\ \A t \in DOMAIN devs \cap HasXinput : AreaWrite(prof, t) \in ToSet(MapWrites(devs, prof))
      /\ \A t, w : Precedes(MapWrites(devs, prof), t, "Rotate", w)
  BY RotationWritesAre, MapWritesMap DEF MapsTo
<1>2. /\ IsSeq(s)
      /\ ToSet(s) = ToSet(RotationWrites(devs, prof, turn)) \cup ToSet(MapWrites(devs, prof))
  BY <1>1, ConcatIsSeq
<1>3. \A w \in ToSet(s) : IsRequest(w) /\ w.tool \in HasXinput
  BY <1>2, MapIsRequest, RotationIsRequest
<1>4. ASSUME NEW t \in DOMAIN devs \cap HasXinput PROVE Precedes(s, t, "Rotate", AreaWrite(prof, t))
  BY <1>1, <1>4, ConcatPrecedes
<1> QED BY <1>2, <1>3, <1>4

\* The writes for a profile.
LEMMA ProfileWrites ==
    ASSUME NEW devs, DOMAIN devs \subseteq Types, NEW prof, IsProfile(prof), NEW turn \in Real,
           NEW s, s = RotationWrites(devs, prof, turn) \o MapWrites(devs, prof)
                      \o BackendWrites(devs, prof)
    PROVE  /\ IsSeq(s)
           /\ ToSet(s) = ToSet(RotationWrites(devs, prof, turn)) \cup ToSet(MapWrites(devs, prof))
                         \cup ToSet(BackendWrites(devs, prof))
           /\ \A w \in ToSet(s) : IsRequest(w) /\ w.tool \in HasXinput
           /\ \A t \in DOMAIN devs \cap HasXinput : Precedes(s, t, "Rotate", AreaWrite(prof, t))
           /\ Sets(BackendWrites(devs, prof), DOMAIN devs \cap HasXinput, prof)
<1> DEFINE r == RotationWrites(devs, prof, turn) \o MapWrites(devs, prof)
           b == BackendWrites(devs, prof)
<1>1. /\ IsSeq(r)
      /\ ToSet(r) = ToSet(RotationWrites(devs, prof, turn)) \cup ToSet(MapWrites(devs, prof))
      /\ \A w \in ToSet(r) : IsRequest(w) /\ w.tool \in HasXinput
      /\ \A t \in DOMAIN devs \cap HasXinput : Precedes(r, t, "Rotate", AreaWrite(prof, t))
  BY RotatedWrites
<1>2. s = r \o b
  OBVIOUS
<1>3. DOMAIN prof = HasXinput /\ \A t \in DOMAIN prof : prof[t].Area # Empty
  BY ProfileIs
<1>4. Sets(b, DOMAIN devs \cap HasXinput, prof)
  BY <1>3, BackendWritesSet
<1> HIDE DEF r, b
<1>5. IsSeq(b) /\ \A t : Precedes(b, t, "Rotate", AreaWrite(prof, t))
  BY <1>4 DEF Sets
<1>6. IsSeq(s) /\ ToSet(s) = ToSet(r) \cup ToSet(b)
  BY <1>1, <1>2, <1>5, ConcatIsSeq
<1>7. ASSUME NEW w \in ToSet(b) PROVE IsRequest(w) /\ w.tool \in HasXinput
  <2>1. PICK t \in DOMAIN devs \cap HasXinput, p \in Property :
             prof[t][p] # Empty /\ w = W(t, p, prof[t][p])
    BY <1>4, <1>7 DEF Sets
  <2> QED BY <2>1, EntryIsRequest, WIs
<1>8. ASSUME NEW t \in DOMAIN devs \cap HasXinput PROVE Precedes(s, t, "Rotate", AreaWrite(prof, t))
  BY <1>1, <1>2, <1>5, <1>8, ConcatPrecedes
<1> QED BY <1>1, <1>4, <1>6, <1>7, <1>8 DEF b

LEMMA EntryIs ==
    ASSUME NEW prof, IsProfile(prof), NEW t \in HasXinput, NEW turn
    PROVE  /\ DOMAIN ProfileEntry(prof, t, turn) = Property
           /\ \A p \in Property : p # "Rotate" => ProfileEntry(prof, t, turn)[p] = prof[t][p]
           /\ ProfileEntry(prof, t, turn)["Rotate"]
                 = IF FollowsScreen(prof) THEN turn ELSE prof[t]["Rotate"]
           /\ ProfileEntry(prof, t, turn)["Area"] = prof[t]["Area"]
<1>1. DOMAIN prof[t] = Property
  BY ProfileIs
<1>2. "Rotate" \in Property /\ "Area" \in Property
  BY DEF Property, XsetwacomProperties
<1>3. CASE FollowsScreen(prof)
  <2>1. ProfileEntry(prof, t, turn) = [prof[t] EXCEPT !.Rotate = turn]
    BY <1>3 DEF ProfileEntry
  <2> QED BY <1>1, <1>2, <1>3, <2>1
<1>4. CASE ~FollowsScreen(prof)
  <2>1. ProfileEntry(prof, t, turn) = prof[t]
    BY <1>4 DEF ProfileEntry
  <2> QED BY <1>1, <1>2, <1>4, <2>1
<1> QED BY <1>3, <1>4

LEMMA ProfileCovers ==
    ASSUME NEW devs, DOMAIN devs \subseteq Types, NEW prof, IsProfile(prof), NEW turn \in Real,
           NEW s, s = RotationWrites(devs, prof, turn) \o MapWrites(devs, prof)
                      \o BackendWrites(devs, prof),
           NEW t \in DOMAIN devs \cap HasXinput, NEW dev
    PROVE  Covers(t, dev, s, ProfileEntry(prof, t, turn))
<1> DEFINE entry == ProfileEntry(prof, t, turn)
           R == ToSet(RotationWrites(devs, prof, turn))
           M == ToSet(MapWrites(devs, prof))
           B == ToSet(BackendWrites(devs, prof))
<1>1. /\ ToSet(s) = R \cup M \cup B
      /\ Precedes(s, t, "Rotate", AreaWrite(prof, t))
      /\ Sets(BackendWrites(devs, prof), DOMAIN devs \cap HasXinput, prof)
  BY ProfileWrites
<1>2. /\ DOMAIN entry = Property
      /\ \A p \in Property : p # "Rotate" => entry[p] = prof[t][p]
      /\ entry["Rotate"] = IF FollowsScreen(prof) THEN turn ELSE prof[t]["Rotate"]
      /\ entry["Area"] = prof[t]["Area"]
  BY EntryIs
<1>3. "Rotate" \in Property /\ "Area" \in Property /\ "ScreenSpace" \in Property
  BY DEF Property, XsetwacomProperties, XinputProperties
<1> HIDE DEF entry
<1>4. ASSUME NEW w \in R, w.tool = t PROVE w.prop \in DOMAIN entry /\ entry[w.prop] = w.value
  <2>1. w.prop = "Rotate" /\ w.value = turn /\ FollowsScreen(prof)
    BY <1>4, RotationIsRequest
  <2> QED BY <1>2, <1>3, <2>1
<1>5. ASSUME NEW w \in M, w.tool = t PROVE w.prop \in DOMAIN entry /\ entry[w.prop] = w.value
  <2>1. PICK u \in DOMAIN devs \cap HasXinput : w \in {SpaceWrite(prof, u), AreaWrite(prof, u)}
    BY MapWritesMap DEF MapsTo
  <2>2. CASE w = SpaceWrite(prof, u)
    <3>1. w.tool = u /\ w.prop = "ScreenSpace" /\ w.value = prof[u]["ScreenSpace"]
      BY <2>2, WIs DEF SpaceWrite
    <3> QED BY <1>2, <1>3, <1>5, <3>1
  <2>3. CASE w = AreaWrite(prof, u)
    <3>1. w.tool = u /\ w.prop = "Area" /\ w.value = prof[u]["Area"]
      BY <2>3, WIs DEF AreaWrite
    <3> QED BY <1>2, <1>3, <1>5, <3>1
  <2> QED BY <2>1, <2>2, <2>3
<1>6. ASSUME NEW w \in B, Lands(t, dev, w) PROVE w.prop \in DOMAIN entry /\ entry[w.prop] = w.value
  <2>1. PICK u \in DOMAIN devs \cap HasXinput, p \in Property :
             prof[u][p] # Empty /\ w = W(u, p, prof[u][p])
    BY <1>1 DEF Sets
  <2>2. w.tool = u /\ w.prop = p /\ w.value = prof[u][p]
    BY <2>1, WIs
  <2>3. u = t
    BY <1>6, <2>2 DEF Lands
  <2>4. CASE p # "Rotate"
    BY <1>2, <2>2, <2>3, <2>4
  <2>5. CASE p = "Rotate"
    <3>1. IsReal(w.value) /\ w.value # Empty
      BY <1>6, <2>2, <2>5 DEF Lands, Possible
    <3>2. prof[t]["Rotate"] \notin Automatic \cup {Empty}
      BY <2>2, <2>3, <2>5, <3>1, TakenIs
    <3>3. ~FollowsScreen(prof)
      BY <3>2, ProfileIs
    <3> QED BY <1>2, <1>3, <2>2, <2>3, <2>5, <3>3
  <2> QED BY <2>4, <2>5
<1>7. ASSUME NEW p \in DOMAIN entry, Possible(t, dev, p, entry[p])
      PROVE  W(t, p, entry[p]) \in ToSet(s)
  <2>1. entry[p] # Empty /\ p \in Property
    BY <1>2, <1>7 DEF Possible
  <2>2. CASE p = "Rotate" /\ FollowsScreen(prof)
    <3>1. t \in RotationTools(devs)
      BY DEF RotationTools, HasXinput
    <3>2. W(t, "Rotate", turn) \in R
      BY <2>2, <3>1, RotationWritesAre
    <3>3. entry[p] = turn
      BY <1>2, <2>2
    <3> QED BY <1>1, <2>2, <3>2, <3>3
  <2>3. CASE ~(p = "Rotate" /\ FollowsScreen(prof))
    <3>1. entry[p] = prof[t][p]
      BY <1>2, <2>1, <2>3
    <3>2. W(t, p, prof[t][p]) \in B
      BY <1>1, <2>1, <3>1 DEF Sets
    <3> QED BY <1>1, <3>1, <3>2
  <2> QED BY <2>2, <2>3
<1>8. Precedes(s, t, "Rotate", W(t, "Area", entry["Area"]))
  BY <1>1, <1>2 DEF AreaWrite
<1>9. \A w \in ToSet(s) : Lands(t, dev, w) => w.prop \in DOMAIN entry /\ entry[w.prop] = w.value
  BY <1>1, <1>4, <1>5, <1>6 DEF Lands
<1> QED BY <1>7, <1>8, <1>9 DEF Covers, entry

LEMMA RotationEntryIs ==
    ASSUME NEW prof, NEW t, NEW turn
    PROVE  /\ DOMAIN RotationEntry(prof, t, turn)
                 = {"ScreenSpace", "Area"} \cup (IF FollowsScreen(prof) THEN {"Rotate"} ELSE {})
           /\ RotationEntry(prof, t, turn)["ScreenSpace"] = prof[t]["ScreenSpace"]
           /\ RotationEntry(prof, t, turn)["Area"] = prof[t]["Area"]
           /\ FollowsScreen(prof) => RotationEntry(prof, t, turn)["Rotate"] = turn
BY DEF RotationEntry

LEMMA RotationCovers ==
    ASSUME NEW devs, NEW prof, IsProfile(prof), NEW turn \in Real,
           NEW s, s = RotationWrites(devs, prof, turn) \o MapWrites(devs, prof),
           NEW t \in DOMAIN devs \cap HasXinput, NEW dev
    PROVE  Covers(t, dev, s, RotationEntry(prof, t, turn))
<1> DEFINE entry == RotationEntry(prof, t, turn)
           R == ToSet(RotationWrites(devs, prof, turn))
           M == ToSet(MapWrites(devs, prof))
<1>1. /\ ToSet(s) = R \cup M
      /\ Precedes(s, t, "Rotate", AreaWrite(prof, t))
  BY RotatedWrites
<1>2. /\ DOMAIN entry = {"ScreenSpace", "Area"} \cup (IF FollowsScreen(prof) THEN {"Rotate"} ELSE {})
      /\ entry["ScreenSpace"] = prof[t]["ScreenSpace"]
      /\ entry["Area"] = prof[t]["Area"]
      /\ FollowsScreen(prof) => entry["Rotate"] = turn
  BY RotationEntryIs
<1> HIDE DEF entry
<1>3. ASSUME NEW w \in R, w.tool = t PROVE w.prop \in DOMAIN entry /\ entry[w.prop] = w.value
  <2>1. w.prop = "Rotate" /\ w.value = turn /\ FollowsScreen(prof)
    BY <1>3, RotationIsRequest
  <2> QED BY <1>2, <2>1
<1>4. ASSUME NEW w \in M, w.tool = t PROVE w.prop \in DOMAIN entry /\ entry[w.prop] = w.value
  <2>1. PICK u \in DOMAIN devs \cap HasXinput : w \in {SpaceWrite(prof, u), AreaWrite(prof, u)}
    BY MapWritesMap DEF MapsTo
  <2>2. CASE w = SpaceWrite(prof, u)
    <3>1. w.tool = u /\ w.prop = "ScreenSpace" /\ w.value = prof[u]["ScreenSpace"]
      BY <2>2, WIs DEF SpaceWrite
    <3> QED BY <1>2, <1>4, <3>1
  <2>3. CASE w = AreaWrite(prof, u)
    <3>1. w.tool = u /\ w.prop = "Area" /\ w.value = prof[u]["Area"]
      BY <2>3, WIs DEF AreaWrite
    <3> QED BY <1>2, <1>4, <3>1
  <2> QED BY <2>1, <2>2, <2>3
<1>5. ASSUME NEW p \in DOMAIN entry PROVE W(t, p, entry[p]) \in ToSet(s)
  <2>1. CASE p = "Rotate"
    <3>1. FollowsScreen(prof)
      BY <1>2, <2>1
    <3>2. t \in RotationTools(devs)
      BY DEF RotationTools, HasXinput
    <3>3. W(t, "Rotate", turn) \in R
      BY <3>1, <3>2, RotationWritesAre
    <3> QED BY <1>1, <1>2, <2>1, <3>1, <3>3
  <2>2. CASE p = "ScreenSpace"
    <3>1. SpaceWrite(prof, t) \in M
      BY MapWritesMap DEF MapsTo
    <3> QED BY <1>1, <1>2, <2>2, <3>1 DEF SpaceWrite
  <2>3. CASE p = "Area"
    <3>1. AreaWrite(prof, t) \in M
      BY MapWritesMap DEF MapsTo
    <3> QED BY <1>1, <1>2, <2>3, <3>1 DEF AreaWrite
  <2> QED BY <1>2, <2>1, <2>2, <2>3
<1>6. Precedes(s, t, "Rotate", W(t, "Area", entry["Area"]))
  BY <1>1, <1>2 DEF AreaWrite
<1>7. \A w \in ToSet(s) : Lands(t, dev, w) => w.prop \in DOMAIN entry /\ entry[w.prop] = w.value
  BY <1>1, <1>3, <1>4 DEF Lands
<1> QED BY <1>5, <1>6, <1>7 DEF Covers, entry

\* One property of one tool.
LEMMA OneIs ==
    ASSUME NEW p, NEW v
    PROVE  DOMAIN PropertyEntry(p, v) = {p} /\ PropertyEntry(p, v)[p] = v
BY DEF PropertyEntry

\* What a write asks for, and if it cannot be written, whatever its value is.
LEMMA OneCovers ==
    ASSUME NEW t, NEW p, NEW v, NEW u, NEW dev,
           v = u \/ (~Possible(t, dev, p, v) /\ ~Possible(t, dev, p, u))
    PROVE  Covers(t, dev, <<W(t, p, v)>>, PropertyEntry(p, u))
<1> DEFINE w == W(t, p, v)
           e == PropertyEntry(p, u)
<1>1. DOMAIN e = {p} /\ e[p] = u
  BY OneIs
<1>2. w.tool = t /\ w.prop = p /\ w.value = v
  BY WIs
<1>3. ToSet(<<w>>) = {w}
  BY SingleIsSeq
<1> HIDE DEF e
<1>4. Possible(t, dev, p, e[p]) => W(t, p, e[p]) \in ToSet(<<w>>)
  BY <1>1, <1>3
<1> HIDE DEF w
<1>5. "Area" \in DOMAIN e => Precedes(<<w>>, t, "Rotate", W(t, "Area", e.Area))
  <2>1. "Area" \in DOMAIN e => w.prop = "Area"
    BY <1>1, <1>2
  <2>2. "Area" \in DOMAIN e => \A x \in ToSet(<<w>>) : x.tool = t => x.prop # "Rotate"
    BY <1>3, <2>1
  <2> QED BY <2>2, OthersPrecede
<1>6. \A x \in ToSet(<<w>>) : Lands(t, dev, x) => x.prop \in DOMAIN e /\ e[x.prop] = x.value
  BY <1>1, <1>2, <1>3 DEF Lands
<1>7. \A q \in DOMAIN e : Possible(t, dev, q, e[q]) => W(t, q, e[q]) \in ToSet(<<w>>)
  BY <1>1, <1>4
<1> QED BY <1>5, <1>6, <1>7 DEF Covers, w, e

-----------------------------------------------------------------------------
(* Where a write ends. *)

LEMMA NamedType ==
    ASSUME ListInv, IsControlled(backend), NEW t
    PROVE  /\ FindDevice(NameOf(t)) \in XID \cup {0}
           /\ HandleOf(t) \in XID \cup {0}
<1>1. HandleOf(t) \in XID \cup {0}
  BY DEF HandleOf, IsControlled
<1> QED BY <1>1, FindDeviceType

LEMMA TargetType ==
    ASSUME ListInv, IsControlled(backend), NEW w
    PROVE  Target(w) \in XID \cup {0}
<1> DEFINE t == w.tool
<1>1. FindDevice(NameOf(t)) \in XID \cup {0} /\ HandleOf(t) \in XID \cup {0}
  BY NamedType
<1>2. ByXsetwacom(t, w.prop, w.value) \in XID \cup {0}
  BY <1>1 DEF ByXsetwacom, Closed
<1>3. ScrollDevice(t) \in XID \cup {0} /\ MatrixDevice(t) \in XID \cup {0}
  BY <1>1 DEF ScrollDevice, MatrixDevice, Closed
<1>4. ByXinput(t, w.prop, w.value) \in XID \cup {0}
  BY <1>1, <1>3 DEF ByXinput, Closed
<1> QED BY <1>2, <1>4 DEF Target

\* Whatever the profile holds, the driver gets what it can hold.
LEMMA TargetTakes ==
    ASSUME NEW w, IsRequest(w), Target(w) # 0
    PROVE  /\ w.prop # "Area" => Taken(w.prop, w.value) \in Stored(w.prop)
           /\ w.prop = "Area" => w.value \in Areas
<1>1. w.prop \in Property /\ IsValue(w.prop, w.value)
  BY DEF IsRequest
<1>2. CASE w.prop = "Rotate"
  <2>1. IsReal(w.value)
    BY <1>2 DEF Target, ByXsetwacom, Closed, XsetwacomProperties
  <2>2. Taken(w.prop, w.value) \in Real
    BY <1>2, <2>1, TakenIs
  <2> QED BY <1>2, <2>2 DEF Stored, Value
<1>8. CASE w.prop = "Area"
  BY <1>1, <1>8 DEF IsValue
<1>3. w.prop # "Rotate" => Taken(w.prop, w.value) = w.value
  BY TakenIs
<1>4. CASE w.prop = "CursorAccelProfile"
  <2>1. w.prop \notin XsetwacomProperties
    BY <1>4 DEF XsetwacomProperties
  <2>2. Target(w) = ByXinput(w.tool, w.prop, w.value)
    BY <2>1 DEF Target
  <2>3. w.value \in Int
    BY <1>4, <2>2 DEF ByXinput, IsNumber, Closed
  <2>4. w.value \in 0..(Word - 1)
    BY <1>1, <1>4, <2>3 DEF IsValue
  <2> QED BY <1>3, <1>4, <2>4 DEF Stored
<1>5. CASE w.prop \in {"Touch", "InvertScroll"}
  <2>1. w.value \in Stored(w.prop)
    BY <1>1, <1>5 DEF IsValue, Stored, Value
  <2> QED BY <1>3, <1>5, <2>1
<1>6. CASE w.prop = "ScreenSpace"
  <2>1. w.value \in Stored(w.prop)
    BY <1>1, <1>6 DEF IsValue, Stored, Value
  <2> QED BY <1>3, <1>6, <2>1
<1>7. w.prop \in {"Rotate", "Area", "Touch", "CursorAccelProfile", "InvertScroll", "ScreenSpace"}
  BY <1>1 DEF Property, XsetwacomProperties, XinputProperties
<1> QED BY <1>2, <1>4, <1>5, <1>6, <1>7, <1>8

LEMMA WrittenIsState ==
    ASSUME NEW d, IsState(d), NEW w, IsRequest(w), Target(w) # 0
    PROVE  IsState(Written(d, w))
<1> DEFINE got == Written(d, w)
<1>1. w.prop \in Property /\ DOMAIN d = Property /\ \A p \in Property : d[p] \in Stored(p)
  BY DEF IsRequest, IsState
<1>2. /\ DOMAIN got = Property
      /\ \A p \in Others : p # w.prop => got[p] = d[p]
      /\ w.prop \in Others => got[w.prop] = Taken(w.prop, w.value)
      /\ w.prop = "Area" => got.Area = SetArea(w.value)
      /\ w.prop = "Rotate" => got.Area = Turned(d.Area, d.Rotate, Taken("Rotate", w.value))
      /\ w.prop # "Area" /\ w.prop # "Rotate" => got.Area = d.Area
  BY <1>1, WrittenIs
<1> HIDE DEF got
<1>3. /\ w.prop # "Area" => Taken(w.prop, w.value) \in Stored(w.prop)
      /\ w.prop = "Area" => w.value \in Areas
  BY TargetTakes
<1>4. \A p \in Others : got[p] \in Stored(p)
  BY <1>1, <1>2, <1>3, OthersAre
<1>5. Stored("Area") = Areas
  BY DEF Stored, Value
<1>6. d.Area \in Areas
  BY <1>1, <1>5, OthersAre
<1>7. got.Area \in Areas
  BY <1>2, <1>3, <1>6, TurnedIsArea, SetAreaIsArea
<1> QED BY <1>2, <1>4, <1>5, <1>7, OthersAre DEF IsState, got

\* While the devices of the tablet are there, writes by name and by handle end at one.
LEMMA ToolDevice ==
    ASSUME ListInv, IsControlled(backend), NEW t \in Tools, IsListed(backend.devs[t])
    PROVE  /\ FindDevice(NameOf(t)) = backend.devs[t].id
           /\ backend.devs[t].id \in XID /\ backend.devs[t].id # 0
           /\ HandleOf(t) = IF t \in HasXinput THEN backend.devs[t].id ELSE 0
<1>1. PICK i \in DOMAIN list :
          list[i].id = backend.devs[t].id /\ list[i].dev.name = backend.devs[t].name
  BY DEF IsListed
<1>2. backend.devs[t].id \in XID /\ backend.devs[t].name # "" /\ t \in DOMAIN backend.devs
  BY DEF IsControlled, Tools
<1>3. NameOf(t) = backend.devs[t].name
  BY <1>2 DEF NameOf
<1>4. FindDevice(list[i].dev.name) = list[i].id
  BY <1>1, <1>2, FindsByName
<1>5. HandleOf(t) = IF t \in HasXinput THEN backend.devs[t].id ELSE 0
  BY <1>2 DEF HandleOf, IsControlled
<1>6. backend.devs[t].id # 0
  BY <1>2, DeviceAssumption
<1> QED BY <1>1, <1>2, <1>3, <1>4, <1>5, <1>6

LEMMA TargetOfTool ==
    ASSUME ListInv, IsControlled(backend), NEW t \in Tools, IsListed(backend.devs[t]),
           NEW w, IsRequest(w), w.tool = t
    PROVE  Target(w) = IF Lands(t, At(backend.devs[t].id), w) THEN backend.devs[t].id ELSE 0
<1> DEFINE id == backend.devs[t].id
<1>1. /\ FindDevice(NameOf(t)) = id /\ id # 0
      /\ HandleOf(t) = IF t \in HasXinput THEN id ELSE 0
  BY ToolDevice
<1> HIDE DEF id
<1>2. w.value # Empty /\ w.prop \in Property
  BY DEF IsRequest, IsValue
<1>3. CASE w.prop \in XsetwacomProperties
  <2>1. w.prop \notin XinputProperties
    BY <1>3 DEF XsetwacomProperties, XinputProperties
  <2>2. w.prop # "InvertScroll" /\ w.prop # "CursorAccelProfile"
    BY <2>1 DEF XinputProperties
  <2>3. Target(w) = IF HasProperty(id, w.prop) /\ (w.prop = "Rotate" => IsReal(w.value)) THEN id ELSE 0
    BY <1>1, <1>3 DEF Target, ByXsetwacom, Closed
  <2>4. Lands(t, At(id), w) <=> w.prop \in At(id).has /\ (w.prop = "Rotate" => IsReal(w.value))
    BY <1>2, <2>1, <2>2 DEF Lands, Possible
  <2> QED BY <1>1, <2>3, <2>4 DEF HasProperty, Closed, id
<1>4. CASE w.prop \in XinputProperties
  <2>1. w.prop \notin XsetwacomProperties /\ w.prop # "Rotate"
    BY <1>4 DEF XsetwacomProperties, XinputProperties
  <2>2. Target(w) = ByXinput(t, w.prop, w.value)
    BY <2>1 DEF Target
  <2>3. CASE t \notin HasXinput
    <3>1. ~Lands(t, At(id), w)
      BY <1>4, <2>3 DEF Lands, Possible
    <3>2. Target(w) = 0
      BY <1>1, <2>2, <2>3 DEF ByXinput, Closed
    <3> QED BY <3>1, <3>2 DEF id
  <2>4. CASE t \in HasXinput /\ w.prop = "InvertScroll"
    <3>1. Target(w) = IF ButtonCount(id) >= 5 THEN id ELSE 0
      BY <1>1, <2>2, <2>4 DEF ByXinput, ScrollDevice, Closed
    <3>2. ButtonCount(id) = At(id).buttons
      BY <1>1 DEF ButtonCount, Closed
    <3>3. Lands(t, At(id), w) <=> At(id).buttons >= 5
      BY <1>2, <2>1, <2>4 DEF Lands, Possible
    <3> QED BY <3>1, <3>2, <3>3 DEF id
  <2>5. CASE t \in HasXinput /\ w.prop = "ScreenSpace"
    <3>1. Target(w) = IF Writable(id, "ScreenSpace") THEN id ELSE 0
      BY <1>1, <2>2, <2>5 DEF ByXinput, MatrixDevice, Closed
    <3>2. Lands(t, At(id), w) <=> "ScreenSpace" \in At(id).has
      BY <1>2, <2>1, <2>5 DEF Lands, Possible
    <3> QED BY <1>1, <3>1, <3>2 DEF Writable, HasProperty, Closed, id
  <2>6. CASE t \in HasXinput /\ w.prop = "CursorAccelProfile"
    <3>1. Target(w) = IF IsNumber(w.value) /\ Writable(id, w.prop) THEN id ELSE 0
      BY <1>1, <2>2, <2>6 DEF ByXinput, Closed
    <3>2. Lands(t, At(id), w) <=> w.prop \in At(id).has /\ IsNumber(w.value)
      BY <1>2, <2>1, <2>6 DEF Lands, Possible
    <3> QED BY <1>1, <3>1, <3>2 DEF Writable, HasProperty, Closed, id
  <2> QED BY <1>4, <2>3, <2>4, <2>5, <2>6 DEF XinputProperties
<1> QED BY <1>2, <1>3, <1>4 DEF Property

LEMMA TargetOfOther ==
    ASSUME IsControlled(backend), NEW w, w.tool \notin Tools
    PROVE  Target(w) = 0
<1>1. w.tool \notin DOMAIN backend.devs /\ w.tool \notin DOMAIN backend.handles
  BY DEF IsControlled, Tools
<1>2. FindDevice(NameOf(w.tool)) = 0 /\ HandleOf(w.tool) = 0
  BY <1>1 DEF NameOf, HandleOf, FindDevice, Closed
<1> QED BY <1>2 DEF Target, ByXsetwacom, ByXinput, HasProperty, Closed

-----------------------------------------------------------------------------
(* Types: devices come and go. *)

\* Every device of the old list is in the new one, but for the one with this id.
Keeps(new, old, id) ==
    \A i \in DOMAIN old : old[i].id # id => \E k \in DOMAIN new : new[k] = old[i]

LEMMA PlugList ==
    ASSUME TypeInv, NEW id \in XID, NEW d \in XDev, Plug(id, d)
    PROVE  ListInv' /\ Keeps(list', list, 0) /\ id \notin Ids
<1> DEFINE e == [id |-> id, dev |-> d]
<1>1. list \in Seq(Listed) /\ e \in Listed
  BY DEF TypeInv, ListInv, IsList, Listed
<1>2. list' = Append(list, e) /\ id \notin Ids /\ \A x \in ToSet(list) : x.dev.name # d.name
  BY DEF Plug
<1>3. e.id = id /\ e.dev = d
  OBVIOUS
<1> HIDE DEF e
<1>4. /\ list' \in Seq(Listed)
      /\ Len(list') = Len(list) + 1
      /\ \A i \in 1..Len(list) : list'[i] = list[i]
      /\ list'[Len(list) + 1] = e
  BY <1>1, <1>2, AppendProperties
<1>5. /\ DOMAIN list = 1..Len(list) /\ Len(list) \in Nat
      /\ DOMAIN list' = 1..(Len(list) + 1)
  BY <1>1, <1>4
<1>6. \A i \in DOMAIN list : list[i].id # id /\ list[i].dev.name # d.name
  BY <1>2 DEF Ids, ToSet
<1>7. ASSUME NEW i \in DOMAIN list', NEW j \in DOMAIN list',
             list'[i].id = list'[j].id \/ list'[i].dev.name = list'[j].dev.name
      PROVE  i = j
  <2>1. CASE i \in 1..Len(list) /\ j \in 1..Len(list)
    BY <1>4, <1>5, <1>7, <2>1 DEF TypeInv, ListInv, IsList
  <2>2. CASE i \in 1..Len(list) /\ j \notin 1..Len(list)
    <3>1. j = Len(list) + 1
      BY <1>5, <2>2
    <3> QED BY <1>3, <1>4, <1>5, <1>6, <1>7, <2>2, <3>1
  <2>3. CASE i \notin 1..Len(list) /\ j \in 1..Len(list)
    <3>1. i = Len(list) + 1
      BY <1>5, <2>3
    <3> QED BY <1>3, <1>4, <1>5, <1>6, <1>7, <2>3, <3>1
  <2>4. CASE i \notin 1..Len(list) /\ j \notin 1..Len(list)
    BY <1>5, <2>4
  <2> QED BY <2>1, <2>2, <2>3, <2>4
<1>8. Keeps(list', list, 0)
  BY <1>4, <1>5 DEF Keeps
<1> QED BY <1>2, <1>4, <1>7, <1>8 DEF ListInv, IsList

LEMMA UnplugList ==
    ASSUME TypeInv, NEW i \in DOMAIN list, Unplug(i)
    PROVE  ListInv' /\ Keeps(list', list, list[i].id)
<1>1. list \in Seq(Listed) /\ list' = RemoveAt(list, i)
  BY DEF TypeInv, ListInv, IsList, Unplug
<1>2. /\ RemoveAt(list, i) \in Seq(Listed)
      /\ IsRemoval(RemoveAt(list, i), list, i)
      /\ \A j \in DOMAIN list : j # i =>
             \E k \in DOMAIN RemoveAt(list, i) : RemoveAt(list, i)[k] = list[j]
  BY <1>1, RemoveAtKeepsOthers
<1>3. /\ list' \in Seq(Listed)
      /\ IsRemoval(list', list, i)
      /\ \A j \in DOMAIN list : j # i => \E k \in DOMAIN list' : list'[k] = list[j]
  BY <1>1, <1>2, Zenon
<1>4. /\ DOMAIN list = 1..Len(list) /\ Len(list) \in Nat
      /\ DOMAIN list' = 1..(Len(list) - 1) /\ Len(list') = Len(list) - 1
  BY <1>1, <1>3 DEF IsRemoval
<1>5. \A k \in DOMAIN list' : list'[k] = IF k < i THEN list[k] ELSE list[k + 1]
  BY <1>3, <1>4 DEF IsRemoval
<1>6. ASSUME NEW k \in DOMAIN list', NEW l \in DOMAIN list',
             list'[k].id = list'[l].id \/ list'[k].dev.name = list'[l].dev.name
      PROVE  k = l
  <2> DEFINE from(x) == IF x < i THEN x ELSE x + 1
  <2>1. /\ from(k) \in DOMAIN list /\ from(l) \in DOMAIN list
        /\ from(k) = from(l) => k = l
    BY <1>4
  <2>2. list'[k] = list[from(k)] /\ list'[l] = list[from(l)]
    BY <1>5
  <2> HIDE DEF from
  <2>3. from(k) = from(l)
    BY <1>6, <2>1, <2>2 DEF TypeInv, ListInv, IsList
  <2> QED BY <2>1, <2>3
<1>7. Keeps(list', list, list[i].id)
  BY <1>3 DEF Keeps
<1> QED BY <1>3, <1>6, <1>7 DEF ListInv, IsList

LEMMA DaemonUnchanged ==
    ASSUME TypeInv, UNCHANGED <<backend, profile, todo, screen, led>>,
           gone' \in BOOLEAN, crossed' \subseteq XID
    PROVE  DaemonInv'
BY DEF TypeInv, DaemonInv

LEMMA KcmUnchanged ==
    ASSUME TypeInv, kcm' = kcm \/ kcm' = Idle \/ \E b \in BOOLEAN : kcm' = [kcm EXCEPT !.alone = b]
    PROVE  KcmInv'
<1>1. CASE kcm' = kcm
  BY <1>1 DEF TypeInv, KcmInv
<1>2. CASE kcm' = Idle
  BY <1>2, MaximumIsArea DEF KcmInv, Idle
<1>3. CASE \E b \in BOOLEAN : kcm' = [kcm EXCEPT !.alone = b]
  BY <1>3 DEF TypeInv, KcmInv
<1> QED BY <1>1, <1>2, <1>3

LEMMA DriverWritten ==
    ASSUME TypeInv, NEW id \in XID, NEW d, IsState(d), driver' = [driver EXCEPT ![id] = d]
    PROVE  DriverInv'
BY DEF TypeInv, DriverInv

LEMMA DriverArea ==
    ASSUME TypeInv, NEW id \in XID, NEW a \in Areas, driver' = [driver EXCEPT ![id].Area = a]
    PROVE  DriverInv'
<1>1. IsState(driver[id])
  BY DEF TypeInv, DriverInv
<1>2. IsState([driver[id] EXCEPT !.Area = a])
  BY <1>1 DEF IsState, Stored, Value
<1>3. driver' = [driver EXCEPT ![id] = [driver[id] EXCEPT !.Area = a]]
  OBVIOUS
<1> HIDE DEF IsState
<1> QED BY <1>2, <1>3, DriverWritten

LEMMA PlugTypes ==
    ASSUME TypeInv, NEW id \in XID, NEW d \in XDev, Plug(id, d)
    PROVE  TypeInv'
<1>1. ListInv'
  BY PlugList
<1>2. DriverInv'
  BY FreshIsState, DriverWritten DEF Plug
<1>3. KcmInv'
  <2>1. (kcm.alone /\ kcm.id # id) \in BOOLEAN
    OBVIOUS
  <2> QED BY <2>1, KcmUnchanged DEF Plug
<1>4. DaemonInv'
  <2>1. crossed' \subseteq XID /\ gone' \in BOOLEAN
    BY DEF Plug, TypeInv, DaemonInv
  <2> QED BY <2>1, DaemonUnchanged DEF Plug, daemonVars
<1> QED BY <1>1, <1>2, <1>3, <1>4 DEF TypeInv

LEMMA UnplugTypes ==
    ASSUME TypeInv, NEW i \in DOMAIN list, Unplug(i)
    PROVE  TypeInv'
<1>1. ListInv'
  BY UnplugList
<1>2. DriverInv'
  BY DEF TypeInv, DriverInv, Unplug
<1>3. KcmInv'
  <2>1. (kcm.alone /\ kcm.id # list[i].id) \in BOOLEAN
    OBVIOUS
  <2> QED BY <2>1, KcmUnchanged DEF Unplug
<1>4. DaemonInv'
  <2>1. crossed' \subseteq XID /\ gone' \in BOOLEAN
    BY DEF Unplug, TypeInv, DaemonInv
  <2> QED BY <2>1, DaemonUnchanged DEF Unplug, daemonVars
<1> QED BY <1>1, <1>2, <1>3, <1>4 DEF TypeInv

-----------------------------------------------------------------------------
(* Types: the daemon. *)

\* A step of the daemon that leaves the devices and the settings module alone.
LEMMA SlotTypes ==
    ASSUME TypeInv, UNCHANGED <<list, driver, kcm, crossed>>,
           IsControlled(backend'), IsProfile(profile'), gone' \in BOOLEAN,
           IsSeq(todo'), \A w \in ToSet(todo') : IsRequest(w),
           screen' \in Real, led' \in [0..1 -> 0..3]
    PROVE  TypeInv'
<1>1. ListInv' /\ DriverInv'
  BY DEF TypeInv, ListInv, DriverInv
<1>2. KcmInv'
  BY KcmUnchanged
<1>3. DaemonInv'
  BY DEF TypeInv, DaemonInv
<1> QED BY <1>1, <1>2, <1>3 DEF TypeInv

LEMMA MappedIsProfile ==
    ASSUME NEW prof, IsProfile(prof)
    PROVE  IsProfile(Mapped(prof)) /\ DOMAIN Mapped(prof) = HasXinput
<1> DEFINE new == Mapped(prof)
           entry == [prof["eraser"] EXCEPT !.ScreenSpace = prof["stylus"].ScreenSpace]
<1>1. new = [prof EXCEPT !["eraser"] = entry]
  BY DEF Mapped
<1>2. DOMAIN prof = HasXinput /\ "eraser" \in HasXinput /\ "stylus" \in HasXinput
  BY ProfileIs DEF HasXinput
<1>3. DOMAIN new = HasXinput /\ new["eraser"] = entry /\ \A t \in HasXinput : t # "eraser" => new[t] = prof[t]
  BY <1>1, <1>2
<1> HIDE DEF new
<1>4. /\ DOMAIN prof["eraser"] = Property /\ "ScreenSpace" \in Property
      /\ "Area" \in Property /\ "Rotate" \in Property
  BY <1>2, ProfileIs DEF Property, XsetwacomProperties, XinputProperties
<1>5. /\ DOMAIN entry = Property
      /\ \A p \in Property : p # "ScreenSpace" => entry[p] = prof["eraser"][p]
      /\ entry["ScreenSpace"] = prof["stylus"]["ScreenSpace"]
  BY <1>4
<1> HIDE DEF entry
<1>6. \A p \in Property : entry[p] = Empty \/ IsValue(p, entry[p])
  BY <1>2, <1>4, <1>5, ProfileIs
<1>7. entry["Area"] # Empty /\ entry["ScreenSpace"] # Empty /\ entry["Rotate"] = prof["eraser"]["Rotate"]
  BY <1>2, <1>4, <1>5, ProfileIs
<1>8. new["stylus"] = prof["stylus"]
  BY <1>2, <1>3
<1>9. ASSUME NEW t \in HasXinput
      PROVE  /\ DOMAIN new[t] = Property
             /\ \A p \in Property : new[t][p] = Empty \/ IsValue(p, new[t][p])
             /\ new[t]["Area"] # Empty /\ new[t]["ScreenSpace"] # Empty
             /\ new[t]["Rotate"] = prof[t]["Rotate"]
  <2>1. CASE t = "eraser"
    BY <1>3, <1>5, <1>6, <1>7, <2>1
  <2>2. CASE t # "eraser"
    <3>1. new[t] = prof[t]
      BY <1>3, <2>2
    <3> QED BY <3>1, ProfileIs
  <2> QED BY <2>1, <2>2
<1>10. ASSUME NEW t \in HasXinput, new["stylus"]["Rotate"] \in Automatic
       PROVE  new[t]["Rotate"] \in Automatic \cup {Empty}
  <2>1. FollowsScreen(prof)
    BY <1>8, <1>10 DEF FollowsScreen
  <2>2. prof[t]["Rotate"] \in Automatic \cup {Empty}
    BY <2>1, ProfileIs
  <2> QED BY <1>9, <2>2
<1> QED BY <1>3, <1>9, <1>10 DEF IsProfile, new

LEMMA StatusLEDType ==
    ASSUME TypeInv, NEW pos \in Int, SetStatusLED(pos)
    PROVE  led' \in [0..1 -> 0..3]
<1>1. led \in [0..1 -> 0..3]
  BY DEF TypeInv, DaemonInv
<1>2. CASE LEDs = 0 \/ pos \notin 0..7
  BY <1>1, <1>2 DEF SetStatusLED
<1>3. CASE ~(LEDs = 0 \/ pos \notin 0..7)
  <2>1. led' = [led EXCEPT ![pos \div 4] = pos % 4]
    BY <1>3 DEF SetStatusLED
  <2>2. pos \div 4 \in 0..1 /\ pos % 4 \in 0..3
    BY <1>3
  <2> QED BY <1>1, <2>1, <2>2
<1> QED BY <1>2, <1>3

\* Mapping is done with the profile as it is mapped, and so might rotation be.
LEMMA SetProfileWrites ==
    ASSUME NEW devs, NEW had, NEW prof, IsProfile(prof), SetProfile(devs, had, prof)
    PROVE  todo' = RotationWrites(devs, Mapped(prof), screen) \o MapWrites(devs, Mapped(prof))
                   \o BackendWrites(devs, Mapped(prof))
<1>1. RotationWrites(devs, prof, screen) = RotationWrites(devs, Mapped(prof), screen)
  <2>1. Mapped(prof)["stylus"] = prof["stylus"]
    BY ProfileIs DEF Mapped
  <2> QED BY <2>1 DEF RotationWrites, FollowsScreen
<1> QED BY <1>1 DEF SetProfile

LEMMA SetProfileTypes ==
    ASSUME TypeInv, NEW devs, DOMAIN devs \subseteq Types, NEW had, NEW prof \in Profiles,
           SetProfile(devs, had, prof)
    PROVE  /\ IsProfile(profile') /\ IsSeq(todo') /\ \A w \in ToSet(todo') : IsRequest(w)
           /\ led' \in [0..1 -> 0..3]
<1>1. IsProfile(prof) /\ Position[prof] \in Int /\ screen \in Real
  BY ProfileAssumption DEF TypeInv, DaemonInv
<1>2. IsProfile(Mapped(prof))
  BY <1>1, MappedIsProfile
<1>3. profile' = Mapped(prof) /\ SetStatusLED(Position[prof])
  BY DEF SetProfile
<1>4. IsSeq(todo') /\ \A w \in ToSet(todo') : IsRequest(w)
  BY <1>1, <1>2, SetProfileWrites, ProfileWrites
<1> QED BY <1>1, <1>2, <1>3, <1>4, StatusLEDType

LEMMA TabletAddedTypes ==
    ASSUME TypeInv, NEW serial \in DOMAIN Scan, NEW prof \in Profiles, TabletAdded(serial, prof)
    PROVE  /\ TypeInv'
           /\ \A t \in DOMAIN backend'.devs : IsListed(backend'.devs[t])
<1> DEFINE devs == Scan[serial].devs
           had == [t \in DOMAIN devs |-> Held(devs[t].id)]
<1>1. IsControlled(CreateBackend(devs)) /\ \A t \in DOMAIN devs : IsListed(devs[t])
  BY ScanIsControlled DEF TypeInv
<1>2. /\ backend' = CreateBackend(devs) /\ SetProfile(devs, had, prof) /\ gone' = FALSE
      /\ UNCHANGED <<list, driver, screen, kcm, crossed>>
  BY DEF TabletAdded, kcmVars
<1> HIDE DEF devs, had
<1>3. CreateBackend(devs).devs = devs
  BY DEF CreateBackend
<1>4. DOMAIN devs \subseteq Types
  BY <1>1, <1>3 DEF IsControlled
<1>5. /\ IsProfile(profile') /\ IsSeq(todo') /\ \A w \in ToSet(todo') : IsRequest(w)
      /\ led' \in [0..1 -> 0..3]
  BY <1>2, <1>4, SetProfileTypes
<1>6. screen' \in Real
  BY <1>2 DEF TypeInv, DaemonInv
<1>7. TypeInv'
  BY <1>1, <1>2, <1>5, <1>6, SlotTypes
<1> QED BY <1>1, <1>2, <1>3, <1>7

LEMMA ProfileSelectedTypes ==
    ASSUME TypeInv, NEW prof \in Profiles, ProfileSelected(prof)
    PROVE  TypeInv'
<1>1. /\ SetProfile(backend.devs, wanted, prof)
      /\ UNCHANGED <<list, gone, driver, backend, screen, kcm, crossed>>
  BY DEF ProfileSelected, xVars, kcmVars
<1>2. /\ IsControlled(backend') /\ DOMAIN backend.devs \subseteq Types
      /\ screen' \in Real /\ gone' \in BOOLEAN
  BY <1>1 DEF TypeInv, DaemonInv, IsControlled
<1>3. /\ IsProfile(profile') /\ IsSeq(todo') /\ \A w \in ToSet(todo') : IsRequest(w)
      /\ led' \in [0..1 -> 0..3]
  BY <1>1, <1>2, SetProfileTypes
<1> QED BY <1>1, <1>2, <1>3, SlotTypes

LEMMA NoBackendControlled == IsControlled(NoBackend) /\ DOMAIN NoBackend.devs = {}
<1>1. NoBackend.devs = <<>> /\ NoBackend.handles = <<>>
  BY DEF NoBackend
<1> QED BY <1>1, EmptyIsSeq DEF IsControlled

LEMMA TabletRemovedTypes ==
    ASSUME TypeInv, TabletRemoved
    PROVE  TypeInv' /\ DOMAIN backend'.devs = {}
<1>1. /\ backend' = NoBackend /\ gone' = FALSE
      /\ UNCHANGED <<list, driver, profile, todo, screen, led, kcm, crossed>>
  BY DEF TabletRemoved, kcmVars
<1>2. /\ IsProfile(profile') /\ IsSeq(todo') /\ (\A w \in ToSet(todo') : IsRequest(w))
      /\ led' \in [0..1 -> 0..3] /\ screen' \in Real
  BY <1>1 DEF TypeInv, DaemonInv
<1> QED BY <1>1, <1>2, NoBackendControlled, SlotTypes

LEMMA ScreenRotatedTypes ==
    ASSUME TypeInv, NEW turn \in Real, ScreenRotated(turn)
    PROVE  TypeInv'
<1>1. /\ todo' = RotationWrites(backend.devs, profile, turn) \o MapWrites(backend.devs, profile)
      /\ screen' = turn
      /\ UNCHANGED <<list, gone, driver, backend, profile, led, kcm, crossed>>
  BY DEF ScreenRotated, xVars, kcmVars
<1>2. /\ IsControlled(backend') /\ IsProfile(profile) /\ IsProfile(profile')
      /\ led' \in [0..1 -> 0..3] /\ gone' \in BOOLEAN
  BY <1>1 DEF TypeInv, DaemonInv
<1>3. IsSeq(todo') /\ \A w \in ToSet(todo') : IsRequest(w)
  BY <1>1, <1>2, RotatedWrites
<1> QED BY <1>1, <1>2, <1>3, SlotTypes

LEMMA AskedIsRequest ==
    ASSUME NEW a \in Asked
    PROVE  IsRequest(W(a[1], a[2], a[3]))
<1>1. a \in Types \X Property \X {a[3]} /\ IsValue(a[2], a[3])
  BY AskedAssumption
<1>2. a[1] \in Types /\ a[2] \in Property
  BY <1>1
<1> QED BY <1>1, <1>2, WIs DEF IsRequest

LEMMA SetPropertyTypes ==
    ASSUME TypeInv, NEW a \in Asked, SetProperty(a[1], a[2], a[3])
    PROVE  TypeInv'
<1> DEFINE w == W(a[1], a[2], a[3])
<1>1. /\ todo' = <<w>>
      /\ UNCHANGED <<list, gone, driver, backend, profile, screen, led, kcm, crossed>>
  BY DEF SetProperty, xVars, kcmVars
<1>2. IsRequest(w)
  BY AskedIsRequest
<1> HIDE DEF w
<1>3. IsSeq(<<w>>) /\ ToSet(<<w>>) = {w}
  BY SingleIsSeq
<1>4. IsSeq(todo') /\ \A x \in ToSet(todo') : IsRequest(x)
  BY <1>1, <1>2, <1>3
<1>5. /\ IsControlled(backend') /\ IsProfile(profile') /\ gone' \in BOOLEAN
      /\ led' \in [0..1 -> 0..3] /\ screen' \in Real
  BY <1>1 DEF TypeInv, DaemonInv
<1> QED BY <1>1, <1>4, <1>5, SlotTypes

LEMMA SwitchIsRequest ==
    ASSUME NEW v \in Switch
    PROVE  IsValue("Touch", v) /\ IsRequest(W("touch", "Touch", v))
<1>1. v # Empty
  BY ProfileAssumption
<1>2. IsValue("Touch", v)
  BY <1>1 DEF IsValue
<1>3. "touch" \in Types /\ "Touch" \in Property
  BY DEF Types, Property, XsetwacomProperties
<1> QED BY <1>2, <1>3, WIs DEF IsRequest

LEMMA SwitchedIsProfile ==
    ASSUME NEW prof, IsProfile(prof), NEW v \in Switch
    PROVE  IsProfile([prof EXCEPT !["touch"].Touch = v])
<1> DEFINE new == [prof EXCEPT !["touch"].Touch = v]
           entry == [prof["touch"] EXCEPT !.Touch = v]
<1>1. DOMAIN prof = HasXinput /\ "touch" \in HasXinput /\ "stylus" \in HasXinput
  BY ProfileIs DEF HasXinput
<1>2. DOMAIN new = HasXinput /\ new["touch"] = entry /\ \A t \in HasXinput : t # "touch" => new[t] = prof[t]
  BY <1>1
<1> HIDE DEF new
<1>3. /\ DOMAIN prof["touch"] = Property /\ "ScreenSpace" \in Property /\ "Touch" \in Property
      /\ "Area" \in Property /\ "Rotate" \in Property
  BY <1>1, ProfileIs DEF Property, XsetwacomProperties, XinputProperties
<1>4. DOMAIN entry = Property /\ entry["Touch"] = v /\ \A p \in Property : p # "Touch" => entry[p] = prof["touch"][p]
  BY <1>3
<1> HIDE DEF entry
<1>5. \A p \in Property : entry[p] = Empty \/ IsValue(p, entry[p])
  BY <1>1, <1>4, ProfileIs, SwitchIsRequest
<1>6. entry["Area"] # Empty /\ entry["ScreenSpace"] # Empty /\ entry["Rotate"] = prof["touch"]["Rotate"]
  BY <1>1, <1>3, <1>4, ProfileIs
<1>7. ASSUME NEW t \in HasXinput
      PROVE  /\ DOMAIN new[t] = Property
             /\ \A p \in Property : new[t][p] = Empty \/ IsValue(p, new[t][p])
             /\ new[t]["Area"] # Empty /\ new[t]["ScreenSpace"] # Empty
             /\ new[t]["Rotate"] = prof[t]["Rotate"]
  <2>1. CASE t = "touch"
    BY <1>2, <1>4, <1>5, <1>6, <2>1
  <2>2. CASE t # "touch"
    <3>1. new[t] = prof[t]
      BY <1>2, <2>2
    <3> QED BY <3>1, ProfileIs
  <2> QED BY <2>1, <2>2
<1>8. ASSUME NEW t \in HasXinput, new["stylus"]["Rotate"] \in Automatic
      PROVE  new[t]["Rotate"] \in Automatic \cup {Empty}
  <2>1. new["stylus"] = prof["stylus"]
    BY <1>1, <1>2
  <2>2. FollowsScreen(prof)
    BY <1>8, <2>1 DEF FollowsScreen
  <2>3. prof[t]["Rotate"] \in Automatic \cup {Empty}
    BY <2>2, ProfileIs
  <2> QED BY <1>7, <2>3
<1> QED BY <1>2, <1>7, <1>8 DEF IsProfile, new

LEMMA OnToggleTouchTypes ==
    ASSUME TypeInv, OnToggleTouch
    PROVE  TypeInv'
<1> DEFINE w == W("touch", "Touch", Toggled)
<1>1. /\ todo' = <<w>>
      /\ profile' = [profile EXCEPT !["touch"].Touch = Toggled]
      /\ UNCHANGED <<list, gone, driver, backend, screen, led, kcm, crossed>>
  BY DEF OnToggleTouch, xVars, kcmVars
<1>2. Toggled \in Switch
  BY DEF Toggled, Switch
<1>3. IsRequest(w)
  BY <1>2, SwitchIsRequest
<1> HIDE DEF w
<1>4. IsSeq(<<w>>) /\ ToSet(<<w>>) = {w}
  BY SingleIsSeq
<1>5. IsSeq(todo') /\ \A x \in ToSet(todo') : IsRequest(x)
  BY <1>1, <1>3, <1>4
<1>6. /\ IsControlled(backend') /\ gone' \in BOOLEAN /\ IsProfile(profile)
      /\ led' \in [0..1 -> 0..3] /\ screen' \in Real
  BY <1>1 DEF TypeInv, DaemonInv
<1>7. IsProfile(profile')
  BY <1>1, <1>2, <1>6, SwitchedIsProfile
<1> QED BY <1>1, <1>5, <1>6, <1>7, SlotTypes

\* What a write does, with the write and the device it ends at.
Clash(w, id) == id # 0 /\ id = kcm.id /\ w.prop \in {"Rotate", "Area"}

LEMMA ApplyIs ==
    ASSUME TypeInv, Apply
    PROVE  LET w == Head(todo)
               id == Target(w)
           IN  /\ todo # <<>> /\ IsSeq(todo) /\ todo' = Tail(todo)
               /\ w \in ToSet(todo) /\ IsRequest(w) /\ id \in XID \cup {0}
               /\ driver' = IF id = 0 THEN driver ELSE [driver EXCEPT ![id] = Written(driver[id], w)]
               /\ kcm' = [kcm EXCEPT !.alone = kcm.alone /\ ~Clash(w, id)]
               /\ crossed' = IF Clash(w, id) THEN crossed \cup {id}
                             ELSE IF w.prop = "Area" THEN crossed \ {id} ELSE crossed
               /\ UNCHANGED <<list, gone, plugs, backend, profile, screen, led, wanted, measured>>
<1> DEFINE w == Head(todo)
           id == Target(w)
<1>1. todo # <<>> /\ IsSeq(todo) /\ \A x \in ToSet(todo) : IsRequest(x)
  BY DEF Apply, TypeInv, DaemonInv
<1>2. w \in ToSet(todo)
  BY <1>1, TailIs DEF ToSet
<1>3. IsRequest(w)
  BY <1>1, <1>2
<1>4. id \in XID \cup {0}
  BY TargetType DEF TypeInv, DaemonInv
<1>5. /\ driver' = IF id = 0 THEN driver ELSE [driver EXCEPT ![id] = Written(driver[id], w)]
      /\ kcm' = [kcm EXCEPT !.alone = kcm.alone /\ ~Clash(w, id)]
      /\ crossed' = IF Clash(w, id) THEN crossed \cup {id}
                    ELSE IF w.prop = "Area" THEN crossed \ {id} ELSE crossed
      /\ todo' = Tail(todo)
      /\ UNCHANGED <<list, gone, plugs, backend, profile, screen, led, wanted, measured>>
  BY DEF Apply, xVars, Clash
<1> QED BY <1>1, <1>2, <1>3, <1>4, <1>5

LEMMA ApplyTypes ==
    ASSUME TypeInv, Apply
    PROVE  TypeInv'
<1> DEFINE w == Head(todo)
           id == Target(w)
<1>1. /\ todo # <<>> /\ IsSeq(todo) /\ todo' = Tail(todo) /\ IsRequest(w) /\ id \in XID \cup {0}
      /\ driver' = IF id = 0 THEN driver ELSE [driver EXCEPT ![id] = Written(driver[id], w)]
      /\ kcm' = [kcm EXCEPT !.alone = kcm.alone /\ ~Clash(w, id)]
      /\ crossed' = IF Clash(w, id) THEN crossed \cup {id}
                    ELSE IF w.prop = "Area" THEN crossed \ {id} ELSE crossed
      /\ UNCHANGED <<list, gone, backend, profile, screen, led>>
  BY ApplyIs
<1>2. DriverInv'
  <2>1. CASE id = 0
    BY <1>1, <2>1 DEF TypeInv, DriverInv
  <2>2. CASE id # 0
    <3>1. id \in XID
      BY <1>1, <2>2
    <3>2. IsState(driver[id])
      BY <3>1 DEF TypeInv, DriverInv
    <3>3. IsState(Written(driver[id], w))
      BY <1>1, <2>2, <3>2, WrittenIsState
    <3>4. driver' = [driver EXCEPT ![id] = Written(driver[id], w)]
      BY <1>1, <2>2
    <3> HIDE DEF id, w
    <3> QED BY <3>1, <3>3, <3>4, DriverWritten
  <2> QED BY <2>1, <2>2
<1> HIDE DEF id
<1>3. IsSeq(todo') /\ \A x \in ToSet(todo') : IsRequest(x)
  <2>1. \A x \in ToSet(todo) : IsRequest(x)
    BY DEF TypeInv, DaemonInv
  <2>2. /\ IsSeq(Tail(todo))
        /\ \A i \in DOMAIN Tail(todo) : i + 1 \in DOMAIN todo /\ Tail(todo)[i] = todo[i + 1]
    BY <1>1, TailIs
  <2>3. \A x \in ToSet(Tail(todo)) : x \in ToSet(todo)
    BY <2>2 DEF ToSet
  <2> QED BY <1>1, <2>1, <2>2, <2>3
<1> HIDE DEF w
<1>4. KcmInv'
  <2>1. (kcm.alone /\ ~Clash(w, id)) \in BOOLEAN
    OBVIOUS
  <2> QED BY <1>1, <2>1, KcmUnchanged
<1>5. crossed' \subseteq XID
  BY <1>1 DEF TypeInv, DaemonInv, Clash
<1>6. ListInv'
  BY <1>1 DEF TypeInv, ListInv
<1>7. DaemonInv'
  BY <1>1, <1>3, <1>5 DEF TypeInv, DaemonInv
<1> QED BY <1>2, <1>4, <1>6, <1>7 DEF TypeInv

-----------------------------------------------------------------------------
(* Types: the settings module. *)

\* A step of the settings module leaves devices and daemon alone.
LEMMA MeasureTypes ==
    ASSUME TypeInv, UNCHANGED <<list, gone, backend, profile, todo, screen, led, crossed>>,
           KcmInv', DriverInv'
    PROVE  TypeInv'
<1>1. ListInv'
  BY DEF TypeInv, ListInv
<1>2. crossed' \subseteq XID /\ gone' \in BOOLEAN
  BY DEF TypeInv, DaemonInv
<1>3. DaemonInv'
  BY <1>2, DaemonUnchanged
<1> QED BY <1>1, <1>3 DEF TypeInv

LEMMA AreaOfDriver ==
    ASSUME TypeInv, NEW id \in XID
    PROVE  driver[id].Area \in Areas /\ DOMAIN driver[id] = Property
<1>1. IsState(driver[id])
  BY DEF TypeInv, DriverInv
<1>2. "Area" \in Property
  BY DEF Property, XsetwacomProperties
<1> QED BY <1>1, <1>2 DEF IsState, Stored, Value

\* A measurement that begins, of a device that has an area.
Begins(id) ==
    /\ id \in XID /\ "Area" \in At(id).has
    /\ kcm' = [Idle EXCEPT !.step = "reset", !.id = id, !.previous = driver[id].Area]
    /\ measured' = measured

LEMMA MeasureStartIs ==
    ASSUME TypeInv, NEW name, MeasureStart(name)
    PROVE  /\ kcm.step = "idle"
           /\ (kcm' = Idle /\ Returns(Unknown)) \/ \E id \in XID : Begins(id)
           /\ UNCHANGED <<list, gone, driver, backend, profile, todo, screen, led, wanted, crossed>>
<1> DEFINE id == FindDevice(name)
<1>1. id \in XID \cup {0}
  BY FindDeviceType DEF TypeInv
<1>2. /\ kcm.step = "idle"
      /\ IF Readable(id, "Area")
         THEN /\ kcm' = [Idle EXCEPT !.step = "reset", !.id = id, !.previous = driver[id].Area]
              /\ measured' = measured
         ELSE Returns(Unknown)
      /\ UNCHANGED <<list, gone, driver, backend, profile, todo, screen, led, wanted, crossed>>
  BY DEF MeasureStart, xVars
<1> HIDE DEF id
<1>3. CASE Readable(id, "Area")
  <2>1. id \in XID /\ "Area" \in At(id).has
    BY <1>1, <1>3 DEF Readable, HasProperty, Closed
  <2> QED BY <1>2, <1>3, <2>1 DEF Begins
<1>4. CASE ~Readable(id, "Area")
  BY <1>2, <1>4 DEF Returns
<1> QED BY <1>2, <1>3, <1>4

LEMMA MeasureStartTypes ==
    ASSUME TypeInv, NEW name, MeasureStart(name)
    PROVE  TypeInv'
<1>1. KcmInv'
  <2>1. CASE kcm' = Idle
    BY <2>1, KcmUnchanged
  <2>2. CASE \E id \in XID : Begins(id)
    <3>1. PICK id \in XID : Begins(id)
      BY <2>2
    <3>2. driver[id].Area \in Areas /\ id # 0
      BY AreaOfDriver, DeviceAssumption
    <3> QED BY <3>1, <3>2 DEF Begins, KcmInv, Idle
  <2> QED BY <2>1, <2>2, MeasureStartIs
<1>2. DriverInv'
  BY MeasureStartIs DEF TypeInv, DriverInv
<1> QED BY <1>1, <1>2, MeasureStartIs, MeasureTypes

LEMMA MeasureResetTypes ==
    ASSUME TypeInv, NEW taken \in BOOLEAN, MeasureReset(taken)
    PROVE  TypeInv'
<1>1. /\ kcm.step = "reset"
      /\ UNCHANGED <<list, gone, backend, profile, todo, screen, led, crossed>>
  BY DEF MeasureReset, xVars, daemonVars
<1>2. kcm.id \in XID
  BY <1>1 DEF TypeInv, KcmInv
<1>3. CASE Writable(kcm.id, "Area")
  <2> DEFINE a == IF taken THEN Maximum ELSE Reset
  <2>1. driver' = [driver EXCEPT ![kcm.id].Area = a] /\ kcm' = [kcm EXCEPT !.step = "read"]
    BY <1>3 DEF MeasureReset
  <2>2. a \in Areas
    BY MaximumIsArea
  <2> HIDE DEF a
  <2>3. DriverInv'
    BY <1>2, <2>1, <2>2, DriverArea
  <2>4. KcmInv'
    BY <1>1, <2>1 DEF TypeInv, KcmInv
  <2> QED BY <1>1, <2>3, <2>4, MeasureTypes
<1>4. CASE ~Writable(kcm.id, "Area")
  <2>1. kcm' = Idle /\ driver' = driver
    BY <1>4 DEF MeasureReset, Returns
  <2>2. KcmInv' /\ DriverInv'
    BY <2>1, KcmUnchanged DEF TypeInv, DriverInv
  <2> QED BY <1>1, <2>2, MeasureTypes
<1> QED BY <1>3, <1>4

LEMMA MeasureReadTypes ==
    ASSUME TypeInv, MeasureRead
    PROVE  TypeInv'
<1>1. /\ kcm.step = "read" /\ driver' = driver
      /\ UNCHANGED <<list, gone, backend, profile, todo, screen, led, crossed>>
  BY DEF MeasureRead, xVars, daemonVars
<1>2. KcmInv'
  BY <1>1 DEF MeasureRead, TypeInv, KcmInv
<1>3. DriverInv'
  BY <1>1 DEF TypeInv, DriverInv
<1> QED BY <1>1, <1>2, <1>3, MeasureTypes

LEMMA MeasureRestoreTypes ==
    ASSUME TypeInv, MeasureRestore
    PROVE  TypeInv'
<1>1. /\ kcm.step = "restore" /\ kcm' = Idle
      /\ UNCHANGED <<list, gone, backend, profile, todo, screen, led, crossed>>
      /\ driver' = IF Writable(kcm.id, "Area") THEN [driver EXCEPT ![kcm.id].Area = kcm.previous]
                   ELSE driver
  BY DEF MeasureRestore, Returns, Restored, xVars, daemonVars
<1>2. KcmInv'
  BY <1>1, KcmUnchanged
<1>3. DriverInv'
  <2>1. kcm.id \in XID /\ kcm.previous \in Areas
    BY <1>1 DEF TypeInv, KcmInv
  <2>2. CASE Writable(kcm.id, "Area")
    BY <1>1, <2>1, <2>2, DriverArea
  <2>3. CASE ~Writable(kcm.id, "Area")
    BY <1>1, <2>3 DEF TypeInv, DriverInv
  <2> QED BY <2>2, <2>3
<1> QED BY <1>1, <1>2, <1>3, MeasureTypes

-----------------------------------------------------------------------------
(* What a measurement takes for the maximum. *)

MeasureInv ==
    /\ kcm.alone /\ kcm.step = "read" => driver[kcm.id].Area \in {Maximum, Reset}
    /\ kcm.alone /\ kcm.step = "restore" => kcm.read \in {<<>>, Maximum, Reset}
    /\ MeasuresWhole

\* The area that will be written back is the one there was, and there is a device to
\* write it to, unless the daemon came between.
HeldInv ==
    kcm.id \notin crossed =>
        /\ kcm.step = "reset" => driver[kcm.id].Area = kcm.previous
        /\ \A i \in DOMAIN list : list[i].id = kcm.id => "Area" \in list[i].dev.has

LEMMA ResetReads == AsRead(Reset).width <= 0 /\ AsRead(Reset).height <= 0
<1>1. AsLong(-1) - AsLong(-1) = 0
  BY MaximumIsArea
<1> QED BY <1>1 DEF AsRead, Reset

LEMMA InitMeasures == Init => MeasureInv /\ HeldInv
<1> SUFFICES ASSUME Init PROVE MeasureInv /\ HeldInv
  OBVIOUS
<1>1. kcm.step = "idle" /\ list = <<>>
  BY DEF Init, Idle
<1>2. MeasureInv
  BY <1>1 DEF Init, MeasureInv, MeasuresWhole, Unknown
<1>3. HeldInv
  BY <1>1, EmptyIsSeq DEF HeldInv
<1> QED BY <1>2, <1>3

\* The daemon begins.
LEMMA MeasureUnchanged ==
    ASSUME MeasureInv, HeldInv, UNCHANGED <<list, driver, kcmVars, crossed>>
    PROVE  MeasureInv' /\ HeldInv'
<1>1. UNCHANGED <<list, driver, kcm, measured, crossed>>
  BY DEF kcmVars
<1>2. MeasureInv'
  BY <1>1 DEF MeasureInv, MeasuresWhole
<1>3. HeldInv'
  BY <1>1 DEF HeldInv
<1> QED BY <1>2, <1>3

LEMMA PlugMeasures ==
    ASSUME TypeInv, MeasureInv, HeldInv, NEW id \in XID, NEW d \in XDev, Plug(id, d)
    PROVE  MeasureInv' /\ HeldInv'
<1>1. /\ driver' = [driver EXCEPT ![id] = Fresh] /\ measured' = measured
      /\ kcm' = [kcm EXCEPT !.alone = kcm.alone /\ kcm.id # id]
      /\ crossed' = IF kcm.id = id THEN crossed \cup {id} ELSE crossed \ {id}
      /\ list' = Append(list, [id |-> id, dev |-> d])
  BY DEF Plug
<1>2. /\ DOMAIN kcm = {"step", "id", "previous", "read", "alone"}
      /\ list \in Seq(Listed) /\ [id |-> id, dev |-> d] \in Listed
  BY DEF TypeInv, KcmInv, ListInv, IsList, Listed
<1>3. /\ kcm'.step = kcm.step /\ kcm'.id = kcm.id /\ kcm'.previous = kcm.previous
      /\ kcm'.read = kcm.read /\ (kcm'.alone <=> kcm.alone /\ kcm.id # id)
  BY <1>1, <1>2
<1>4. kcm.id # id => driver'[kcm.id] = driver[kcm.id]
  BY <1>1 DEF TypeInv, DriverInv
<1>5. MeasureInv'
  BY <1>1, <1>3, <1>4 DEF MeasureInv, MeasuresWhole
<1>6. ASSUME kcm'.id \notin crossed'
      PROVE  /\ kcm'.step = "reset" => driver'[kcm'.id].Area = kcm'.previous
             /\ \A i \in DOMAIN list' : list'[i].id = kcm'.id => "Area" \in list'[i].dev.has
  <2>1. kcm.id # id /\ kcm.id \notin crossed
    BY <1>1, <1>3, <1>6
  <2>2. kcm'.step = "reset" => driver'[kcm'.id].Area = kcm'.previous
    BY <1>3, <1>4, <2>1 DEF HeldInv
  <2>3. /\ Len(list') = Len(list) + 1 /\ list' \in Seq(Listed)
        /\ \A i \in 1..Len(list) : list'[i] = list[i]
        /\ list'[Len(list) + 1] = [id |-> id, dev |-> d]
    BY <1>1, <1>2, AppendProperties
  <2>4. DOMAIN list = 1..Len(list) /\ Len(list) \in Nat /\ DOMAIN list' = 1..(Len(list) + 1)
    BY <1>2, <2>3
  <2>5. list'[Len(list) + 1].id = id
    BY <2>3
  <2>6. \A i \in DOMAIN list' : list'[i].id = kcm.id => i \in DOMAIN list /\ list'[i] = list[i]
    BY <2>1, <2>3, <2>4, <2>5
  <2>7. \A i \in DOMAIN list : list[i].id = kcm.id => "Area" \in list[i].dev.has
    BY <2>1 DEF HeldInv
  <2> QED BY <1>3, <2>2, <2>6, <2>7
<1>7. HeldInv'
  BY <1>6 DEF HeldInv
<1> QED BY <1>5, <1>7

LEMMA UnplugMeasures ==
    ASSUME TypeInv, MeasureInv, HeldInv, NEW j \in DOMAIN list, Unplug(j)
    PROVE  MeasureInv' /\ HeldInv'
<1>1. /\ UNCHANGED <<driver, measured, crossed>> /\ list' = RemoveAt(list, j)
      /\ kcm' = [kcm EXCEPT !.alone = kcm.alone /\ kcm.id # list[j].id]
  BY DEF Unplug
<1>2. /\ DOMAIN kcm = {"step", "id", "previous", "read", "alone"} /\ list \in Seq(Listed)
  BY DEF TypeInv, KcmInv, ListInv, IsList
<1>3. /\ kcm'.step = kcm.step /\ kcm'.id = kcm.id /\ kcm'.previous = kcm.previous
      /\ kcm'.read = kcm.read /\ (kcm'.alone <=> kcm.alone /\ kcm.id # list[j].id)
  BY <1>1, <1>2
<1>4. MeasureInv'
  BY <1>1, <1>3 DEF MeasureInv, MeasuresWhole
<1>5. RemoveAt(list, j) \in Seq(Listed) /\ IsRemoval(RemoveAt(list, j), list, j)
  BY <1>2, RemoveAtKeepsOthers
<1>6. list' \in Seq(Listed) /\ IsRemoval(list', list, j)
  BY <1>1, <1>5, Zenon
<1>7. \A i \in DOMAIN list' : \E k \in DOMAIN list : list'[i] = list[k]
  <2>1. /\ DOMAIN list = 1..Len(list) /\ Len(list) \in Nat
        /\ DOMAIN list' = 1..(Len(list) - 1)
    BY <1>2, <1>6 DEF IsRemoval
  <2>2. \A k \in DOMAIN list' : list'[k] = IF k < j THEN list[k] ELSE list[k + 1]
    BY <1>6, <2>1 DEF IsRemoval
  <2> QED BY <2>1, <2>2
<1>8. HeldInv'
  BY <1>1, <1>3, <1>7 DEF HeldInv
<1> QED BY <1>4, <1>8

\* What a write does to a device: nothing, unless it ends there.
LEMMA ApplyTo ==
    ASSUME TypeInv, Apply, NEW x \in XID
    PROVE  /\ Target(Head(todo)) # x => driver'[x] = driver[x]
           /\ Target(Head(todo)) = x => driver'[x] = Written(driver[x], Head(todo))
           /\ ~(Target(Head(todo)) = x /\ Head(todo).prop \in {"Rotate", "Area"})
                  => driver'[x].Area = driver[x].Area
<1> DEFINE w == Head(todo)
           id == Target(w)
<1>1. /\ IsRequest(w)
      /\ driver' = IF id = 0 THEN driver ELSE [driver EXCEPT ![id] = Written(driver[id], w)]
  BY ApplyIs
<1>2. DOMAIN driver = XID /\ 0 \notin XID /\ DOMAIN driver[x] = Property
  BY DeviceAssumption, AreaOfDriver DEF TypeInv, DriverInv
<1>3. w.prop \in Property
  BY <1>1 DEF IsRequest
<1> HIDE DEF id, w
<1>4. id # x => driver'[x] = driver[x]
  BY <1>1, <1>2
<1>5. id = x => driver'[x] = Written(driver[x], w)
  BY <1>1, <1>2
<1>6. w.prop # "Area" /\ w.prop # "Rotate" => Written(driver[x], w).Area = driver[x].Area
  BY <1>2, <1>3, WrittenIs
<1> QED BY <1>4, <1>5, <1>6 DEF id, w

LEMMA ApplyMeasures ==
    ASSUME TypeInv, MeasureInv, HeldInv, Apply
    PROVE  MeasureInv' /\ HeldInv'
<1> DEFINE w == Head(todo)
           id == Target(w)
<1>1. /\ kcm' = [kcm EXCEPT !.alone = kcm.alone /\ ~Clash(w, id)]
      /\ crossed' = IF Clash(w, id) THEN crossed \cup {id}
                    ELSE IF w.prop = "Area" THEN crossed \ {id} ELSE crossed
      /\ UNCHANGED <<list, measured>> /\ id \in XID \cup {0}
  BY ApplyIs
<1>2. /\ DOMAIN kcm = {"step", "id", "previous", "read", "alone"}
      /\ kcm.id \in XID \cup {0} /\ (kcm.id = 0 <=> kcm.step = "idle")
  BY DEF TypeInv, KcmInv
<1>3. /\ kcm'.step = kcm.step /\ kcm'.id = kcm.id /\ kcm'.previous = kcm.previous
      /\ kcm'.read = kcm.read /\ (kcm'.alone <=> kcm.alone /\ ~Clash(w, id))
  BY <1>1, <1>2
<1>4. ~Clash(w, id) /\ kcm.id # 0 => driver'[kcm.id].Area = driver[kcm.id].Area
  <2>1. kcm.id # 0 => kcm.id \in XID
    BY <1>2
  <2> QED BY <2>1, ApplyTo DEF Clash
<1> HIDE DEF w, id
<1>5. MeasureInv'
  BY <1>1, <1>2, <1>3, <1>4 DEF MeasureInv, MeasuresWhole
<1>6. kcm.id \notin crossed' => \/ kcm.id \notin crossed /\ ~Clash(w, id)
                                \/ id = kcm.id /\ ~Clash(w, id) /\ w.prop = "Area"
  BY <1>1 DEF Clash
<1>7. kcm.id \notin crossed' /\ kcm.id # 0 => kcm.id \notin crossed /\ ~Clash(w, id)
  BY <1>6 DEF Clash
<1>8. \A i \in DOMAIN list : list[i].id # 0
  BY ListedAt, DeviceAssumption DEF TypeInv
<1>9. HeldInv'
  <2>1. CASE kcm.id = 0
    BY <1>1, <1>2, <1>3, <1>8, <2>1 DEF HeldInv
  <2>2. CASE kcm.id # 0
    BY <1>1, <1>3, <1>4, <1>7, <2>2 DEF HeldInv
  <2> QED BY <2>1, <2>2
<1> QED BY <1>5, <1>9

LEMMA ReturnsMeasures ==
    ASSUME NEW area, Returns(area),
           kcm.alone => (area.width <= 0 /\ area.height <= 0) \/ area = AsRead(Maximum)
    PROVE  MeasuresWhole' /\ MeasureInv' /\ kcm' = Idle
<1>1. measured' = [area |-> area, alone |-> kcm.alone] /\ kcm' = Idle
  BY DEF Returns
<1>2. MeasuresWhole'
  BY <1>1 DEF MeasuresWhole
<1> QED BY <1>1, <1>2 DEF MeasureInv, Idle

LEMMA IdleHolds ==
    ASSUME TypeInv, kcm' = Idle, list' = list
    PROVE  HeldInv'
<1>1. kcm'.id = 0 /\ kcm'.step = "idle"
  BY DEF Idle
<1>2. \A i \in DOMAIN list : list[i].id # 0
  BY ListedAt, DeviceAssumption DEF TypeInv
<1> QED BY <1>1, <1>2 DEF HeldInv

LEMMA MeasureStartMeasures ==
    ASSUME TypeInv, MeasureInv, HeldInv, NEW name, MeasureStart(name)
    PROVE  MeasureInv' /\ HeldInv'
<1>1. CASE kcm' = Idle /\ Returns(Unknown)
  <2>1. MeasureInv'
    BY <1>1, ReturnsMeasures DEF Unknown
  <2> QED BY <1>1, <2>1, IdleHolds, MeasureStartIs
<1>2. CASE \E id \in XID : Begins(id)
  <2>1. PICK id \in XID : Begins(id)
    BY <1>2
  <2>2. UNCHANGED <<list, driver, crossed>>
    BY MeasureStartIs
  <2>3. /\ kcm'.step = "reset" /\ kcm'.id = id /\ kcm'.previous = driver[id].Area
        /\ measured' = measured /\ "Area" \in At(id).has
    BY <2>1 DEF Begins, Idle
  <2>4. MeasureInv'
    BY <2>3 DEF MeasureInv, MeasuresWhole
  <2>5. \A i \in DOMAIN list : list[i].id = id => "Area" \in list[i].dev.has
    BY <2>3, ListedAt DEF TypeInv
  <2>6. HeldInv'
    BY <2>2, <2>3, <2>5 DEF HeldInv
  <2> QED BY <2>4, <2>6
<1> QED BY <1>1, <1>2, MeasureStartIs

LEMMA MeasureResetMeasures ==
    ASSUME TypeInv, MeasureInv, HeldInv, NEW taken \in BOOLEAN, MeasureReset(taken)
    PROVE  MeasureInv' /\ HeldInv'
<1>1. kcm.step = "reset" /\ UNCHANGED <<list, crossed>>
  BY DEF MeasureReset, xVars
<1>2. kcm.id \in XID /\ DOMAIN kcm = {"step", "id", "previous", "read", "alone"}
  BY <1>1 DEF TypeInv, KcmInv
<1>3. CASE Writable(kcm.id, "Area")
  <2> DEFINE a == IF taken THEN Maximum ELSE Reset
  <2>1. /\ driver' = [driver EXCEPT ![kcm.id].Area = a] /\ kcm' = [kcm EXCEPT !.step = "read"]
        /\ measured' = measured
    BY <1>3 DEF MeasureReset
  <2>2. a \in {Maximum, Reset}
    OBVIOUS
  <2> HIDE DEF a
  <2>3. DOMAIN driver = XID /\ DOMAIN driver[kcm.id] = Property /\ "Area" \in Property
    BY <1>2, AreaOfDriver DEF TypeInv, DriverInv, Property, XsetwacomProperties
  <2>4. driver'[kcm.id].Area = a
    BY <1>2, <2>1, <2>3
  <2>5. kcm'.step = "read" /\ kcm'.id = kcm.id
    BY <1>2, <2>1
  <2>6. MeasureInv'
    BY <2>1, <2>2, <2>4, <2>5 DEF MeasureInv, MeasuresWhole
  <2>7. HeldInv'
    BY <1>1, <2>5 DEF HeldInv
  <2> QED BY <2>6, <2>7
<1>4. CASE ~Writable(kcm.id, "Area")
  <2>1. Returns(Unknown) /\ kcm' = Idle
    BY <1>4 DEF MeasureReset, Returns
  <2>2. MeasureInv'
    BY <2>1, ReturnsMeasures DEF Unknown
  <2> QED BY <1>1, <2>1, <2>2, IdleHolds
<1> QED BY <1>3, <1>4

LEMMA MeasureReadMeasures ==
    ASSUME TypeInv, MeasureInv, HeldInv, MeasureRead
    PROVE  MeasureInv' /\ HeldInv'
<1>1. /\ kcm.step = "read" /\ UNCHANGED <<list, driver, measured, crossed>>
      /\ kcm' = [kcm EXCEPT !.step = "restore",
                            !.read = IF Readable(kcm.id, "Area") THEN driver[kcm.id].Area ELSE <<>>]
  BY DEF MeasureRead, xVars
<1>2. DOMAIN kcm = {"step", "id", "previous", "read", "alone"}
  BY DEF TypeInv, KcmInv
<1>3. /\ kcm'.step = "restore" /\ kcm'.id = kcm.id /\ kcm'.alone = kcm.alone
      /\ kcm'.read = IF Readable(kcm.id, "Area") THEN driver[kcm.id].Area ELSE <<>>
  BY <1>1, <1>2
<1>4. MeasureInv'
  BY <1>1, <1>3 DEF MeasureInv, MeasuresWhole
<1>5. HeldInv'
  BY <1>1, <1>3 DEF HeldInv
<1> QED BY <1>4, <1>5

LEMMA MeasureRestoreMeasures ==
    ASSUME TypeInv, MeasureInv, HeldInv, MeasureRestore
    PROVE  MeasureInv' /\ HeldInv'
<1> DEFINE area == IF kcm.read = <<>> THEN Unknown ELSE AsRead(kcm.read)
<1>1. kcm.step = "restore" /\ list' = list /\ Returns(area)
  BY DEF MeasureRestore, xVars
<1>2. Unknown.width <= 0 /\ Unknown.height <= 0
  BY DEF Unknown
<1>3. kcm.alone => (area.width <= 0 /\ area.height <= 0) \/ area = AsRead(Maximum)
  BY <1>1, <1>2, ResetReads DEF MeasureInv
<1> HIDE DEF area
<1>4. MeasureInv' /\ kcm' = Idle
  BY <1>1, <1>3, ReturnsMeasures
<1> QED BY <1>1, <1>4, IdleHolds

-----------------------------------------------------------------------------
(* The tablet does as it is asked. *)

\* What a tool has, with the writes still to come, leads to what has been asked of it.
ToolInv(t, id) == Leads(t, At(id), todo, Held(id), wanted[t], id \notin crossed)

ControlInv ==
    ~gone => \A t \in Tools :
        /\ IsListed(backend.devs[t])
        /\ t \in DOMAIN wanted
        /\ ToolInv(t, backend.devs[t].id)

IInv == TypeInv /\ MeasureInv /\ HeldInv /\ ControlInv

\* The area a device has when a measurement under way is done.
HeldArea(id) == IF kcm.id = id THEN kcm.previous ELSE driver[id].Area

LEMMA WithAreaIs ==
    ASSUME NEW d, DOMAIN d = Property, NEW a
    PROVE  /\ SameBut([d EXCEPT !.Area = a], d)
           /\ [d EXCEPT !.Area = a].Area = a
           /\ DOMAIN [d EXCEPT !.Area = a] = Property
<1>1. "Area" \in DOMAIN d /\ "Area" \notin Others /\ Others \subseteq DOMAIN d
  BY OthersAre
<1> QED BY <1>1 DEF SameBut

LEMMA HeldIs ==
    ASSUME TypeInv, NEW id \in XID
    PROVE  /\ SameBut(Held(id), driver[id])
           /\ Held(id).Area = HeldArea(id)
           /\ DOMAIN Held(id) = Property
           /\ kcm.id # id => Held(id) = driver[id]
<1>1. DOMAIN driver[id] = Property
  BY AreaOfDriver
<1>2. CASE kcm.id = id
  BY <1>1, <1>2, WithAreaIs DEF Held, HeldArea
<1>3. CASE kcm.id # id
  BY <1>1, <1>3 DEF Held, HeldArea, SameBut
<1> QED BY <1>2, <1>3

LEMMA HeldThenIs ==
    ASSUME TypeInv', NEW id \in XID
    PROVE  /\ SameBut(Held(id)', driver'[id])
           /\ Held(id)'.Area = HeldArea(id)'
           /\ kcm'.id # id => Held(id)' = driver'[id]
<1>1. DOMAIN driver'[id] = Property
  BY DEF TypeInv, DriverInv, IsState
<1>2. CASE kcm'.id = id
  BY <1>1, <1>2, WithAreaIs DEF Held, HeldArea
<1>3. CASE kcm'.id # id
  BY <1>1, <1>3 DEF Held, HeldArea, SameBut
<1> QED BY <1>2, <1>3

\* Nothing is asked and nothing is written.
LEMMA ToolKept ==
    ASSUME TypeInv, TypeInv', NEW t, NEW id \in XID, ToolInv(t, id),
           At(id)' = At(id), todo' = todo, wanted' = wanted,
           SameBut(driver'[id], driver[id]),
           id \notin crossed' => id \notin crossed /\ HeldArea(id)' = HeldArea(id)
    PROVE  ToolInv(t, id)'
<1>1. SameBut(Held(id), driver[id]) /\ Held(id).Area = HeldArea(id)
  BY HeldIs
<1>2. SameBut(Held(id)', driver'[id]) /\ Held(id)'.Area = HeldArea(id)'
  BY HeldThenIs
<1>3. SameBut(Held(id)', Held(id))
  BY <1>1, <1>2 DEF SameBut
<1>4. Leads(t, At(id), todo, Held(id), wanted[t], id \notin crossed)
  BY DEF ToolInv
<1>5. (id \notin crossed') => (id \notin crossed) /\ Held(id)'.Area = Held(id).Area
  BY <1>1, <1>2
<1>6. Leads(t, At(id), todo, Held(id)', wanted[t], id \notin crossed')
  BY <1>3, <1>4, <1>5, LeadsFromSame
<1>7. ToolInv(t, id)' <=> Leads(t, At(id)', todo', Held(id)', wanted'[t], id \notin crossed')
  BY DEF ToolInv
<1> QED BY <1>6, <1>7

\* A device that stays in the list is what it was.
LEMMA StaysListed ==
    ASSUME ListInv, ListInv', NEW gap, Keeps(list', list, gap),
           NEW info, IsListed(info), info.id # gap, backend' = backend
    PROVE  /\ info.id \in XID /\ info.id \in Ids
           /\ \E i \in DOMAIN list' : list'[i].id = info.id /\ list'[i].dev.name = info.name
           /\ At(info.id)' = At(info.id)
<1>1. PICK i \in DOMAIN list : list[i].id = info.id /\ list[i].dev.name = info.name
  BY DEF IsListed
<1>2. PICK k \in DOMAIN list' : list'[k] = list[i]
  BY <1>1 DEF Keeps
<1>3. At(list[i].id) = list[i].dev /\ list[i].id \in XID /\ list[i].id \in Ids
  BY <1>1, ListedAt
<1>4. IsList(list')
  BY DEF ListInv
<1>5. AtIn(list', list'[k].id) = list'[k].dev
  BY <1>2, <1>4, ListedAtIn
<1>6. At(info.id)' = AtIn(list', info.id)
  BY DEF At, AtIn, Ids
<1> QED BY <1>1, <1>2, <1>3, <1>5, <1>6

LEMMA InitControl == Init => ControlInv
<1> SUFFICES ASSUME Init PROVE Tools = {}
  BY DEF ControlInv
<1> QED BY NoBackendControlled DEF Init, Tools

\* Devices of the tablet.
Used(id) == \E t \in Tools : backend.devs[t].id = id

\* Nothing is asked and nothing is written, and the devices of the tablet stay.
LEMMA ControlKept ==
    ASSUME IInv, TypeInv', UNCHANGED <<backend, todo, wanted>>, ~gone' => ~gone,
           NEW gap, Keeps(list', list, gap),
           ~gone' => ~Used(gap),
           \A id \in XID : Used(id) /\ ~gone' =>
               /\ SameBut(driver'[id], driver[id])
               /\ id \notin crossed' =>
                     /\ id \notin crossed
                     /\ (IF kcm'.id = id THEN kcm'.previous ELSE driver'[id].Area) = HeldArea(id)
    PROVE  ControlInv'
<1> SUFFICES ASSUME ~gone', NEW t \in Tools
             PROVE  /\ IsListed(backend.devs[t])' /\ t \in DOMAIN wanted
                    /\ ToolInv(t, backend.devs[t].id)'
  BY DEF ControlInv, Tools
<1>1. ListInv /\ ListInv' /\ TypeInv /\ ~gone
  BY DEF IInv, TypeInv
<1> DEFINE info == backend.devs[t]
<1>2. IsListed(info) /\ t \in DOMAIN wanted /\ ToolInv(t, info.id)
  BY <1>1 DEF IInv, ControlInv
<1>3. Used(info.id) /\ info.id # gap
  BY DEF Used
<1>4. /\ info.id \in XID
      /\ \E i \in DOMAIN list' : list'[i].id = info.id /\ list'[i].dev.name = info.name
      /\ At(info.id)' = At(info.id)
  BY <1>1, <1>2, <1>3, StaysListed
<1>5. /\ SameBut(driver'[info.id], driver[info.id])
      /\ info.id \notin crossed' =>
            /\ info.id \notin crossed
            /\ (IF kcm'.id = info.id THEN kcm'.previous ELSE driver'[info.id].Area) = HeldArea(info.id)
  BY <1>3, <1>4
<1>6. info' = info
  OBVIOUS
<1>7. IsListed(info)'
  BY <1>4, <1>6 DEF IsListed
<1> HIDE DEF info
<1>8. ASSUME NEW id \in XID, id = info.id PROVE ToolInv(t, id)'
  <2>1. At(id)' = At(id)
    BY <1>4, <1>6, <1>8
  <2>2. id \notin crossed' => HeldArea(id)' = HeldArea(id)
    BY <1>5, <1>8 DEF HeldArea
  <2> QED BY <1>1, <1>2, <1>5, <1>8, <2>1, <2>2, ToolKept
<1>9. ToolInv(t, info.id)'
  BY <1>4, <1>6, <1>8
<1> QED BY <1>2, <1>7, <1>9 DEF info

\* All devices stay.
LEMMA KeepsAll ==
    ASSUME list' = list, TypeInv
    PROVE  Keeps(list', list, 0) /\ ~Used(0)
<1>1. 0 \notin XID
  BY DeviceAssumption
<1> QED BY <1>1 DEF Keeps, Used, TypeInv, DaemonInv, IsControlled, Tools

LEMMA PlugControl ==
    ASSUME IInv, TypeInv', NEW new \in XID, NEW d \in XDev, Plug(new, d)
    PROVE  ControlInv'
<1>1. /\ driver' = [driver EXCEPT ![new] = Fresh]
      /\ kcm' = [kcm EXCEPT !.alone = kcm.alone /\ kcm.id # new]
      /\ crossed' = IF kcm.id = new THEN crossed \cup {new} ELSE crossed \ {new}
      /\ UNCHANGED <<gone, backend, todo, wanted>>
  BY DEF Plug, daemonVars
<1>2. Keeps(list', list, 0) /\ new \notin Ids /\ TypeInv /\ ListInv
  BY PlugList DEF IInv, TypeInv
<1>3. ~Used(0)
  BY DeviceAssumption DEF Used, IInv, TypeInv, DaemonInv, IsControlled, Tools
<1>4. kcm'.id = kcm.id /\ kcm'.previous = kcm.previous
  BY <1>1, <1>2 DEF TypeInv, KcmInv
<1>5. ASSUME NEW id \in XID, Used(id), ~gone'
      PROVE  /\ SameBut(driver'[id], driver[id])
             /\ id \notin crossed' =>
                   /\ id \notin crossed
                   /\ (IF kcm'.id = id THEN kcm'.previous ELSE driver'[id].Area) = HeldArea(id)
  <2>1. PICK t \in Tools : backend.devs[t].id = id
    BY <1>5 DEF Used
  <2>2. IsListed(backend.devs[t])
    BY <1>1, <1>5 DEF IInv, ControlInv
  <2>3. id \in Ids
    BY <2>1, <2>2 DEF IsListed, Ids
  <2>4. id # new
    BY <1>2, <2>3
  <2>5. driver'[id] = driver[id]
    BY <1>1, <1>2, <2>4 DEF TypeInv, DriverInv
  <2> QED BY <1>1, <1>4, <2>4, <2>5 DEF SameBut, HeldArea
<1> QED BY <1>1, <1>2, <1>3, <1>5, ControlKept

LEMMA UnplugControl ==
    ASSUME IInv, TypeInv', NEW i \in DOMAIN list, Unplug(i)
    PROVE  ControlInv'
<1>1. /\ kcm' = [kcm EXCEPT !.alone = kcm.alone /\ kcm.id # list[i].id]
      /\ gone' = (gone \/ Used(list[i].id))
      /\ UNCHANGED <<driver, crossed, backend, todo, wanted>>
  BY DEF Unplug, daemonVars, Used
<1>2. Keeps(list', list, list[i].id) /\ TypeInv
  BY UnplugList DEF IInv
<1>3. kcm'.id = kcm.id /\ kcm'.previous = kcm.previous
  BY <1>1, <1>2 DEF TypeInv, KcmInv
<1>4. \A id \in XID :
          /\ SameBut(driver'[id], driver[id])
          /\ id \notin crossed' =>
                /\ id \notin crossed
                /\ (IF kcm'.id = id THEN kcm'.previous ELSE driver'[id].Area) = HeldArea(id)
  BY <1>1, <1>3 DEF SameBut, HeldArea
<1> QED BY <1>1, <1>2, <1>4, ControlKept

LEMMA MeasureStartControl ==
    ASSUME IInv, TypeInv', NEW name, MeasureStart(name)
    PROVE  ControlInv'
<1>1. /\ kcm.step = "idle" /\ (kcm' = Idle \/ \E id \in XID : Begins(id))
      /\ UNCHANGED <<list, gone, driver, backend, todo, wanted, crossed>>
  BY MeasureStartIs DEF IInv
<1>2. TypeInv /\ kcm.id = 0 /\ 0 \notin XID
  BY <1>1, DeviceAssumption DEF IInv, TypeInv, KcmInv
<1>3. kcm'.id = 0 \/ kcm'.previous = driver[kcm'.id].Area
  <2>1. CASE kcm' = Idle
    BY <2>1 DEF Idle
  <2>2. CASE \E id \in XID : Begins(id)
    <3>1. PICK id \in XID : Begins(id)
      BY <2>2
    <3>2. kcm'.id = id /\ kcm'.previous = driver[id].Area
      BY <3>1 DEF Begins, Idle
    <3> QED BY <3>2
  <2> QED BY <1>1, <2>1, <2>2
<1>4. \A id \in XID :
          /\ SameBut(driver'[id], driver[id])
          /\ id \notin crossed' =>
                /\ id \notin crossed
                /\ (IF kcm'.id = id THEN kcm'.previous ELSE driver'[id].Area) = HeldArea(id)
  BY <1>1, <1>2, <1>3 DEF SameBut, HeldArea
<1> QED BY <1>1, <1>2, <1>4, KeepsAll, ControlKept

LEMMA MeasureResetControl ==
    ASSUME IInv, TypeInv', NEW taken \in BOOLEAN, MeasureReset(taken)
    PROVE  ControlInv'
<1>1. kcm.step = "reset" /\ UNCHANGED <<list, gone, backend, todo, wanted, crossed>>
  BY DEF MeasureReset, xVars, daemonVars
<1>2. /\ TypeInv /\ kcm.id \in XID /\ 0 \notin XID /\ DOMAIN driver = XID
      /\ DOMAIN kcm = {"step", "id", "previous", "read", "alone"}
  BY <1>1, DeviceAssumption DEF IInv, TypeInv, KcmInv, DriverInv
<1>3. DOMAIN driver[kcm.id] = Property
  BY <1>2, AreaOfDriver
<1>4. ASSUME NEW id \in XID
      PROVE  /\ SameBut(driver'[id], driver[id])
             /\ id \notin crossed' =>
                   /\ id \notin crossed
                   /\ (IF kcm'.id = id THEN kcm'.previous ELSE driver'[id].Area) = HeldArea(id)
  <2>1. CASE Writable(kcm.id, "Area")
    <3> DEFINE a == IF taken THEN Maximum ELSE Reset
               d == [driver[kcm.id] EXCEPT !.Area = a]
    <3>1. driver' = [driver EXCEPT ![kcm.id] = d] /\ kcm' = [kcm EXCEPT !.step = "read"]
      BY <2>1 DEF MeasureReset
    <3>2. SameBut(d, driver[kcm.id])
      BY <1>3, WithAreaIs
    <3> HIDE DEF d
    <3>3. kcm'.id = kcm.id /\ kcm'.previous = kcm.previous
      BY <1>2, <3>1
    <3>4. driver'[kcm.id] = d /\ (id # kcm.id => driver'[id] = driver[id])
      BY <1>2, <3>1
    <3> QED BY <1>1, <3>2, <3>3, <3>4 DEF SameBut, HeldArea
  <2>2. CASE ~Writable(kcm.id, "Area")
    <3>1. kcm' = Idle /\ driver' = driver
      BY <2>2 DEF MeasureReset, Returns
    <3>2. kcm'.id = 0
      BY <3>1 DEF Idle
    <3>3. kcm.id \notin crossed => driver[kcm.id].Area = kcm.previous
      BY <1>1 DEF IInv, HeldInv
    <3> QED BY <1>1, <1>2, <3>1, <3>2, <3>3 DEF SameBut, HeldArea
  <2> QED BY <2>1, <2>2
<1> QED BY <1>1, <1>2, <1>4, KeepsAll, ControlKept

LEMMA MeasureReadControl ==
    ASSUME IInv, TypeInv', MeasureRead
    PROVE  ControlInv'
<1>1. /\ UNCHANGED <<list, gone, driver, backend, todo, wanted, crossed>>
      /\ kcm' = [kcm EXCEPT !.step = "restore",
                            !.read = IF Readable(kcm.id, "Area") THEN driver[kcm.id].Area ELSE <<>>]
  BY DEF MeasureRead, xVars, daemonVars
<1>2. TypeInv /\ DOMAIN kcm = {"step", "id", "previous", "read", "alone"}
  BY DEF IInv, TypeInv, KcmInv
<1>3. kcm'.id = kcm.id /\ kcm'.previous = kcm.previous
  BY <1>1, <1>2
<1>4. \A id \in XID :
          /\ SameBut(driver'[id], driver[id])
          /\ id \notin crossed' =>
                /\ id \notin crossed
                /\ (IF kcm'.id = id THEN kcm'.previous ELSE driver'[id].Area) = HeldArea(id)
  BY <1>1, <1>3 DEF SameBut, HeldArea
<1> QED BY <1>1, <1>2, <1>4, KeepsAll, ControlKept

LEMMA MeasureRestoreControl ==
    ASSUME IInv, TypeInv', MeasureRestore
    PROVE  ControlInv'
<1>1. /\ kcm.step = "restore" /\ kcm' = Idle /\ kcm'.id = 0
      /\ UNCHANGED <<list, gone, backend, todo, wanted, crossed>>
      /\ driver' = IF Writable(kcm.id, "Area") THEN [driver EXCEPT ![kcm.id].Area = kcm.previous]
                   ELSE driver
  BY DEF MeasureRestore, Returns, Restored, Idle, xVars, daemonVars
<1>2. TypeInv /\ kcm.id \in XID /\ 0 \notin XID /\ DOMAIN driver = XID
  BY <1>1, DeviceAssumption DEF IInv, TypeInv, KcmInv, DriverInv
<1>3. DOMAIN driver[kcm.id] = Property
  BY <1>2, AreaOfDriver
<1>4. ASSUME NEW id \in XID, Used(id), ~gone'
      PROVE  /\ SameBut(driver'[id], driver[id])
             /\ id \notin crossed' =>
                   /\ id \notin crossed
                   /\ (IF kcm'.id = id THEN kcm'.previous ELSE driver'[id].Area) = HeldArea(id)
  <2>1. CASE Writable(kcm.id, "Area")
    <3> DEFINE d == [driver[kcm.id] EXCEPT !.Area = kcm.previous]
    <3>1. driver' = [driver EXCEPT ![kcm.id] = d]
      BY <1>1, <2>1
    <3>2. SameBut(d, driver[kcm.id]) /\ d.Area = kcm.previous
      BY <1>3, WithAreaIs
    <3> HIDE DEF d
    <3>3. driver'[kcm.id] = d /\ (id # kcm.id => driver'[id] = driver[id])
      BY <1>2, <3>1
    <3> QED BY <1>1, <1>2, <3>2, <3>3 DEF SameBut, HeldArea
  <2>2. CASE ~Writable(kcm.id, "Area")
    <3>1. driver' = driver
      BY <1>1, <2>2
    <3>2. CASE id # kcm.id
      BY <1>1, <1>2, <3>1, <3>2 DEF SameBut, HeldArea
    <3>3. CASE id = kcm.id
      <4>1. PICK t \in Tools : backend.devs[t].id = id
        BY <1>4 DEF Used
      <4>2. IsListed(backend.devs[t])
        BY <1>1, <1>4 DEF IInv, ControlInv
      <4>3. PICK i \in DOMAIN list : list[i].id = id
        BY <4>1, <4>2 DEF IsListed
      <4>4. "Area" \notin At(kcm.id).has
        BY <1>2, <2>2 DEF Writable, HasProperty, Closed
      <4>5. At(kcm.id) = list[i].dev
        BY <3>3, <4>3, ListedAt DEF IInv, TypeInv
      <4>6. kcm.id \in crossed
        BY <3>3, <4>3, <4>4, <4>5 DEF IInv, HeldInv
      <4> QED BY <1>1, <3>1, <3>3, <4>6 DEF SameBut
    <3> QED BY <3>2, <3>3
  <2> QED BY <2>1, <2>2
<1> QED BY <1>1, <1>2, <1>4, KeepsAll, ControlKept

\* The daemon begins to do what it is asked, with devices that are there.
LEMMA AskControl ==
    ASSUME TypeInv', UNCHANGED <<list, driver, kcm, crossed>>,
           NEW devs, backend'.devs = devs,
           ~gone' => \A t \in DOMAIN devs :
               /\ IsListed(devs[t]) /\ t \in DOMAIN wanted'
               /\ Leads(t, At(devs[t].id), todo', Held(devs[t].id), wanted'[t],
                        devs[t].id \notin crossed)
    PROVE  ControlInv'
<1> SUFFICES ASSUME ~gone', NEW t \in DOMAIN devs
             PROVE  /\ IsListed(backend.devs[t])' /\ (t \in DOMAIN wanted)'
                    /\ ToolInv(t, backend.devs[t].id)'
  BY DEF ControlInv, Tools
<1>1. /\ IsListed(devs[t]) /\ t \in DOMAIN wanted'
      /\ Leads(t, At(devs[t].id), todo', Held(devs[t].id), wanted'[t], devs[t].id \notin crossed)
  OBVIOUS
<1>2. IsListed(backend.devs[t])'
  BY <1>1 DEF IsListed
<1>3. ASSUME NEW id, id = devs[t].id PROVE ToolInv(t, id)'
  <2>1. At(id)' = At(id)
    BY DEF At, Ids
  <2>2. Held(id)' = Held(id)
    BY DEF Held
  <2>3. Leads(t, At(id), todo', Held(id), wanted'[t], id \notin crossed)
    BY <1>1, <1>3
  <2>4. ToolInv(t, id)' <=> Leads(t, At(id)', todo', Held(id)', wanted'[t], id \notin crossed')
    BY DEF ToolInv
  <2> QED BY <2>1, <2>2, <2>3, <2>4
<1>4. ToolInv(t, backend.devs[t].id)'
  BY <1>3
<1> QED BY <1>1, <1>2, <1>4

\* It is asked for more when all it was asked for is done.
LEMMA AskedControl ==
    ASSUME IInv, TypeInv', UNCHANGED <<list, gone, driver, backend, kcm, crossed>>, todo = <<>>,
           ~gone => \A t \in Tools :
               /\ t \in DOMAIN wanted'
               /\ Leads(t, At(backend.devs[t].id), todo', wanted[t], wanted'[t], TRUE)
    PROVE  ControlInv'
<1>1. ASSUME ~gone', NEW t \in DOMAIN backend.devs
      PROVE  /\ IsListed(backend.devs[t]) /\ t \in DOMAIN wanted'
             /\ Leads(t, At(backend.devs[t].id), todo', Held(backend.devs[t].id), wanted'[t],
                      backend.devs[t].id \notin crossed)
  <2> DEFINE id == backend.devs[t].id
  <2>1. ~gone /\ t \in Tools
    BY <1>1 DEF Tools
  <2>2. IsListed(backend.devs[t]) /\ ToolInv(t, id)
    BY <2>1 DEF IInv, ControlInv
  <2>3. t \in DOMAIN wanted' /\ Leads(t, At(id), todo', wanted[t], wanted'[t], TRUE)
    BY <2>1
  <2>4. Leads(t, At(id), <<>>, Held(id), wanted[t], id \notin crossed)
    BY <2>2 DEF ToolInv
  <2> HIDE DEF id
  <2>5. Leads(t, At(id), todo', Held(id), wanted'[t], id \notin crossed)
    BY <2>3, <2>4, LeadsOnFromEnd
  <2> QED BY <2>2, <2>3, <2>5 DEF id
<1>2. backend'.devs = backend.devs
  OBVIOUS
<1> QED BY <1>1, <1>2, AskControl

\* A profile leads to what it asks for.
LEMMA ProfileLeads ==
    ASSUME TypeInv, NEW devs, DOMAIN devs \subseteq Types, NEW had, NEW prof \in Profiles,
           SetProfile(devs, had, prof), NEW t \in DOMAIN devs
    PROVE  /\ t \in DOMAIN wanted'
           /\ Leads(t, At(devs[t].id), todo', had[t], wanted'[t], TRUE)
<1> DEFINE new == Mapped(prof)
           dev == At(devs[t].id)
<1>1. IsProfile(prof) /\ IsProfile(new) /\ DOMAIN new = HasXinput /\ screen \in Real
  BY ProfileAssumption, MappedIsProfile DEF TypeInv, DaemonInv
<1>2. todo' = RotationWrites(devs, new, screen) \o MapWrites(devs, new) \o BackendWrites(devs, new)
  BY <1>1, SetProfileWrites
<1>3. wanted' = AfterProfile(devs, had, new, screen)
  BY DEF SetProfile
<1> HIDE DEF new, dev
<1>4. t \in DOMAIN wanted'
  BY <1>3 DEF AfterProfile
<1>5. IsSeq(todo') /\ \A w \in ToSet(todo') : IsRequest(w) /\ w.tool \in HasXinput
  BY <1>1, <1>2, ProfileWrites
<1>6. CASE t \in HasXinput
  <2>1. wanted'[t] = After(t, had[t], dev, ProfileEntry(new, t, screen))
    BY <1>1, <1>3, <1>6 DEF AfterProfile, dev
  <2>2. Covers(t, dev, todo', ProfileEntry(new, t, screen))
    BY <1>1, <1>2, <1>6, ProfileCovers
  <2>3. Leads(t, dev, todo', had[t], wanted'[t], TRUE)
    BY <1>5, <2>1, <2>2, CoversLeads DEF IsRequest
  <2> QED BY <1>4, <2>3 DEF dev
<1>7. CASE t \notin HasXinput
  <2>1. wanted'[t] = had[t]
    BY <1>1, <1>3, <1>7 DEF AfterProfile
  <2>2. \A w \in ToSet(todo') : w.tool # t
    BY <1>5, <1>7
  <2>3. Leads(t, dev, todo', had[t], had[t], TRUE)
    BY <2>2, NothingLeads
  <2> QED BY <1>4, <2>1, <2>3 DEF dev
<1> QED BY <1>6, <1>7

LEMMA TabletAddedControl ==
    ASSUME IInv, TypeInv', NEW serial \in DOMAIN Scan, NEW prof \in Profiles,
           TabletAdded(serial, prof)
    PROVE  ControlInv'
<1> DEFINE devs == Scan[serial].devs
           had == [t \in DOMAIN devs |-> Held(devs[t].id)]
<1>1. /\ SetProfile(devs, had, prof) /\ backend' = CreateBackend(devs)
      /\ UNCHANGED <<list, driver, kcm, crossed>>
  BY DEF TabletAdded, kcmVars
<1>2. TypeInv
  BY DEF IInv
<1>3. backend'.devs = devs
  BY <1>1 DEF CreateBackend
<1>4. IsControlled(CreateBackend(devs)) /\ \A t \in DOMAIN devs : IsListed(devs[t])
  BY <1>2, ScanIsControlled DEF TypeInv
<1>5. \A t \in DOMAIN devs : had[t] = Held(devs[t].id)
  OBVIOUS
<1> HIDE DEF devs, had
<1>6. DOMAIN devs \subseteq Types
  BY <1>1, <1>3, <1>4 DEF IsControlled
<1>7. ASSUME NEW t \in DOMAIN devs
      PROVE  /\ IsListed(devs[t]) /\ t \in DOMAIN wanted'
             /\ Leads(t, At(devs[t].id), todo', Held(devs[t].id), wanted'[t],
                      devs[t].id \notin crossed)
  <2>1. /\ t \in DOMAIN wanted'
        /\ Leads(t, At(devs[t].id), todo', Held(devs[t].id), wanted'[t], TRUE)
    BY <1>1, <1>2, <1>5, <1>6, ProfileLeads
  <2>2. SameBut(Held(devs[t].id), Held(devs[t].id))
    BY DEF SameBut
  <2>3. Leads(t, At(devs[t].id), todo', Held(devs[t].id), wanted'[t], devs[t].id \notin crossed)
    BY <2>1, <2>2, LeadsFromSame
  <2> QED BY <1>4, <2>1, <2>3
<1> QED BY <1>1, <1>3, <1>7, AskControl

LEMMA ProfileSelectedControl ==
    ASSUME IInv, TypeInv', NEW prof \in Profiles, ProfileSelected(prof)
    PROVE  ControlInv'
<1>1. /\ SetProfile(backend.devs, wanted, prof) /\ todo = <<>>
      /\ UNCHANGED <<list, gone, driver, backend, kcm, crossed>>
  BY DEF ProfileSelected, Slot, xVars, kcmVars
<1>2. TypeInv /\ DOMAIN backend.devs \subseteq Types
  BY DEF IInv, TypeInv, DaemonInv, IsControlled
<1>3. \A t \in Tools :
          /\ t \in DOMAIN wanted'
          /\ Leads(t, At(backend.devs[t].id), todo', wanted[t], wanted'[t], TRUE)
  BY <1>1, <1>2, ProfileLeads DEF Tools
<1> QED BY <1>1, <1>3, AskedControl

LEMMA TabletRemovedControl ==
    ASSUME IInv, TabletRemoved
    PROVE  ControlInv'
<1>1. DOMAIN backend'.devs = {}
  BY TabletRemovedTypes DEF IInv
<1> QED BY <1>1 DEF ControlInv, Tools

LEMMA ScreenRotatedControl ==
    ASSUME IInv, TypeInv', NEW turn \in Real, ScreenRotated(turn)
    PROVE  ControlInv'
<1> DEFINE devs == backend.devs
<1>1. /\ todo' = RotationWrites(devs, profile, turn) \o MapWrites(devs, profile)
      /\ todo = <<>>
      /\ wanted' = AfterRotation(devs, wanted, profile, turn)
      /\ UNCHANGED <<list, gone, driver, backend, kcm, crossed>>
  BY DEF ScreenRotated, Slot, xVars, kcmVars
<1>2. IsProfile(profile) /\ DOMAIN profile = HasXinput
  BY ProfileIs DEF IInv, TypeInv, DaemonInv
<1>3. IsSeq(todo') /\ \A w \in ToSet(todo') : IsRequest(w) /\ w.tool \in HasXinput
  BY <1>1, <1>2, RotatedWrites
<1>4. ASSUME NEW t \in DOMAIN devs
      PROVE  t \in DOMAIN wanted' /\ Leads(t, At(devs[t].id), todo', wanted[t], wanted'[t], TRUE)
  <2> DEFINE dev == At(devs[t].id)
  <2>1. t \in DOMAIN wanted'
    BY <1>1 DEF AfterRotation
  <2>2. CASE t \in HasXinput
    <3>1. wanted'[t] = After(t, wanted[t], dev, RotationEntry(profile, t, turn))
      BY <1>1, <1>2, <2>2 DEF AfterRotation
    <3> HIDE DEF dev, devs
    <3>2. Covers(t, dev, todo', RotationEntry(profile, t, turn))
      BY <1>1, <1>2, <2>2, RotationCovers
    <3>3. Leads(t, dev, todo', wanted[t], wanted'[t], TRUE)
      BY <1>3, <3>1, <3>2, CoversLeads DEF IsRequest
    <3> QED BY <2>1, <3>3 DEF dev
  <2>3. CASE t \notin HasXinput
    <3>1. wanted'[t] = wanted[t]
      BY <1>1, <1>2, <2>3 DEF AfterRotation
    <3>2. \A w \in ToSet(todo') : w.tool # t
      BY <1>3, <2>3
    <3> HIDE DEF dev, devs
    <3>3. Leads(t, dev, todo', wanted[t], wanted[t], TRUE)
      BY <3>2, NothingLeads
    <3> QED BY <2>1, <3>1, <3>3 DEF dev
  <2> QED BY <2>2, <2>3
<1>5. \A t \in Tools :
          /\ t \in DOMAIN wanted'
          /\ Leads(t, At(backend.devs[t].id), todo', wanted[t], wanted'[t], TRUE)
  BY <1>4 DEF Tools
<1> QED BY <1>1, <1>5, AskedControl

\* One property of one tool is asked for: what is written is that, or neither can be.
LEMMA OneAsked ==
    ASSUME IInv, TypeInv', UNCHANGED <<list, gone, driver, backend, kcm, crossed>>, todo = <<>>,
           NEW tool \in Tools, NEW p \in Property, NEW v, NEW u,
           todo' = <<W(tool, p, v)>>,
           wanted' = [wanted EXCEPT ![tool] =
                         After(tool, wanted[tool], At(backend.devs[tool].id), PropertyEntry(p, u))],
           ~gone => \/ v = u
                    \/ /\ ~Possible(tool, At(backend.devs[tool].id), p, v)
                       /\ ~Possible(tool, At(backend.devs[tool].id), p, u)
    PROVE  ControlInv'
<1> DEFINE w == W(tool, p, v)
<1>1. w.tool = tool /\ w.prop = p
  BY WIs
<1>2. IsSeq(<<w>>) /\ ToSet(<<w>>) = {w}
  BY SingleIsSeq
<1>3. ASSUME ~gone, NEW t \in Tools
      PROVE  t \in DOMAIN wanted' /\ Leads(t, At(backend.devs[t].id), todo', wanted[t], wanted'[t], TRUE)
  <2> DEFINE dev == At(backend.devs[t].id)
  <2>1. t \in DOMAIN wanted
    BY <1>3 DEF IInv, ControlInv
  <2>2. CASE t = tool
    <3>1. wanted'[t] = After(t, wanted[t], dev, PropertyEntry(p, u))
      BY <2>1, <2>2
    <3>2. v = u \/ (~Possible(t, dev, p, v) /\ ~Possible(t, dev, p, u))
      BY <1>3, <2>2
    <3> HIDE DEF dev
    <3>3. Covers(t, dev, <<W(t, p, v)>>, PropertyEntry(p, u))
      BY <3>2, OneCovers
    <3>4. Covers(t, dev, todo', PropertyEntry(p, u)) /\ IsSeq(todo')
          /\ \A x \in ToSet(todo') : x.prop \in Property
      BY <1>1, <1>2, <2>2, <3>3
    <3>5. Leads(t, dev, todo', wanted[t], wanted'[t], TRUE)
      BY <3>1, <3>4, CoversLeads
    <3> QED BY <2>1, <3>5 DEF dev
  <2>3. CASE t # tool
    <3>1. wanted'[t] = wanted[t]
      BY <2>1, <2>3
    <3>2. \A x \in ToSet(todo') : x.tool # t
      BY <1>1, <1>2, <2>3
    <3> HIDE DEF dev
    <3>3. Leads(t, dev, todo', wanted[t], wanted[t], TRUE)
      BY <3>2, NothingLeads
    <3> QED BY <2>1, <3>1, <3>3 DEF dev
  <2> QED BY <2>2, <2>3
<1> QED BY <1>3, AskedControl

LEMMA SetPropertyControl ==
    ASSUME IInv, TypeInv', NEW a \in Asked, SetProperty(a[1], a[2], a[3])
    PROVE  ControlInv'
<1> DEFINE tool == a[1]
           p == a[2]
           v == a[3]
<1>1. /\ todo = <<>> /\ todo' = <<W(tool, p, v)>> /\ tool \in Tools
      /\ wanted' = [wanted EXCEPT ![tool] =
                       After(tool, wanted[tool], At(backend.devs[tool].id), PropertyEntry(p, v))]
      /\ UNCHANGED <<list, gone, driver, backend, kcm, crossed>>
  BY DEF SetProperty, Slot, xVars, kcmVars
<1>2. p \in Property
  <2>1. a \in Types \X Property \X {a[3]}
    BY AskedAssumption
  <2> QED BY <2>1
<1> HIDE DEF tool, p, v
<1> QED BY <1>1, <1>2, OneAsked

\* What is turned round is what was asked for: the driver has it, or cannot have it.
LEMMA OnToggleTouchControl ==
    ASSUME IInv, TypeInv', OnToggleTouch
    PROVE  ControlInv'
<1> DEFINE t == "touch"
           p == "Touch"
           id == backend.devs[t].id
           u == IF wanted[t].Touch = "off" THEN "on" ELSE "off"
<1>1. /\ todo = <<>> /\ todo' = <<W(t, p, Toggled)>> /\ t \in Tools
      /\ wanted' = [wanted EXCEPT ![t] = After(t, wanted[t], At(id), PropertyEntry(p, u))]
      /\ UNCHANGED <<list, gone, driver, backend, kcm, crossed>>
  BY DEF OnToggleTouch, Slot, xVars, kcmVars
<1>2. p \in Property /\ p \in XsetwacomProperties /\ p \in Others
  BY DEF Property, XsetwacomProperties, Others
<1>3. ASSUME ~gone, p \in At(id).has PROVE Toggled = u
  <2>1. IsListed(backend.devs[t]) /\ ToolInv(t, id)
    BY <1>1, <1>3 DEF IInv, ControlInv
  <2>2. FindDevice(NameOf(t)) = id /\ id \in XID /\ id # 0
    BY <1>1, <2>1, ToolDevice DEF IInv, TypeInv, DaemonInv
  <2> HIDE DEF id
  <2>3. Leads(t, At(id), <<>>, Held(id), wanted[t], id \notin crossed)
    BY <1>1, <2>1 DEF ToolInv
  <2>4. SameBut(Held(id), wanted[t])
    BY <2>3, LeadsToEnd
  <2>5. SameBut(Held(id), driver[id])
    BY <2>2, HeldIs DEF IInv
  <2>6. driver[id][p] = wanted[t][p]
    BY <1>2, <2>4, <2>5 DEF SameBut
  <2>7. GetProperty(t, p) = driver[id][p]
    BY <1>2, <1>3, <2>2 DEF GetProperty, ReadByXsetwacom, HasProperty, Closed
  <2> QED BY <2>6, <2>7 DEF Toggled
<1>4. p \notin At(id).has => ~Possible(t, At(id), p, Toggled) /\ ~Possible(t, At(id), p, u)
  BY DEF Possible
<1> HIDE DEF u
<1> QED BY <1>1, <1>2, <1>3, <1>4, OneAsked

\* What is written to another tool ends elsewhere, and what is written to the tool ends at
\* its device or is refused.
LEMMA EndsElsewhere ==
    ASSUME TypeInv, \A u \in Tools : IsListed(backend.devs[u]), NEW t \in Tools,
           NEW w, IsRequest(w), ~Lands(t, At(backend.devs[t].id), w)
    PROVE  Target(w) # backend.devs[t].id
<1> DEFINE id == backend.devs[t].id
<1>1. ListInv /\ IsControlled(backend)
  BY DEF TypeInv, DaemonInv
<1>2. id # 0
  BY <1>1, ToolDevice
<1>3. CASE w.tool = t
  <2>1. Target(w) = 0
    BY <1>1, <1>3, TargetOfTool
  <2> QED BY <1>2, <2>1
<1>4. CASE w.tool # t /\ w.tool \in Tools
  <2>1. Target(w) \in {0, backend.devs[w.tool].id}
    BY <1>1, <1>4, TargetOfTool
  <2>2. backend.devs[w.tool].id # id
    BY <1>1, <1>4 DEF IsControlled, Tools
  <2> QED BY <1>2, <2>1, <2>2
<1>5. CASE w.tool \notin Tools
  BY <1>1, <1>2, <1>5, TargetOfOther
<1> QED BY <1>3, <1>4, <1>5

LEMMA WrittenSame ==
    ASSUME NEW d, NEW e, DOMAIN d = Property, DOMAIN e = Property, SameBut(d, e),
           NEW w, w.prop \in Property
    PROVE  SameBut(Written(d, w), Written(e, w))
<1>1. /\ \A p \in Others : p # w.prop => Written(d, w)[p] = d[p]
      /\ w.prop \in Others => Written(d, w)[w.prop] = Taken(w.prop, w.value)
  BY WrittenIs
<1>2. /\ \A p \in Others : p # w.prop => Written(e, w)[p] = e[p]
      /\ w.prop \in Others => Written(e, w)[w.prop] = Taken(w.prop, w.value)
  BY WrittenIs
<1> QED BY <1>1, <1>2 DEF SameBut

LEMMA ApplyControl ==
    ASSUME IInv, TypeInv', Apply
    PROVE  ControlInv'
<1> DEFINE w == Head(todo)
           to == Target(w)
<1>1. /\ todo # <<>> /\ IsSeq(todo) /\ todo' = Tail(todo) /\ IsRequest(w)
      /\ kcm' = [kcm EXCEPT !.alone = kcm.alone /\ ~Clash(w, to)]
      /\ crossed' = IF Clash(w, to) THEN crossed \cup {to}
                    ELSE IF w.prop = "Area" THEN crossed \ {to} ELSE crossed
      /\ UNCHANGED <<list, gone, backend, wanted>>
  BY ApplyIs DEF IInv
<1>2. /\ TypeInv /\ DOMAIN kcm = {"step", "id", "previous", "read", "alone"}
      /\ w.prop \in Property
  BY <1>1 DEF IInv, TypeInv, KcmInv, IsRequest
<1>3. kcm'.id = kcm.id /\ kcm'.previous = kcm.previous
  BY <1>1, <1>2
<1>4. ASSUME NEW x \in XID
      PROVE  /\ to # x => driver'[x] = driver[x]
             /\ to = x => driver'[x] = Written(driver[x], w)
             /\ ~(to = x /\ w.prop \in {"Rotate", "Area"}) => driver'[x].Area = driver[x].Area
  BY <1>2, ApplyTo
<1> SUFFICES ASSUME ~gone', NEW t \in Tools
             PROVE  /\ IsListed(backend.devs[t])' /\ t \in DOMAIN wanted
                    /\ ToolInv(t, backend.devs[t].id)'
  BY <1>1 DEF ControlInv, Tools
<1>5. \A u \in Tools : IsListed(backend.devs[u]) /\ u \in DOMAIN wanted /\ ToolInv(u, backend.devs[u].id)
  BY <1>1 DEF IInv, ControlInv
<1>6. backend.devs[t].id \in XID
  BY <1>2 DEF TypeInv, DaemonInv, IsControlled, Tools
<1>7. Lands(t, At(backend.devs[t].id), w) => to = backend.devs[t].id
  <2>1. ListInv /\ IsControlled(backend)
    BY <1>2 DEF TypeInv, DaemonInv
  <2> HIDE DEF w
  <2> QED BY <1>1, <1>5, <2>1, TargetOfTool DEF Lands
<1>8. ~Lands(t, At(backend.devs[t].id), w) => to # backend.devs[t].id
  <2> HIDE DEF w
  <2> QED BY <1>1, <1>2, <1>5, EndsElsewhere
<1>9. ASSUME NEW id \in XID, id = backend.devs[t].id PROVE ToolInv(t, id)'
  <2>1. Leads(t, At(id), todo, Held(id), wanted[t], id \notin crossed)
    BY <1>5, <1>9 DEF ToolInv
  <2>2. /\ SameBut(Held(id), driver[id]) /\ Held(id).Area = HeldArea(id)
        /\ DOMAIN Held(id) = Property /\ (kcm.id # id => Held(id) = driver[id])
    BY <1>2, HeldIs
  <2>3. /\ SameBut(Held(id)', driver'[id]) /\ Held(id)'.Area = HeldArea(id)'
        /\ (kcm'.id # id => Held(id)' = driver'[id])
    BY HeldThenIs
  <2>4. HeldArea(id) = IF kcm.id = id THEN kcm.previous ELSE driver[id].Area
    BY DEF HeldArea
  <2>5. HeldArea(id)' = IF kcm.id = id THEN kcm.previous ELSE driver'[id].Area
    BY <1>3 DEF HeldArea
  <2>6. ToolInv(t, id)' <=> Leads(t, At(id), Tail(todo), Held(id)', wanted[t], id \notin crossed')
    <3>1. At(id)' = At(id)
      BY <1>1 DEF At, Ids
    <3> QED BY <1>1, <3>1 DEF ToolInv
  <2>7. DOMAIN driver[id] = Property
    BY <1>2, AreaOfDriver
  <2>8. CASE Lands(t, At(id), w)
    <3>1. to = id
      BY <1>7, <1>9, <2>8
    <3>2. id \notin crossed' => id \notin crossed \/ w.prop = "Area"
      BY <1>1
    <3>3. Leads(t, At(id), Tail(todo), Written(Held(id), w), wanted[t], id \notin crossed')
      BY <1>1, <1>2, <2>1, <2>2, <2>8, <3>2, LeadsWritten
    <3> HIDE DEF w, to
    <3>4. driver'[id] = Written(driver[id], w)
      BY <1>4, <3>1
    <3>5. SameBut(Written(Held(id), w), Written(driver[id], w))
      BY <1>2, <2>2, <2>7, WrittenSame
    <3>6. SameBut(Held(id)', Written(Held(id), w))
      BY <2>3, <3>4, <3>5 DEF SameBut
    <3>7. ASSUME id \notin crossed' PROVE Held(id)'.Area = Written(Held(id), w).Area
      <4>1. CASE kcm.id # id
        BY <1>3, <2>2, <2>3, <3>4, <4>1
      <4>2. CASE kcm.id = id
        <5>1. w.prop \notin {"Rotate", "Area"}
          BY <1>1, <1>2, <1>6, <3>1, <3>7, <4>2, DeviceAssumption DEF Clash
        <5>2. Written(Held(id), w).Area = Held(id).Area
          BY <1>2, <2>2, <5>1, WrittenIs
        <5> QED BY <2>2, <2>3, <2>4, <2>5, <4>2, <5>2
      <4> QED BY <4>1, <4>2
    <3>8. Leads(t, At(id), Tail(todo), Held(id)', wanted[t], id \notin crossed')
      BY <3>3, <3>6, <3>7, LeadsFromSame
    <3> QED BY <2>6, <3>8
  <2>9. CASE ~Lands(t, At(id), w)
    <3>1. to # id
      BY <1>8, <1>9, <2>9
    <3>2. Leads(t, At(id), Tail(todo), Held(id), wanted[t], id \notin crossed)
      BY <1>1, <2>1, <2>9, LeadsPast
    <3> HIDE DEF w, to
    <3>3. driver'[id] = driver[id]
      BY <1>4, <3>1
    <3>4. id \notin crossed' => id \notin crossed
      BY <1>1, <3>1
    <3>5. SameBut(Held(id)', Held(id))
      BY <2>2, <2>3, <3>3 DEF SameBut
    <3>6. Held(id)'.Area = Held(id).Area
      BY <2>2, <2>3, <2>4, <2>5, <3>3
    <3>7. Leads(t, At(id), Tail(todo), Held(id)', wanted[t], id \notin crossed')
      BY <3>2, <3>4, <3>5, <3>6, LeadsFromSame
    <3> QED BY <2>6, <3>7
  <2> QED BY <2>8, <2>9
<1>10. IsListed(backend.devs[t])'
  BY <1>1, <1>5 DEF IsListed
<1>11. ToolInv(t, backend.devs[t].id)'
  BY <1>1, <1>6, <1>9
<1> QED BY <1>5, <1>10, <1>11

-----------------------------------------------------------------------------
(* The invariant. *)

LEMMA InitTypes == Init => TypeInv
<1> SUFFICES ASSUME Init PROVE TypeInv
  OBVIOUS
<1>1. ListInv
  <2>1. <<>> \in Seq(Listed)
    OBVIOUS
  <2>2. IsList(<<>>)
    BY <2>1, EmptyIsSeq DEF IsList
  <2> QED BY <2>2 DEF Init, ListInv
<1>2. DriverInv
  BY FreshIsState DEF Init, DriverInv
<1>3. KcmInv
  BY MaximumIsArea DEF Init, KcmInv, Idle
<1>4. DaemonInv
  <2>1. IsControlled(backend)
    BY NoBackendControlled DEF Init
  <2>2. IsProfile(profile)
    BY ProfileAssumption DEF Init
  <2>3. IsSeq(todo) /\ \A w \in ToSet(todo) : IsRequest(w)
    BY EmptyIsSeq DEF Init
  <2>4. screen \in Real /\ gone \in BOOLEAN /\ crossed \subseteq XID /\ led \in [0..1 -> 0..3]
    <3>1. [side \in 0..1 |-> 0] \in [0..1 -> 0..3]
      OBVIOUS
    <3>2. "none" \in Real
      BY DEF Real
    <3> QED BY <3>1, <3>2 DEF Init
  <2> QED BY <2>1, <2>2, <2>3, <2>4 DEF DaemonInv
<1> QED BY <1>1, <1>2, <1>3, <1>4 DEF TypeInv

LEMMA InitInvariant == Init => IInv
BY InitTypes, InitMeasures, InitControl DEF IInv

\* The X server.
LEMMA XServerKeeps ==
    ASSUME IInv, XServer
    PROVE  IInv'
<1>1. TypeInv /\ MeasureInv /\ HeldInv
  BY DEF IInv
<1>2. CASE \E id \in XID, d \in XDev : Plug(id, d)
  <2>1. PICK id \in XID, d \in XDev : Plug(id, d)
    BY <1>2
  <2>2. TypeInv' /\ MeasureInv' /\ HeldInv'
    BY <1>1, <2>1, PlugTypes, PlugMeasures
  <2> QED BY <2>1, <2>2, PlugControl DEF IInv
<1>3. CASE \E i \in DOMAIN list : Unplug(i)
  <2>1. PICK i \in DOMAIN list : Unplug(i)
    BY <1>3
  <2>2. TypeInv' /\ MeasureInv' /\ HeldInv'
    BY <1>1, <2>1, UnplugTypes, UnplugMeasures
  <2> QED BY <2>1, <2>2, UnplugControl DEF IInv
<1> QED BY <1>2, <1>3 DEF XServer

\* The daemon.
LEMMA DaemonKeeps ==
    ASSUME IInv, Daemon
    PROVE  IInv'
<1>1. TypeInv /\ MeasureInv /\ HeldInv
  BY DEF IInv
<1>2. ASSUME NEW serial \in DOMAIN Scan, NEW prof \in Profiles, TabletAdded(serial, prof)
      PROVE  IInv'
  <2>1. TypeInv'
    BY <1>1, <1>2, TabletAddedTypes
  <2>2. ControlInv'
    BY <1>2, <2>1, TabletAddedControl
  <2>3. UNCHANGED <<list, driver, kcmVars, crossed>>
    BY <1>2 DEF TabletAdded
  <2> QED BY <1>1, <2>1, <2>2, <2>3, MeasureUnchanged DEF IInv
<1>3. ASSUME NEW prof \in Profiles, ProfileSelected(prof)
      PROVE  IInv'
  <2>1. TypeInv'
    BY <1>1, <1>3, ProfileSelectedTypes
  <2>2. ControlInv'
    BY <1>3, <2>1, ProfileSelectedControl
  <2>3. UNCHANGED <<list, driver, kcmVars, crossed>>
    BY <1>3 DEF ProfileSelected, xVars
  <2> QED BY <1>1, <2>1, <2>2, <2>3, MeasureUnchanged DEF IInv
<1>4. CASE TabletRemoved
  <2>1. TypeInv'
    BY <1>1, <1>4, TabletRemovedTypes
  <2>2. ControlInv'
    BY <1>4, TabletRemovedControl
  <2>3. UNCHANGED <<list, driver, kcmVars, crossed>>
    BY <1>4 DEF TabletRemoved
  <2> QED BY <1>1, <2>1, <2>2, <2>3, MeasureUnchanged DEF IInv
<1>5. ASSUME NEW turn \in Real, ScreenRotated(turn)
      PROVE  IInv'
  <2>1. TypeInv'
    BY <1>1, <1>5, ScreenRotatedTypes
  <2>2. ControlInv'
    BY <1>5, <2>1, ScreenRotatedControl
  <2>3. UNCHANGED <<list, driver, kcmVars, crossed>>
    BY <1>5 DEF ScreenRotated, xVars
  <2> QED BY <1>1, <2>1, <2>2, <2>3, MeasureUnchanged DEF IInv
<1>6. ASSUME NEW a \in Asked, SetProperty(a[1], a[2], a[3])
      PROVE  IInv'
  <2>1. TypeInv'
    BY <1>1, <1>6, SetPropertyTypes
  <2>2. ControlInv'
    BY <1>6, <2>1, SetPropertyControl
  <2>3. UNCHANGED <<list, driver, kcmVars, crossed>>
    BY <1>6 DEF SetProperty, xVars
  <2> QED BY <1>1, <2>1, <2>2, <2>3, MeasureUnchanged DEF IInv
<1>7. CASE OnToggleTouch
  <2>1. TypeInv'
    BY <1>1, <1>7, OnToggleTouchTypes
  <2>2. ControlInv'
    BY <1>7, <2>1, OnToggleTouchControl
  <2>3. UNCHANGED <<list, driver, kcmVars, crossed>>
    BY <1>7 DEF OnToggleTouch, xVars
  <2> QED BY <1>1, <2>1, <2>2, <2>3, MeasureUnchanged DEF IInv
<1>8. CASE Apply
  <2>1. TypeInv' /\ MeasureInv' /\ HeldInv'
    BY <1>1, <1>8, ApplyTypes, ApplyMeasures
  <2> QED BY <1>8, <2>1, ApplyControl DEF IInv
<1> QED BY <1>2, <1>3, <1>4, <1>5, <1>6, <1>7, <1>8 DEF Daemon

\* The settings module.
LEMMA SettingsModuleKeeps ==
    ASSUME IInv, SettingsModule
    PROVE  IInv'
<1>1. TypeInv /\ MeasureInv /\ HeldInv
  BY DEF IInv
<1>2. ASSUME NEW name, MeasureStart(name)
      PROVE  IInv'
  <2>1. TypeInv' /\ MeasureInv' /\ HeldInv'
    BY <1>1, <1>2, MeasureStartTypes, MeasureStartMeasures
  <2> QED BY <1>2, <2>1, MeasureStartControl DEF IInv
<1>3. ASSUME NEW taken \in BOOLEAN, MeasureReset(taken)
      PROVE  IInv'
  <2>1. TypeInv' /\ MeasureInv' /\ HeldInv'
    BY <1>1, <1>3, MeasureResetTypes, MeasureResetMeasures
  <2> QED BY <1>3, <2>1, MeasureResetControl DEF IInv
<1>4. CASE MeasureRead
  <2>1. TypeInv' /\ MeasureInv' /\ HeldInv'
    BY <1>1, <1>4, MeasureReadTypes, MeasureReadMeasures
  <2> QED BY <1>4, <2>1, MeasureReadControl DEF IInv
<1>5. CASE MeasureRestore
  <2>1. TypeInv' /\ MeasureInv' /\ HeldInv'
    BY <1>1, <1>5, MeasureRestoreTypes, MeasureRestoreMeasures
  <2> QED BY <1>5, <2>1, MeasureRestoreControl DEF IInv
<1> QED BY <1>2, <1>3, <1>4, <1>5 DEF SettingsModule

LEMMA StutterKeeps ==
    ASSUME IInv, UNCHANGED vars
    PROVE  IInv'
<1>1. UNCHANGED <<list, driver, backend, profile, todo, screen, led, kcm, measured, wanted,
                  crossed, gone>>
  BY DEF vars
<1>2. ListInv' /\ DriverInv' /\ KcmInv' /\ DaemonInv'
  BY <1>1 DEF IInv, TypeInv, ListInv, DriverInv, KcmInv, DaemonInv
<1>3. TypeInv /\ TypeInv' /\ MeasureInv /\ HeldInv
  BY <1>2 DEF IInv, TypeInv
<1>4. MeasureInv' /\ HeldInv'
  BY <1>1, <1>3, MeasureUnchanged DEF kcmVars
<1>5. ControlInv'
  BY <1>1, <1>3, KeepsAll, ControlKept DEF SameBut, HeldArea
<1> QED BY <1>3, <1>4, <1>5 DEF IInv

\* Whatever X server, daemon and settings module do, in whatever order: the invariant
\* holds, with it that no request is lost or overtaken on its way to the driver.
THEOREM InvariantHolds == Spec => []IInv
<1>1. IInv /\ [Next]_vars => IInv'
  BY XServerKeeps, DaemonKeeps, SettingsModuleKeeps, StutterKeeps DEF Next
<1> QED BY <1>1, InitInvariant, PTL DEF Spec

-----------------------------------------------------------------------------
(* What follows from it. *)

\* Whatever profiles and D-Bus clients ask for, the driver holds values that mean
\* something, the daemon writes properties there are, and its handles are open on
\* devices of the tablet (TabletBackend, X11InputDevice).
THEOREM TypeCorrect == Spec => []TypeOK
<1>1. IInv => TypeOK
  <2> SUFFICES ASSUME TypeInv PROVE TypeOK
    BY DEF IInv
  <2>1. \A id \in XID, p \in Property : driver[id][p] \in Value(p)
    <3>1. 0..(Word - 1) \subseteq Int
      OBVIOUS
    <3>2. \A p : Stored(p) \subseteq Value(p)
      BY <3>1 DEF Stored, Value
    <3> QED BY <3>2 DEF TypeInv, DriverInv, IsState
  <2>2. /\ Tools \subseteq Types
        /\ \A t \in Tools : backend.devs[t].id \in XID
        /\ \A t \in Tools \cap HasXinput : backend.handles[t] \in XID
    BY DEF TypeInv, DaemonInv, IsControlled, Tools
  <2>3. \A i \in DOMAIN todo : todo[i].prop \in Property
    <3>1. \A w \in ToSet(todo) : w.prop \in Property
      BY DEF TypeInv, DaemonInv, IsRequest
    <3> QED BY <3>1 DEF ToSet
  <2>4. crossed \subseteq XID /\ \A side \in 0..1 : led[side] \in 0..3
    BY DEF TypeInv, DaemonInv
  <2> QED BY <2>1, <2>2, <2>3, <2>4 DEF TypeOK
<1> QED BY <1>1, InvariantHolds, PTL

\* A measurement nobody came between takes nothing but the whole tablet for the maximum:
\* between the requests of X11Wacom::getMaximumTabletArea the area in the driver is
\* that, or what was written (X11Wacom).
THEOREM MeasuresWholeAlways == Spec => []MeasuresWhole
<1>1. IInv => MeasuresWhole
  BY DEF IInv, MeasureInv
<1> QED BY <1>1, InvariantHolds, PTL

\* Reading what the driver has, through the adaptors.
LEMMA ReadsBack ==
    ASSUME TypeInv, NEW t \in Tools, IsListed(backend.devs[t]), NEW id, id = backend.devs[t].id,
           NEW p \in Property, p # "ScreenSpace", NEW v, Possible(t, At(id), p, v)
    PROVE  GetProperty(t, p) = driver[id][p]
<1>1. /\ FindDevice(NameOf(t)) = id /\ id \in XID /\ id # 0
      /\ HandleOf(t) = IF t \in HasXinput THEN id ELSE 0
  BY ToolDevice DEF TypeInv, DaemonInv
<1>2. driver[id][p] \in Stored(p)
  BY <1>1 DEF TypeInv, DriverInv, IsState
<1>3. CASE p \in XsetwacomProperties
  <2>1. p \in At(id).has
    BY <1>3 DEF Possible, XsetwacomProperties
  <2> QED BY <1>1, <1>3, <2>1 DEF GetProperty, ReadByXsetwacom, HasProperty, Closed
<1>4. CASE p \in XinputProperties
  <2>1. p \notin XsetwacomProperties /\ t \in HasXinput /\ HandleOf(t) = id
    BY <1>1, <1>4 DEF XsetwacomProperties, XinputProperties, Possible
  <2>2. GetProperty(t, p) = ReadByXinput(t, p)
    BY <2>1 DEF GetProperty
  <2>3. CASE p = "InvertScroll"
    <3>1. At(id).buttons >= 5
      BY <2>3 DEF Possible
    <3>2. ScrollDevice(t) = id
      BY <1>1, <3>1 DEF ScrollDevice, ButtonCount, Closed
    <3>3. ReadByXinput(t, p) = IF driver[id].InvertScroll = "on" THEN "on" ELSE "off"
      BY <1>1, <2>1, <2>3, <3>2 DEF ReadByXinput, IsScrollDirectionInverted, Closed
    <3>4. driver[id].InvertScroll \in {"on", "off"}
      BY <1>2, <2>3 DEF Stored, Value, Switch
    <3> QED BY <2>2, <2>3, <3>3, <3>4
  <2>4. CASE p = "CursorAccelProfile"
    <3>1. p \in At(id).has
      BY <2>4 DEF Possible
    <3>2. ReadByXinput(t, p) = AsLong(driver[id][p])
      BY <1>1, <2>1, <2>4, <3>1 DEF ReadByXinput, Readable, HasProperty, Closed
    <3>3. driver[id][p] \in 0..(Word - 1)
      BY <1>2, <2>4 DEF Stored
    <3>4. AsLong(driver[id][p]) = driver[id][p]
      BY <3>3, NumberAssumption DEF AsLong
    <3> QED BY <2>2, <3>2, <3>4
  <2> QED BY <1>4, <2>3, <2>4 DEF XinputProperties
<1> QED BY <1>3, <1>4 DEF Property

\* However devices, screen, clients, profiles and measurements interleave with the
\* writes, when these are made every tool of the tablet has what was asked of it last,
\* the area laid on the tablet as it is turned, and the adaptors read that
\* (TabletBackend::setProfile, TabletHandler::setProfile, onScreenRotated).
THEOREM AsAskedAlways == Spec => []TabletDoesAsAsked
<1>1. IInv => TabletDoesAsAsked
  <2> SUFFICES ASSUME IInv, todo = <<>>, ~gone, NEW t \in Tools, NEW p \in Property,
                      p = "Area" => backend.devs[t].id # kcm.id /\ backend.devs[t].id \notin crossed
               PROVE  /\ driver[backend.devs[t].id][p] = wanted[t][p]
                      /\ (p # "ScreenSpace"
                            /\ Possible(t, At(backend.devs[t].id), p, wanted[t][p])) =>
                             GetProperty(t, p) = driver[backend.devs[t].id][p]
    BY DEF TabletDoesAsAsked
  <2> DEFINE id == backend.devs[t].id
  <2>1. TypeInv /\ IsListed(backend.devs[t]) /\ ToolInv(t, id)
    BY DEF IInv, ControlInv
  <2>2. id \in XID
    BY <2>1 DEF TypeInv, DaemonInv, IsControlled, Tools
  <2>3. Leads(t, At(id), <<>>, Held(id), wanted[t], id \notin crossed)
    BY <2>1 DEF ToolInv
  <2> HIDE DEF id
  <2>4. SameBut(Held(id), wanted[t]) /\ (id \notin crossed => Held(id).Area = wanted[t].Area)
    <3> DEFINE exact == id \notin crossed
    <3>1. Leads(t, At(id), <<>>, Held(id), wanted[t], exact)
      BY <2>3
    <3> HIDE DEF exact
    <3>2. SameBut(Held(id), wanted[t]) /\ (exact => Held(id).Area = wanted[t].Area)
      BY <3>1, LeadsToEnd
    <3> QED BY <3>2 DEF exact
  <2>5. SameBut(Held(id), driver[id]) /\ (kcm.id # id => Held(id) = driver[id])
    BY <2>1, <2>2, HeldIs
  <2>6. CASE p \in Others
    BY <2>1, <2>4, <2>5, <2>6, ReadsBack DEF SameBut, id
  <2>7. CASE p = "Area"
    <3>1. driver[id].Area = wanted[t].Area
      BY <2>4, <2>5, <2>7 DEF id
    <3> QED BY <2>1, <2>7, <3>1, ReadsBack DEF id
  <2> QED BY <2>6, <2>7, OthersAre
<1> QED BY <1>1, InvariantHolds, PTL

-----------------------------------------------------------------------------
(* The mapping of a tablet to the screens: ScreenMapping. *)

\* The inductive invariant.
MappingInv == MappingTypeOK /\ MatrixFollowsProfile /\ EraserFollowsStylus

-----------------------------------------------------------------------------
(* The operators. *)

\* What goes with the stylus has a value for every tool.
LEMMA WithStylusType ==
    ASSUME NEW X, NEW f \in [AllTools -> X]
    PROVE  /\ WithStylus(f) \in [AllTools -> X]
           /\ WithStylus(f)["eraser"] = f["stylus"]
           /\ WithStylus(f)["stylus"] = f["stylus"]
           /\ WithStylus(f)["touch"] = f["touch"]
BY DEF WithStylus, AllTools

LEMMA ForType ==
    ASSUME NEW X, NEW tools, NEW new \in [AllTools -> X], NEW old \in [AllTools -> X]
    PROVE  /\ For(tools, new, old) \in [AllTools -> X]
           /\ \A t \in tools \cap Tool : For(tools, new, old)[t] = new[t]
BY ToolAssumption DEF For

\* mapDeviceToOutput saves the mapping and the mode of the tools and nothing else.
LEMMA SavedProfileIs ==
    ASSUME NEW scr, NEW prof \in Content, NEW tools,
           NEW space \in [AllTools -> Space], NEW m \in [AllTools -> Mode]
    PROVE  /\ SavedProfile(scr, prof, tools, space, m) \in Content
           /\ SavedProfile(scr, prof, tools, space, m)
                 = [space |-> For(tools, space, prof.space),
                    mode |-> For(tools, m, prof.mode), rotate |-> prof.rotate]
<1>1. /\ prof = [space |-> prof.space, mode |-> prof.mode, rotate |-> prof.rotate]
      /\ prof.space \in [AllTools -> Space]
      /\ prof.mode \in [AllTools -> Mode]
      /\ prof.rotate \in [AllTools -> Setting]
  BY DEF Content
<1>2. For(tools, space, prof.space) \in [AllTools -> Space]
  BY <1>1, ForType
<1>3. For(tools, m, prof.mode) \in [AllTools -> Mode]
  BY <1>1, ForType
<1> QED
  BY <1>1, <1>2, <1>3 DEF Content, SavedProfile

\* Of a profile that is applied to all tools: the eraser has what the stylus has.
LEMMA SavedForAll ==
    ASSUME NEW scr, NEW prof \in Content
    PROVE  LET p == SavedProfile(scr, prof, AllTools, WithStylus(prof.space), WithStylus(prof.mode))
           IN  /\ p \in Content
               /\ p.rotate = prof.rotate
               /\ \A t \in Tool : p.space[t] = WithStylus(prof.space)[t]
               /\ \A t \in Tool : p.mode[t] = WithStylus(prof.mode)[t]
               /\ "eraser" \in Tool /\ "stylus" \in Tool =>
                     /\ p.space["eraser"] = p.space["stylus"]
                     /\ p.mode["eraser"] = p.mode["stylus"]
<1> DEFINE sp == WithStylus(prof.space)
           mo == WithStylus(prof.mode)
           p == SavedProfile(scr, prof, AllTools, sp, mo)
<1>1. prof.space \in [AllTools -> Space] /\ prof.mode \in [AllTools -> Mode]
  BY DEF Content
<1>2. sp \in [AllTools -> Space] /\ mo \in [AllTools -> Mode]
  BY <1>1, WithStylusType
<1>3. sp["eraser"] = sp["stylus"] /\ mo["eraser"] = mo["stylus"]
  BY <1>1, WithStylusType
<1> HIDE DEF sp, mo
<1>4. /\ p \in Content
      /\ p = [space |-> For(AllTools, sp, prof.space),
              mode |-> For(AllTools, mo, prof.mode), rotate |-> prof.rotate]
  BY <1>2, SavedProfileIs
<1>5. \A t \in Tool : /\ t \in AllTools \cap Tool
                      /\ For(AllTools, sp, prof.space)[t] = sp[t]
                      /\ For(AllTools, mo, prof.mode)[t] = mo[t]
  BY ToolAssumption DEF For
<1> HIDE DEF p
<1>6. p.rotate = prof.rotate /\ \A t \in Tool : p.space[t] = sp[t] /\ p.mode[t] = mo[t]
  BY <1>4, <1>5
<1> QED
  BY <1>3, <1>4, <1>6 DEF p, sp, mo

\* Following screens that a tablet was mapped to before saves nothing: its profile
\* holds already what is saved.
LEMMA FollowingSavesNothing ==
    ASSUME NEW scr, NEW prof \in Content,
           "eraser" \in Tool =>
               /\ prof.space["eraser"] = prof.space["stylus"]
               /\ prof.mode["eraser"] = prof.mode["stylus"]
    PROVE  SavedProfile(scr, prof, AllTools, WithStylus(prof.space), WithStylus(prof.mode))
               = prof
<1> DEFINE sp == For(AllTools, WithStylus(prof.space), prof.space)
           mo == For(AllTools, WithStylus(prof.mode), prof.mode)
<1>1. /\ prof = [space |-> prof.space, mode |-> prof.mode, rotate |-> prof.rotate]
      /\ prof.space \in [AllTools -> Space]
      /\ prof.mode \in [AllTools -> Mode]
  BY DEF Content
<1>2. sp = prof.space /\ mo = prof.mode
  BY <1>1 DEF For, WithStylus, AllTools
<1>3. SavedProfile(scr, prof, AllTools, WithStylus(prof.space), WithStylus(prof.mode))
         = [space |-> sp, mode |-> mo, rotate |-> prof.rotate]
  BY DEF SavedProfile
<1> QED
  BY <1>1, <1>2, <1>3

LEMMA InvertType ==
    ASSUME NEW r \in Rotation
    PROVE  Invert(r) \in Rotation
BY DEF Invert, Rotation

\* autoRotateTablet only ever sets real rotations.
LEMMA TurnType ==
    ASSUME NEW scr \in ScreenMaps, NEW prof, NEW output
    PROVE  Turn(scr, prof, output) \in Rotation
<1>1. \A o \in DOMAIN scr : scr[o].orientation \in Rotation
  BY ContentAssumption DEF ScreenMaps, Screen
<1>2. "none" \in Rotation
  BY DEF Rotation
<1> QED
  BY <1>1, <1>2, InvertType DEF Turn

LEMMA AppliedRotationType ==
    ASSUME NEW prof \in Content, NEW turned \in [Tool -> Rotation]
    PROVE  AppliedRotation(prof, turned) \in [Tool -> Rotation]
BY DEF AppliedRotation

-----------------------------------------------------------------------------
(* The steps. *)

LEMMA MappingBegins == MappingInit => MappingInv
<1> SUFFICES ASSUME NEW content \in Contents,
                    screens \in ScreenMaps,
                    primary \in DOMAIN screens,
                    saved = SavedProfile(screens, content, AllTools,
                                  WithStylus(content.space), WithStylus(content.mode)),
                    matrix = [t \in Tool |-> MatrixOf(WithStylus(content.space)[t], screens)],
                    mode = [t \in Tool |-> WithStylus(content.mode)[t]],
                    rotation = AppliedRotation(content, [t \in Tool |->
                                   IF TurnsTablet(screens, content, NoOutput)
                                   THEN Turn(screens, content, NoOutput) ELSE "none"])
             PROVE  MappingInv
  BY DEF MappingInit
<1>1. content \in Content
  BY ContentAssumption
<1>2. /\ saved \in Content
      /\ \A t \in Tool : saved.space[t] = WithStylus(content.space)[t]
      /\ "eraser" \in Tool /\ "stylus" \in Tool =>
            /\ saved.space["eraser"] = saved.space["stylus"]
            /\ saved.mode["eraser"] = saved.mode["stylus"]
  BY <1>1, SavedForAll
<1>3. WithStylus(content.mode) \in [AllTools -> Mode]
  BY <1>1, WithStylusType DEF Content
<1>4. mode \in [Tool -> Mode]
  BY <1>3, ToolAssumption
<1>5. rotation \in [Tool -> Rotation]
  <2> DEFINE turned == [t \in Tool |-> IF TurnsTablet(screens, content, NoOutput)
                                       THEN Turn(screens, content, NoOutput) ELSE "none"]
  <2>1. turned \in [Tool -> Rotation]
    BY TurnType DEF Rotation
  <2> HIDE DEF turned
  <2>2. AppliedRotation(content, turned) \in [Tool -> Rotation]
    BY <1>1, <2>1, AppliedRotationType
  <2> QED
    BY <2>2 DEF turned
<1>6. MatrixFollowsProfile
  BY <1>2 DEF MatrixFollowsProfile
<1> QED
  BY <1>2, <1>4, <1>5, <1>6 DEF MappingInv, MappingTypeOK, EraserFollowsStylus

\* After the screens changed.
LEMMA FollowingKeeps ==
    ASSUME MappingInv, MapTabletToCurrent(screens', saved)
    PROVE  saved' \in Content /\ mode' \in [Tool -> Mode] /\ MatrixFollowsProfile'
           /\ EraserFollowsStylus'
<1>1. saved \in Content /\ mode \in [Tool -> Mode]
  BY DEF MappingInv, MappingTypeOK
<1>2. saved' = SavedProfile(screens', saved, AllTools,
                     WithStylus(saved.space), WithStylus(saved.mode))
  BY DEF MapTabletToCurrent, MapDevices
<1>3. /\ saved' \in Content
      /\ \A t \in Tool : saved'.space[t] = WithStylus(saved.space)[t]
      /\ "eraser" \in Tool /\ "stylus" \in Tool =>
            /\ saved'.space["eraser"] = saved'.space["stylus"]
            /\ saved'.mode["eraser"] = saved'.mode["stylus"]
  BY <1>1, <1>2, SavedForAll
<1>4. WithStylus(saved.mode) \in [AllTools -> Mode]
  BY <1>1, WithStylusType DEF Content
<1>5. mode' \in [Tool -> Mode]
  BY <1>1, <1>4, ToolAssumption DEF MapTabletToCurrent, MapDevices
<1>6. \A t \in Tool : matrix'[t] = MatrixOf(WithStylus(saved.space)[t], screens')
  BY ToolAssumption DEF MapTabletToCurrent, MapDevices
<1>7. MatrixFollowsProfile'
  BY <1>3, <1>6 DEF MatrixFollowsProfile
<1> QED
  BY <1>3, <1>5, <1>7 DEF EraserFollowsStylus


\* setProfile: the profile that is set may be any.
LEMMA SetProfileKeeps ==
    ASSUME MappingInv, NEW content \in Contents, SetProfileContent(content)
    PROVE  MappingInv'
<1>1. content \in Content /\ mode \in [Tool -> Mode] /\ screens \in ScreenMaps
  BY ContentAssumption DEF MappingInv, MappingTypeOK
<1>2. saved' = SavedProfile(screens, content, AllTools,
                     WithStylus(content.space), WithStylus(content.mode))
  BY DEF SetProfileContent, MapTabletToCurrent, MapDevices
<1>3. /\ saved' \in Content
      /\ \A t \in Tool : saved'.space[t] = WithStylus(content.space)[t]
      /\ "eraser" \in Tool /\ "stylus" \in Tool =>
            /\ saved'.space["eraser"] = saved'.space["stylus"]
            /\ saved'.mode["eraser"] = saved'.mode["stylus"]
  BY <1>1, <1>2, SavedForAll
<1>4. WithStylus(content.mode) \in [AllTools -> Mode]
  BY <1>1, WithStylusType DEF Content
<1>5. mode' \in [Tool -> Mode]
  BY <1>1, <1>4, ToolAssumption DEF SetProfileContent, MapTabletToCurrent, MapDevices
<1>6. \A t \in Tool : matrix'[t] = MatrixOf(WithStylus(content.space)[t], screens)
  BY ToolAssumption DEF SetProfileContent, MapTabletToCurrent, MapDevices
<1>7. UNCHANGED <<screens, primary>>
  BY DEF SetProfileContent, screenVars
<1>8. MatrixFollowsProfile'
  BY <1>3, <1>6, <1>7 DEF MatrixFollowsProfile
<1>9. rotation' \in [Tool -> Rotation]
  <2>1. AutoRotated(screens, content, NoOutput) \in [Tool -> Rotation]
    BY <1>1, TurnType DEF AutoRotated, MappingInv, MappingTypeOK
  <2>2. rotation' = AppliedRotation(content, AutoRotated(screens, content, NoOutput))
    BY DEF SetProfileContent
  <2> QED
    BY <1>1, <2>1, <2>2, AppliedRotationType
<1>10. screens' \in ScreenMaps /\ primary' \in DOMAIN screens'
  BY <1>7 DEF MappingInv, MappingTypeOK
<1> QED
  BY <1>3, <1>5, <1>8, <1>9, <1>10 DEF MappingInv, MappingTypeOK, EraserFollowsStylus

\* mapPenToScreenSpace, with the screen space of any of the shortcuts.
LEMMA MapPenKeeps ==
    ASSUME MappingInv, NEW space \in Space, MapPen(space)
    PROVE  MappingInv'
<1> DEFINE sp == [t \in AllTools |-> space]
           mo == [t \in AllTools |-> "absolute"]
<1>1. saved \in Content /\ mode \in [Tool -> Mode]
  BY DEF MappingInv, MappingTypeOK
<1>2. /\ saved' = SavedProfile(screens, saved, Pen, sp, mo)
      /\ matrix' = [t \in Tool |-> IF t \in Pen THEN MatrixOf(sp[t], screens) ELSE matrix[t]]
      /\ mode' = [t \in Tool |-> IF t \in Pen THEN mo[t] ELSE mode[t]]
      /\ UNCHANGED <<screens, primary, rotation>>
  BY DEF MapPen, MapDevices, screenVars
<1>3. sp \in [AllTools -> Space] /\ mo \in [AllTools -> Mode]
  BY DEF Mode
<1>4. \A t \in Tool : t \in AllTools
  BY ToolAssumption
<1>5. mode' \in [Tool -> Mode]
  BY <1>1, <1>2, <1>4 DEF Mode
<1>6. \A t \in Tool : matrix'[t] = IF t \in Pen THEN MatrixOf(space, screens) ELSE matrix[t]
  BY <1>2, <1>4
<1>7. \A t \in AllTools : /\ For(Pen, sp, saved.space)[t]
                              = IF t \in Pen \cap Tool THEN space ELSE saved.space[t]
                          /\ For(Pen, mo, saved.mode)[t]
                              = IF t \in Pen \cap Tool THEN "absolute" ELSE saved.mode[t]
  BY DEF For
<1> HIDE DEF sp, mo
<1>8. /\ saved' \in Content
      /\ saved' = [space |-> For(Pen, sp, saved.space),
                     mode |-> For(Pen, mo, saved.mode), rotate |-> saved.rotate]
  BY <1>1, <1>2, <1>3, SavedProfileIs
<1>9. /\ saved'.space = For(Pen, sp, saved.space)
      /\ saved'.mode = For(Pen, mo, saved.mode)
  BY <1>8
<1>10. MatrixFollowsProfile'
  BY <1>2, <1>4, <1>6, <1>7, <1>9 DEF MatrixFollowsProfile, MappingInv
<1>11. EraserFollowsStylus'
  BY <1>4, <1>7, <1>9 DEF EraserFollowsStylus, Pen
<1> QED
  BY <1>2, <1>5, <1>8, <1>10, <1>11 DEF MappingInv, MappingTypeOK

LEMMA TogglePenModeKeeps ==
    ASSUME MappingInv, OnTogglePenMode
    PROVE  MappingInv'
<1> DEFINE toggled == IF saved.mode["stylus"] = "relative" THEN "absolute" ELSE "relative"
           sp == WithStylus(saved.space)
           mo == [t \in AllTools |-> toggled]
<1>1. /\ saved \in Content
      /\ mode \in [Tool -> Mode]
      /\ saved.space \in [AllTools -> Space]
  BY DEF MappingInv, MappingTypeOK, Content
<1>2. /\ saved' = SavedProfile(screens, saved, Pen, sp, mo)
      /\ matrix' = [t \in Tool |-> IF t \in Pen THEN MatrixOf(sp[t], screens) ELSE matrix[t]]
      /\ mode' = [t \in Tool |-> IF t \in Pen THEN mo[t] ELSE mode[t]]
      /\ UNCHANGED <<screens, primary, rotation>>
  BY DEF OnTogglePenMode, MapDevices, screenVars
<1>3. /\ toggled \in Mode
      /\ \A t \in AllTools : mo[t] = toggled
  BY DEF Mode
<1> HIDE DEF toggled
<1>4. mo \in [AllTools -> Mode] /\ mo["eraser"] = mo["stylus"]
  BY <1>3 DEF AllTools
<1>5. sp \in [AllTools -> Space] /\ sp["eraser"] = sp["stylus"]
  BY <1>1, WithStylusType
<1>6. \A t \in Tool : t \in AllTools
  BY ToolAssumption
<1> HIDE DEF sp, mo
<1>7. mode' \in [Tool -> Mode]
  BY <1>1, <1>2, <1>4, <1>6
<1>8. \A t \in Tool : matrix'[t] = IF t \in Pen THEN MatrixOf(sp[t], screens) ELSE matrix[t]
  BY <1>2
<1>9. /\ saved' \in Content
      /\ saved' = [space |-> For(Pen, sp, saved.space),
                     mode |-> For(Pen, mo, saved.mode), rotate |-> saved.rotate]
  BY <1>1, <1>2, <1>4, <1>5, SavedProfileIs
<1>10. \A t \in AllTools : /\ saved'.space[t] = IF t \in Pen \cap Tool THEN sp[t]
                                                  ELSE saved.space[t]
                           /\ saved'.mode[t] = IF t \in Pen \cap Tool THEN mo[t]
                                                 ELSE saved.mode[t]
  BY <1>9 DEF For
<1>11. MatrixFollowsProfile'
  BY <1>2, <1>6, <1>8, <1>10 DEF MatrixFollowsProfile, MappingInv
<1>12. EraserFollowsStylus'
  BY <1>4, <1>5, <1>6, <1>10 DEF EraserFollowsStylus, Pen
<1> QED
  BY <1>2, <1>7, <1>9, <1>11, <1>12 DEF MappingInv, MappingTypeOK

\* The screens are those of the type again after each of their changes.
LEMMA ScreensType ==
    ASSUME MappingInv, ScreenChange
    PROVE  /\ screens' \in ScreenMaps
           /\ primary' \in DOMAIN screens'
           /\ MapTabletToCurrent(screens', saved)
<1>1. PICK S \in (SUBSET Output) \ {{}} : screens \in [S -> Screen]
  BY DEF MappingInv, MappingTypeOK, ScreenMaps
<1>2. primary \in S
  BY <1>1 DEF MappingInv, MappingTypeOK
<1>3. ASSUME NEW T \in SUBSET Output, T # {}, screens' \in [T -> Screen]
      PROVE  screens' \in ScreenMaps
  BY <1>3 DEF ScreenMaps
<1>4. ASSUME NEW o \in Output, NEW scr \in Screen, ScreenAdded(o, scr)
      PROVE  /\ screens' \in ScreenMaps
             /\ primary' \in DOMAIN screens'
             /\ MapTabletToCurrent(screens', saved)
  <2>1. screens' \in [S \cup {o} -> Screen]
    BY <1>1, <1>4 DEF ScreenAdded
  <2> QED
    BY <1>2, <1>3, <1>4, <2>1 DEF ScreenAdded, FollowScreens
<1>5. ASSUME NEW o \in Output, ScreenRemoved(o)
      PROVE  /\ screens' \in ScreenMaps
             /\ primary' \in DOMAIN screens'
             /\ MapTabletToCurrent(screens', saved)
  <2>1. screens' \in [S \ {o} -> Screen] /\ S \ {o} # {}
    BY <1>1, <1>5 DEF ScreenRemoved
  <2> QED
    BY <1>3, <1>5, <2>1 DEF ScreenRemoved, FollowScreens
<1>6. ASSUME NEW o \in Output, PrimaryScreenChanged(o)
      PROVE  /\ screens' \in ScreenMaps
             /\ primary' \in DOMAIN screens'
             /\ MapTabletToCurrent(screens', saved)
  BY <1>6 DEF PrimaryScreenChanged, FollowScreens, MappingInv, MappingTypeOK
<1>7. ASSUME NEW o \in Output, NEW g \in Geometry, GeometryChanged(o, g)
      PROVE  /\ screens' \in ScreenMaps
             /\ primary' \in DOMAIN screens'
             /\ MapTabletToCurrent(screens', saved)
  <2>1. screens' \in [S -> Screen]
    BY <1>1, <1>7 DEF GeometryChanged, Screen
  <2> QED
    BY <1>1, <1>2, <1>3, <1>7, <2>1 DEF GeometryChanged, FollowScreens
<1>8. ASSUME NEW o \in Output, NEW r \in Orientation, OnScreenRotated(o, r)
      PROVE  /\ screens' \in ScreenMaps
             /\ primary' \in DOMAIN screens'
             /\ MapTabletToCurrent(screens', saved)
  <2>1. screens' \in [S -> Screen]
    BY <1>1, <1>8 DEF OnScreenRotated, Screen
  <2> QED
    BY <1>1, <1>2, <1>3, <1>8, <2>1 DEF OnScreenRotated
<1> QED
  BY <1>4, <1>5, <1>6, <1>7, <1>8 DEF ScreenChange

LEMMA ScreenChangeKeeps ==
    ASSUME MappingInv, ScreenChange
    PROVE  MappingInv'
<1>1. /\ screens' \in ScreenMaps
      /\ primary' \in DOMAIN screens'
      /\ MapTabletToCurrent(screens', saved)
  BY ScreensType
<1>2. /\ saved' \in Content
      /\ mode' \in [Tool -> Mode]
      /\ MatrixFollowsProfile'
      /\ EraserFollowsStylus'
  BY <1>1, FollowingKeeps
<1>3. rotation' \in [Tool -> Rotation]
  <2>1. ASSUME NEW o \in Output, NEW r \in Orientation, OnScreenRotated(o, r)
        PROVE  rotation' \in [Tool -> Rotation]
    <3>1. rotation' = [t \in Tool |-> IF TurnsTablet(screens', saved, o)
                                      THEN Turn(screens', saved, o) ELSE rotation[t]]
      BY <2>1 DEF OnScreenRotated, AutoRotated
    <3>2. Turn(screens', saved, o) \in Rotation
      BY <1>1, TurnType
    <3> QED
      BY <3>1, <3>2 DEF MappingInv, MappingTypeOK
  <2>2. ASSUME UNCHANGED rotation
        PROVE  rotation' \in [Tool -> Rotation]
    BY <2>2 DEF MappingInv, MappingTypeOK
  <2> QED
    BY <2>1, <2>2 DEF ScreenChange, ScreenAdded, ScreenRemoved, PrimaryScreenChanged,
                      GeometryChanged, FollowScreens
<1> QED
  BY <1>1, <1>2, <1>3 DEF MappingInv, MappingTypeOK

\* The shortcuts map to the desktop or to a screen there is.
LEMMA ShortcutSpaces ==
    ASSUME MappingTypeOK, NEW space
    PROVE  /\ Desktop \in Space /\ primary \in Space
           /\ NextSpaces(space, screens, primary) \subseteq Space
<1>1. DOMAIN screens \subseteq Output
  BY DEF MappingTypeOK, ScreenMaps
<1>2. DOMAIN screens \subseteq Space
  BY <1>1 DEF Space, Monitor
<1>3. NextScreens(space, screens) \subseteq DOMAIN screens
  BY DEF NextScreens
<1>4. primary \in Space /\ Desktop \in Space
  BY <1>2 DEF MappingTypeOK, Space
<1> QED
  BY <1>2, <1>3, <1>4 DEF NextSpaces

LEMMA MappingStepKeeps == MappingInv /\ [MappingNext]_mappingVars => MappingInv'
<1> SUFFICES ASSUME MappingInv, [MappingNext]_mappingVars
             PROVE  MappingInv'
  OBVIOUS
<1>1. ASSUME NEW content \in Contents, SetProfileContent(content)
      PROVE  MappingInv'
  BY <1>1, SetProfileKeeps
<1>2. CASE OnTogglePenMode
  BY <1>2, TogglePenModeKeeps
<1>3. ASSUME NEW space \in Space, MapPen(space)
      PROVE  MappingInv'
  BY <1>3, MapPenKeeps
<1>4. /\ Desktop \in Space /\ primary \in Space
      /\ NextSpaces(saved.space["stylus"], screens, primary) \subseteq Space
      /\ NextSpaces(primary, screens, primary) \subseteq Space
  BY ShortcutSpaces DEF MappingInv
<1>5. CASE OnToggleScreenMapping
  BY <1>3, <1>4, <1>5 DEF OnToggleScreenMapping
<1>6. CASE OnMapToFullScreen
  BY <1>3, <1>4, <1>6 DEF OnMapToFullScreen
<1>7. CASE OnMapToScreen1
  BY <1>3, <1>4, <1>7 DEF OnMapToScreen1
<1>8. CASE OnMapToScreen2
  BY <1>3, <1>4, <1>8 DEF OnMapToScreen2
<1>9. CASE ScreenChange
  BY <1>9, ScreenChangeKeeps
<1>10. CASE Client
  <2>1. UNCHANGED <<screens, primary, saved, matrix>>
    BY <1>10 DEF Client, SetMode, SetRotation, screenVars
  <2>2. mode' \in [Tool -> Mode] /\ rotation' \in [Tool -> Rotation]
    BY <1>10, ContentAssumption DEF Client, SetMode, SetRotation, MappingInv, MappingTypeOK
  <2> QED
    BY <2>1, <2>2 DEF MappingInv, MappingTypeOK, MatrixFollowsProfile, EraserFollowsStylus
<1>11. CASE UNCHANGED mappingVars
  BY <1>11 DEF MappingInv, MappingTypeOK, MatrixFollowsProfile, EraserFollowsStylus, mappingVars, screenVars,
               driverVars
<1> QED
  BY <1>1, <1>2, <1>5, <1>6, <1>7, <1>8, <1>9, <1>10, <1>11 DEF MappingNext, Handler

-----------------------------------------------------------------------------
(* The theorems. *)

\* The invariant holds in every state of the daemon.
THEOREM MappingHolds == MappingSpec => []MappingInv
BY MappingBegins, MappingStepKeeps, PTL DEF MappingSpec

\* Every value is of its type; the rotations given to the driver are real ones.
THEOREM MappingTypes == MappingSpec => []MappingTypeOK
<1>1. MappingInv => MappingTypeOK
  BY DEF MappingInv
<1> QED
  BY <1>1, MappingHolds, PTL

\* Whatever screens come and go and whatever is pressed, each tool reaches what the
\* profile says, on the screens as they are.
THEOREM MappingIsCurrent == MappingSpec => []MatrixFollowsProfile
<1>1. MappingInv => MatrixFollowsProfile
  BY DEF MappingInv
<1> QED
  BY <1>1, MappingHolds, PTL

\* The eraser is mapped like the stylus.
THEOREM PenEndsAgree == MappingSpec => []EraserFollowsStylus
<1>1. MappingInv => EraserFollowsStylus
  BY DEF MappingInv
<1> QED
  BY <1>1, MappingHolds, PTL

\* No change of the screens changes the profile that is saved, on a tablet whose eraser
\* is the other end of a stylus.
THEOREM ProfileSurvivesScreens ==
    ASSUME "eraser" \in Tool => "stylus" \in Tool
    PROVE  MappingSpec => ScreensKeepProfile
<1>1. ASSUME MappingInv, ScreenChange
      PROVE  saved' = saved
  <2>1. MapTabletToCurrent(screens', saved)
    BY <1>1, ScreensType
  <2>2. saved' = SavedProfile(screens', saved, AllTools,
                       WithStylus(saved.space), WithStylus(saved.mode))
    BY <2>1 DEF MapTabletToCurrent, MapDevices
  <2>3. /\ saved \in Content
        /\ "eraser" \in Tool =>
              /\ saved.space["eraser"] = saved.space["stylus"]
              /\ saved.mode["eraser"] = saved.mode["stylus"]
    BY <1>1 DEF MappingInv, MappingTypeOK, EraserFollowsStylus
  <2> QED
    BY <2>2, <2>3, FollowingSavesNothing
<1>2. MappingInv => [ScreenChange => saved' = saved]_mappingVars
  BY <1>1
<1> QED
  BY <1>2, MappingHolds, PTL DEF ScreensKeepProfile

\* A change of the screens turns the tablet only if the profile leaves it to the screens,
\* and only the screen the stylus is mapped to does, unless it is the only one.
THEOREM OnlyOwnScreenTurns == MappingSpec => ScreensTurnAutoOnly
<1> DEFINE P == /\ saved.rotate["stylus"] \notin Rotation
                /\ Cardinality(DOMAIN screens) > 1 =>
                      saved.space["stylus"] \in {o \in DOMAIN screens :
                          screens'[o].orientation # screens[o].orientation}
<1>1. ASSUME MappingInv, ScreenChange, rotation' # rotation
      PROVE  P
  <2>1. PICK o \in Output, r \in Orientation : OnScreenRotated(o, r)
    BY <1>1 DEF ScreenChange, ScreenAdded, ScreenRemoved, PrimaryScreenChanged,
                GeometryChanged, FollowScreens
  <2>2. rotation' = [t \in Tool |-> IF TurnsTablet(screens', saved, o)
                                    THEN Turn(screens', saved, o) ELSE rotation[t]]
    BY <2>1 DEF OnScreenRotated, AutoRotated
  <2>3. rotation = [t \in Tool |-> rotation[t]]
    BY <1>1 DEF MappingInv, MappingTypeOK
  <2>4. TurnsTablet(screens', saved, o)
    BY <1>1, <2>2, <2>3
  <2>5. saved.rotate["stylus"] \notin Rotation
    BY <2>4 DEF TurnsTablet, Rotation
  <2>6. PICK S \in (SUBSET Output) \ {{}} : screens \in [S -> Screen]
    BY <1>1 DEF MappingInv, MappingTypeOK, ScreenMaps
  <2>7. /\ o \in DOMAIN screens
        /\ DOMAIN screens' = DOMAIN screens
        /\ screens'[o].orientation = r
        /\ screens[o].orientation # r
    BY <2>1, <2>6 DEF OnScreenRotated, Screen
  <2>8. ASSUME Cardinality(DOMAIN screens) > 1
        PROVE  saved.space["stylus"] = o
    <3>1. Cardinality(DOMAIN screens') # 1
      BY <2>7, <2>8
    <3>2. o # NoOutput
      BY OutputAssumption
    <3> QED
      BY <2>4, <3>1, <3>2 DEF TurnsTablet
  <2> QED
    BY <2>5, <2>7, <2>8
<1>2. MappingInv => [ScreenChange /\ rotation' # rotation => P]_mappingVars
  BY <1>1
<1> QED
  BY <1>2, MappingHolds, PTL DEF ScreensTurnAutoOnly

\* Screens act on the tablet and leave the profile.
THEOREM ScreensActOnTablet ==
    ASSUME "eraser" \in Tool => "stylus" \in Tool
    PROVE  MappingSpec => ScreensOnlyAct
BY ProfileSurvivesScreens, OnlyOwnScreenTurns, PTL DEF ScreensOnlyAct

=============================================================================
