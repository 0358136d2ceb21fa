--------------------------- MODULE RotationProofs ---------------------------
(***************************************************************************)
(* Proofs about ProfileRotation, for every set of profiles and every set   *)
(* of rotation lists, and then about RotationPage, for every number of     *)
(* acts: what the module does to the daemon is what ProfileRotation lets a *)
(* client do, and the two agree about the list.                            *)
(*                                                                         *)
(* The types alone do not bound a position: IInv adds that the positions   *)
(* stored are -1 at least, which every operation of the daemon keeps.      *)
(***************************************************************************)
EXTENDS RotationPage, SequenceTheorems, TLAPS

IInv ==
    /\ TypeOK
    /\ file.entry >= -1
    /\ cache.entry >= -1

-----------------------------------------------------------------------------
(* Positions. *)

LEMMA NextPositionListed ==
    ASSUME NEW S, NEW list \in Seq(S), list # <<>>, NEW pos \in Int, pos >= -1
    PROVE  NextPosition(list, pos) \in 0..(Len(list) - 1)
<1>1. Len(list) \in Nat /\ Len(list) > 0
  BY EmptySeq
<1> QED BY <1>1 DEF NextPosition

LEMMA PreviousPositionType ==
    ASSUME NEW S, NEW list \in Seq(S), list # <<>>, NEW pos \in Int
    PROVE  PreviousPosition(list, pos) \in Int /\ PreviousPosition(list, pos) >= 0
<1>1. Len(list) \in Nat /\ Len(list) > 0
  BY EmptySeq
<1> QED BY <1>1 DEF PreviousPosition

LEMMA SyncedType ==
    ASSUME IInv
    PROVE  Synced \in Group /\ Synced.entry >= -1
BY DEF IInv, TypeOK, Synced, Group

-----------------------------------------------------------------------------
(* A switch keeps the invariant. *)

LEMMA CandidatesType ==
    ASSUME NEW profiles \in SUBSET Profile, NEW p
    PROVE  Candidates(profiles, p) \subseteq Profile
BY RotationAssumption DEF Candidates

LEMMA StorePositionKeeps ==
    ASSUME NEW f \in Group, NEW applied \in Profile, StorePosition(f, applied)
    PROVE  /\ file' \in Group /\ file'.entry >= -1
           /\ file'.profiles = f.profiles \cup {applied}
           /\ file'.rotation = f.rotation
<1>1. PICK pos \in -1..(Len(f.rotation) - 1) :
          file' = [f EXCEPT !.entry = pos, !.profiles = @ \cup {applied}]
  BY DEF StorePosition
<1>2. f.rotation \in Seq(Profile) /\ Len(f.rotation) \in Nat
  BY DEF Group
<1>3. f.profiles \cup {applied} \in SUBSET Profile /\ pos \in Int /\ pos >= -1
  BY <1>2 DEF Group
<1>4. file' = [profiles |-> f.profiles \cup {applied}, rotation |-> f.rotation, entry |-> pos]
  BY <1>1 DEF Group
<1> QED BY <1>2, <1>3, <1>4 DEF Group

LEMMA ApplyKeeps ==
    ASSUME NEW f \in Group, NEW p, Apply(f, p)
    PROVE  /\ file' \in Group /\ file'.entry >= -1
           /\ cache' = file'
           /\ unsynced' = FALSE
           /\ current' \in Profile
           /\ crashed' = crashed
<1>1. PICK applied \in Candidates(f.profiles, p) :
          StorePosition(f, applied) /\ current' = applied
  BY DEF Apply
<1>2. applied \in Profile
  BY <1>1, CandidatesType DEF Group
<1> QED BY <1>1, <1>2, StorePositionKeeps DEF Apply

LEMMA ApplyKeepsInvariant ==
    ASSUME IInv, NEW f \in Group, NEW p, Apply(f, p)
    PROVE  IInv'
BY ApplyKeeps DEF IInv, TypeOK

-----------------------------------------------------------------------------
(* The actions. *)

LEMMA InitIInv == Init => IInv
<1> SUFFICES ASSUME Init PROVE IInv
  OBVIOUS
<1>1. file \in Group /\ file.entry >= -1 /\ cache = file
  BY EmptySeq, RotationAssumption DEF Init, Group
<1>2. unsynced \in BOOLEAN /\ crashed \in BOOLEAN
  BY DEF Init
<1>3. current \in Profile
  BY RotationAssumption DEF Init
<1> QED BY <1>1, <1>2, <1>3 DEF IInv, TypeOK

LEMMA SwitchKeeps ==
    ASSUME IInv,
           \/ \E p \in Profile \cup {NoProfile} : SetProfile(p)
           \/ OnNextProfile
           \/ OnPreviousProfile
    PROVE  IInv'
<1>1. \A pos \in Int : [Synced EXCEPT !.entry = pos] \in Group
  BY SyncedType DEF Group
<1>2. cache.rotation \in Seq(Profile) /\ cache.entry \in Int /\ cache.entry >= -1
  BY DEF IInv, TypeOK, Group
<1>3. CASE \E p \in Profile \cup {NoProfile} : SetProfile(p)
  BY <1>3, SyncedType, ApplyKeepsInvariant DEF SetProfile
<1>4. CASE OnNextProfile
  <2> DEFINE pos == NextPosition(cache.rotation, cache.entry)
             f == [Synced EXCEPT !.entry = pos]
  <2>1. pos \in Int
    BY <1>2, <1>4, NextPositionListed DEF OnNextProfile
  <2>2. f \in Group /\ Apply(f, At(cache.rotation, pos))
    BY <1>1, <1>4, <2>1 DEF OnNextProfile
  <2> HIDE DEF pos, f
  <2> QED BY <2>2, ApplyKeepsInvariant
<1>5. CASE OnPreviousProfile
  <2> DEFINE pos == PreviousPosition(cache.rotation, cache.entry)
             f == [Synced EXCEPT !.entry = pos]
  <2>1. pos \in Int
    BY <1>2, <1>5, PreviousPositionType DEF OnPreviousProfile
  <2>2. f \in Group /\ Apply(f, At(cache.rotation, pos))
    BY <1>1, <1>5, <2>1 DEF OnPreviousProfile
  <2> HIDE DEF pos, f
  <2> QED BY <2>2, ApplyKeepsInvariant
<1> QED BY <1>3, <1>4, <1>5

LEMMA OutOfRangeKeeps ==
    ASSUME IInv, OnPreviousProfileOutOfRange
    PROVE  IInv'
<1> DEFINE pos == PreviousPosition(cache.rotation, cache.entry)
           f == [Synced EXCEPT !.entry = pos]
<1>1. pos \in Int /\ pos >= 0
  BY PreviousPositionType DEF OnPreviousProfileOutOfRange, IInv, TypeOK, Group
<1>2. f \in Group /\ f.entry >= -1
  BY <1>1, SyncedType DEF Group
<1>3. \/ file' = f /\ crashed' = TRUE /\ UNCHANGED <<cache, unsynced, current>>
      \/ Apply(f, NoProfile)
  BY DEF OnPreviousProfileOutOfRange
<1> HIDE DEF pos, f
<1>4. CASE file' = f /\ crashed' = TRUE /\ UNCHANGED <<cache, unsynced, current>>
  BY <1>2, <1>4 DEF IInv, TypeOK
<1> QED BY <1>2, <1>3, <1>4, ApplyKeepsInvariant

LEMMA RestartKeeps ==
    ASSUME IInv, Restart
    PROVE  IInv'
<1>1. PICK applied \in Candidates(file.profiles, current) :
          StorePosition(file, applied) /\ current' = applied
  BY DEF Restart
<1>2. applied \in Profile
  BY <1>1, CandidatesType DEF IInv, TypeOK, Group
<1> QED BY <1>1, <1>2, StorePositionKeeps DEF Restart, IInv, TypeOK

LEMMA KcmKeeps ==
    ASSUME IInv, NEW p \in Profile, CreateNewProfile(p) \/ DeleteProfile(p) \/ CreateDefault
    PROVE  IInv'
<1>1. CASE CreateNewProfile(p)
  <2>1. file' \in Group /\ file'.entry >= -1
    BY <1>1 DEF CreateNewProfile, IInv, TypeOK, Group
  <2> QED BY <1>1, <2>1 DEF CreateNewProfile, IInv, TypeOK
<1>2. CASE DeleteProfile(p)
  <2>1. PICK list \in SeqOf(ToSet(file.rotation) \ {p}, Len(file.rotation)) :
            file' = [file EXCEPT !.profiles = @ \ {p}, !.rotation = list]
    BY <1>2 DEF DeleteProfile
  <2>2. file.rotation \in Seq(Profile)
    BY DEF IInv, TypeOK, Group
  <2>3. ToSet(file.rotation) \ {p} \subseteq Profile
    BY <2>2 DEF ToSet
  <2>4. PICK n \in 0..Len(file.rotation) : list \in [1..n -> ToSet(file.rotation) \ {p}]
    BY DEF SeqOf
  <2>5. list \in Seq(Profile)
    BY <2>2, <2>3, <2>4
  <2>6. file' \in Group /\ file'.entry >= -1
    BY <2>1, <2>5 DEF IInv, TypeOK, Group
  <2> QED BY <1>2, <2>6 DEF DeleteProfile, IInv, TypeOK
<1>3. CASE CreateDefault
  <2>1. file' \in Group /\ file'.entry >= -1
    BY <1>3, RotationAssumption DEF CreateDefault, IInv, TypeOK, Group
  <2> QED BY <1>3, <2>1 DEF CreateDefault, IInv, TypeOK
<1> QED BY <1>1, <1>2, <1>3

LEMMA SaveCurrentKeeps ==
    ASSUME IInv, SaveCurrent
    PROVE  IInv'
<1>1. Synced \in Group /\ Synced.entry >= -1 /\ cache \in Group /\ current \in Profile
  BY SyncedType DEF IInv, TypeOK
<1>2. \A g \in Group : [g EXCEPT !.profiles = @ \cup {current}] \in Group
                          /\ [g EXCEPT !.profiles = @ \cup {current}].entry = g.entry
  BY <1>1 DEF Group
<1> QED BY <1>1, <1>2 DEF SaveCurrent, IInv, TypeOK

LEMMA InvariantStep == IInv /\ [Next]_vars => IInv'
<1> SUFFICES ASSUME IInv, [Next]_vars PROVE IInv'
  OBVIOUS
<1>1. CASE \/ \E p \in Profile \cup {NoProfile} : SetProfile(p)
           \/ OnNextProfile
           \/ OnPreviousProfile
  BY <1>1, SwitchKeeps
<1>2. CASE \E list \in Lists : SetProfileRotationList(list)
  <2>1. PICK list \in Lists : SetProfileRotationList(list)
    BY <1>2
  <2>2. cache' \in Group /\ cache'.entry >= -1
    BY <2>1, RotationAssumption DEF SetProfileRotationList, IInv, TypeOK, Group
  <2> QED BY <2>1, <2>2 DEF SetProfileRotationList, IInv, TypeOK
<1>3. CASE OnPreviousProfileOutOfRange
  BY <1>3, OutOfRangeKeeps
<1>4. CASE ReadProfiles
  BY <1>4, SyncedType DEF ReadProfiles, IInv, TypeOK
<1>5. CASE Restart
  BY <1>5, RestartKeeps
<1>6. CASE CreateDefault \/ \E p \in Profile : CreateNewProfile(p) \/ DeleteProfile(p)
  BY <1>6, KcmKeeps, RotationAssumption
<1>7. CASE SaveCurrent
  BY <1>7, SaveCurrentKeeps
<1>8. CASE UNCHANGED vars
  BY <1>8 DEF vars, IInv, TypeOK
<1> QED BY <1>1, <1>2, <1>3, <1>4, <1>5, <1>6, <1>7, <1>8 DEF Next

THEOREM InvariantHolds == Spec => []IInv
BY InitIInv, InvariantStep, PTL DEF Spec

\* The variables keep their types.
THEOREM TypeCorrect == Spec => []TypeOK
<1>1. IInv => TypeOK
  BY DEF IInv
<1> QED BY InvariantHolds, <1>1, PTL

\* nextProfile() never reads behind the end of the list or before its start, whatever
\* list any process may set.
NextIsListed ==
    cache.rotation # <<>> =>
        NextPosition(cache.rotation, cache.entry) \in 0..(Len(cache.rotation) - 1)

THEOREM NextStaysListed == Spec => []NextIsListed
<1>1. IInv => NextIsListed
  BY NextPositionListed DEF IInv, TypeOK, Group, NextIsListed
<1> QED BY InvariantHolds, <1>1, PTL

-----------------------------------------------------------------------------
(* A switch and the deletions of the settings module. *)

\* Profiles were those given, and p is asked for: what is there then, and in effect.
EndsOn(profiles, p) ==
    /\ current' \in file'.profiles
    /\ file'.profiles = IF profiles = {} THEN {Default} ELSE profiles
    /\ p \in profiles => current' = p

\* One of the candidates is there when it is applied, or is the new "Default".
LEMMA CandidateApplied ==
    ASSUME NEW f \in Group, NEW p, NEW applied \in Candidates(f.profiles, p),
           StorePosition(f, applied), current' = applied
    PROVE  EndsOn(f.profiles, p) /\ file'.rotation = f.rotation
<1>1. f.profiles \in SUBSET Profile /\ applied \in Profile
  BY CandidatesType DEF Group
<1>2. file'.profiles = f.profiles \cup {applied} /\ file'.rotation = f.rotation
  BY <1>1, StorePositionKeeps
<1>3. CASE p \in f.profiles
  BY <1>2, <1>3 DEF Candidates, EndsOn
<1>4. CASE p \notin f.profiles /\ f.profiles # {}
  BY <1>2, <1>4 DEF Candidates, EndsOn
<1>5. CASE f.profiles = {}
  BY <1>2, <1>5 DEF Candidates, EndsOn
<1> QED BY <1>3, <1>4, <1>5

LEMMA AppliedEndsOn ==
    ASSUME NEW f \in Group, NEW p, Apply(f, p)
    PROVE  EndsOn(f.profiles, p) /\ file'.rotation = f.rotation
BY CandidateApplied DEF Apply

\* What a switch starts from: the file, but for the position and a pending list.
LEMMA SyncedFile ==
    ASSUME IInv
    PROVE  /\ Synced \in Group /\ Synced.profiles = file.profiles
           /\ ~unsynced => Synced.rotation = file.rotation
           /\ \A pos \in Int :
                  /\ [Synced EXCEPT !.entry = pos] \in Group
                  /\ [Synced EXCEPT !.entry = pos].profiles = file.profiles
                  /\ [Synced EXCEPT !.entry = pos].rotation = Synced.rotation
<1>1. file \in Group /\ Synced \in Group
  BY SyncedType DEF IInv, TypeOK
<1>2. Synced.profiles = file.profiles /\ (~unsynced => Synced.rotation = file.rotation)
  BY <1>1 DEF Synced, Group
<1> QED BY <1>1, <1>2 DEF Group

\* The positions that the shortcuts store.
LEMMA PositionTypes ==
    ASSUME IInv, cache.rotation # <<>>
    PROVE  /\ NextPosition(cache.rotation, cache.entry) \in Int
           /\ PreviousPosition(cache.rotation, cache.entry) \in Int
<1>1. cache.rotation \in Seq(Profile) /\ cache.entry \in Int /\ cache.entry >= -1
  BY DEF IInv, TypeOK, Group
<1>2. NextPosition(cache.rotation, cache.entry) \in 0..(Len(cache.rotation) - 1)
  BY <1>1, NextPositionListed
<1>3. PreviousPosition(cache.rotation, cache.entry) \in Int
  BY <1>1, PreviousPositionType
<1> QED BY <1>1, <1>2, <1>3

SwitchOf(p) ==
    /\ EndsOn(file.profiles, p)
    /\ ~unsynced => file'.rotation = file.rotation

LEMMA SetProfileSwitches ==
    ASSUME IInv, NEW p, SetProfile(p)
    PROVE  SwitchOf(p)
BY SyncedFile, AppliedEndsOn DEF SetProfile, SwitchOf

LEMMA PositionSwitches ==
    ASSUME IInv, NEW pos \in Int, NEW p, Apply([Synced EXCEPT !.entry = pos], p)
    PROVE  SwitchOf(p)
<1> DEFINE f == [Synced EXCEPT !.entry = pos]
<1>1. /\ f \in Group /\ f.profiles = file.profiles
      /\ ~unsynced => f.rotation = file.rotation
  BY SyncedFile
<1>2. Apply(f, p)
  OBVIOUS
<1> HIDE DEF f
<1> QED BY <1>1, <1>2, AppliedEndsOn DEF SwitchOf

LEMMA RestartSwitches ==
    ASSUME IInv, Restart
    PROVE  SwitchOf(current)
<1>1. file \in Group
  BY DEF IInv, TypeOK
<1> QED BY <1>1, CandidateApplied DEF Restart, SwitchOf

\* However old its cache, a switch of the daemon leaves the profiles and the list of the
\* file as the settings module left them, and ends on a profile that is there.
THEOREM DeletionRespected == Spec => SwitchesRespectDeletion
<1> DEFINE Respected ==
        /\ Switch =>
               /\ current' \in file'.profiles
               /\ file'.profiles = IF file.profiles = {} THEN {Default} ELSE file.profiles
               /\ ~unsynced => file'.rotation = file.rotation
        /\ \A p \in file.profiles : SetProfile(p) => current' = p
<1>1. IInv /\ [Next]_vars => [Respected]_vars
  <2> SUFFICES ASSUME IInv PROVE Respected
    OBVIOUS
  <2>1. Switch => \E p : SwitchOf(p)
    <3>1. OnNextProfile => \E p : SwitchOf(p)
      BY PositionTypes, PositionSwitches DEF OnNextProfile
    <3>2. OnPreviousProfile => \E p : SwitchOf(p)
      BY PositionTypes, PositionSwitches DEF OnPreviousProfile
    <3>3. OnPreviousProfileOutOfRange /\ ~crashed' => \E p : SwitchOf(p)
      BY PositionTypes, PositionSwitches DEF OnPreviousProfileOutOfRange
    <3>4. Restart => \E p : SwitchOf(p)
      BY RestartSwitches
    <3>5. (\E p \in Profile \cup {NoProfile} : SetProfile(p)) => \E p : SwitchOf(p)
      BY SetProfileSwitches
    <3> QED BY <3>1, <3>2, <3>3, <3>4, <3>5 DEF Switch
  <2>2. \A p \in file.profiles : SetProfile(p) => current' = p
    BY SetProfileSwitches DEF SwitchOf, EndsOn
  <2> QED BY <2>1, <2>2 DEF SwitchOf, EndsOn
<1> QED BY InvariantHolds, <1>1, PTL DEF Spec, SwitchesRespectDeletion

-----------------------------------------------------------------------------
(* The walk. *)

\* The remainder the wrapped positions are.
LEMMA Wrapped ==
    ASSUME NEW n \in Nat, NEW i \in 0..(n - 1)
    PROVE  /\ (i + 1) % n = IF i + 1 = n THEN 0 ELSE i + 1
           /\ (i + n - 1) % n = IF i = 0 THEN n - 1 ELSE i - 1
<1>1. \A k \in Nat : k < n => k % n = k /\ (k + n) % n = k
  OBVIOUS
<1>2. n % n = 0
  OBVIOUS
<1>3. CASE i = 0
  BY <1>1, <1>2, <1>3
<1>4. CASE i > 0
  <2>1. i - 1 \in Nat /\ i - 1 < n /\ i + n - 1 = (i - 1) + n
    BY <1>4
  <2> QED BY <1>1, <1>2, <1>4, <2>1
<1> QED BY <1>3, <1>4

\* A settled daemon that applies the profile at a position of its list is settled there.
LEMMA StepSettles ==
    ASSUME IInv, Settled,
           NEW pos \in 0..(Len(cache.rotation) - 1),
           Apply([Synced EXCEPT !.entry = pos], At(cache.rotation, pos))
    PROVE  current' = At(cache.rotation, pos) /\ Settled'
<1> DEFINE list == cache.rotation
           p == At(list, pos)
           f == [cache EXCEPT !.entry = pos]
<1>1. /\ list \in Seq(Profile) /\ Len(list) \in Nat
      /\ cache \in Group /\ file = cache
      /\ ToSet(list) \subseteq cache.profiles
  BY DEF IInv, TypeOK, Group, Settled
<1>2. p \in ToSet(list)
  BY <1>1 DEF At, ToSet
<1>3. Synced = cache
  BY <1>1 DEF Synced, Settled, Group
<1>4. Apply(f, p)
  BY <1>3
<1>5. f \in Group /\ f.profiles = cache.profiles /\ f.rotation = list
  BY <1>1 DEF Group
<1> HIDE DEF f, p
<1>6. current' = p /\ StorePosition(f, p) /\ cache' = file' /\ unsynced' = FALSE
  BY <1>1, <1>2, <1>4, <1>5 DEF Apply, Candidates
<1>7. PICK stored \in -1..(Len(list) - 1) :
          /\ IsIndexOf(list, p, stored)
          /\ file' = [f EXCEPT !.entry = stored, !.profiles = @ \cup {p}]
  BY <1>5, <1>6 DEF StorePosition
<1>8. file'.rotation = list /\ file'.entry = stored /\ file'.profiles = cache.profiles
  BY <1>1, <1>2, <1>5, <1>7 DEF Group
<1>9. stored >= 0
  BY <1>2, <1>7 DEF IsIndexOf
<1>10. Settled'
  BY <1>1, <1>6, <1>7, <1>8, <1>9 DEF Settled
<1> QED BY <1>6, <1>10 DEF p

\* The two shortcuts walk the list, one forwards and one backwards.
THEOREM ShortcutsWalkTheList == Spec => WalkFollowsList
<1> DEFINE list == cache.rotation
           size == Len(list)
           Forward == Settled /\ OnNextProfile =>
                          current' = At(list, (cache.entry + 1) % size) /\ Settled'
           Back == OnPreviousProfile \/ OnPreviousProfileOutOfRange
           Backward == Settled /\ Back =>
                          current' = At(list, (cache.entry + size - 1) % size) /\ Settled'
<1>1. ASSUME IInv, Settled
      PROVE  size \in Nat /\ cache.entry \in 0..(size - 1)
  BY <1>1 DEF IInv, TypeOK, Group, Settled, IsIndexOf
<1>2. ASSUME IInv, Settled, OnNextProfile
      PROVE  current' = At(list, (cache.entry + 1) % size) /\ Settled'
  <2> DEFINE pos == NextPosition(list, cache.entry)
  <2> DEFINE i == cache.entry
  <2>0. size \in Nat /\ i \in 0..(size - 1)
    BY <1>1, <1>2
  <2>1. pos \in 0..(size - 1) /\ pos = (i + 1) % size
    <3>1. pos = IF i + 1 = size THEN 0 ELSE i + 1
      BY <2>0 DEF NextPosition
    <3>2. (i + 1) % size = IF i + 1 = size THEN 0 ELSE i + 1
      <4> HIDE DEF i, size
      <4> QED BY <2>0, Wrapped
    <3> QED BY <2>0, <3>1, <3>2
  <2>2. Apply([Synced EXCEPT !.entry = pos], At(list, pos))
    BY <1>2 DEF OnNextProfile
  <2>3. current' = At(list, pos) /\ Settled'
    BY <1>2, <2>1, <2>2, StepSettles
  <2> QED BY <2>1, <2>3
<1>3. ASSUME IInv, Settled, Back
      PROVE  current' = At(list, (cache.entry + size - 1) % size) /\ Settled'
  <2> DEFINE pos == PreviousPosition(list, cache.entry)
  <2> DEFINE i == cache.entry
  <2>0. size \in Nat /\ i \in 0..(size - 1)
    BY <1>1, <1>3
  <2>1. pos \in 0..(size - 1) /\ pos = (i + size - 1) % size
    <3>1. pos = IF i = 0 THEN size - 1 ELSE i - 1
      BY <2>0 DEF PreviousPosition
    <3>2. (i + size - 1) % size = IF i = 0 THEN size - 1 ELSE i - 1
      <4> HIDE DEF i, size
      <4> QED BY <2>0, Wrapped
    <3> QED BY <2>0, <3>1, <3>2
  <2>2. Apply([Synced EXCEPT !.entry = pos], At(list, pos))
    BY <1>3, <2>1 DEF OnPreviousProfile, OnPreviousProfileOutOfRange
  <2>3. current' = At(list, pos) /\ Settled'
    BY <1>3, <2>1, <2>2, StepSettles
  <2> QED BY <2>1, <2>3
<1>4. IInv /\ [Next]_vars => [Forward /\ Backward]_vars
  BY <1>2, <1>3
<1> QED BY InvariantHolds, <1>4, PTL DEF Spec, WalkFollowsList

-----------------------------------------------------------------------------
(* RotationPage: its variables. *)

Call == [kind : {"list", "profile"}, list : Seq(Profile), profile : Profile \cup {NoProfile}]
Stage == [kind : {"idle", "restore", "switch", "delete", "reload"}, target : Profile \cup {NoProfile}]

PageTypeOK ==
    /\ rows \in Seq(Profile)
    /\ CurrentRowExists
    /\ chosen \in Profile \cup {NoProfile}
    /\ stage \in Stage
    /\ calls \in Seq(Call)

-----------------------------------------------------------------------------
(* Types of what it keeps. *)

LEMMA SetListType == \A list \in Seq(Profile) : SetList(list) \in Call
BY DEF SetList, Call

LEMMA SetToType == \A p \in Profile \cup {NoProfile} : SetTo(p) \in Call
<1>1. <<>> \in Seq(Profile)
  BY EmptySeq
<1> QED BY <1>1 DEF SetTo, Call

LEMMA IdleType == Idle \in Stage
BY DEF Idle, Stage

-----------------------------------------------------------------------------
(* What an edit may do to the rows. *)

\* The list less its element at k.
LEMMA RemovedType ==
    ASSUME NEW list \in Seq(Profile), NEW k \in 1..Len(list)
    PROVE  /\ RemoveAt(list, k) \in Seq(Profile)
           /\ Len(RemoveAt(list, k)) = Len(list) - 1
           /\ ToSet(RemoveAt(list, k)) \subseteq ToSet(list)
<1> DEFINE front == SubSeq(list, 1, k - 1)
           rest == SubSeq(list, k + 1, Len(list))
<1>1. /\ front \in Seq(Profile) /\ Len(front) = k - 1
      /\ \A i \in 1..(k - 1) : front[i] = list[i]
  BY SubSeqProperties
<1>2. /\ rest \in Seq(Profile) /\ Len(rest) = Len(list) - k
      /\ \A i \in 1..(Len(list) - k) : rest[i] = list[k + i]
  BY SubSeqProperties
<1>3. RemoveAt(list, k) = front \o rest
  BY DEF RemoveAt
<1> HIDE DEF front, rest
<1>4. Len(list) \in Nat /\ Len(front) + Len(rest) = Len(list) - 1
  BY <1>1, <1>2
<1>5. /\ front \o rest \in Seq(Profile)
      /\ Len(front \o rest) = Len(list) - 1
      /\ \A i \in 1..(Len(list) - 1) :
             (front \o rest)[i] = IF i <= k - 1 THEN front[i] ELSE rest[i - (k - 1)]
  <2>1. /\ front \o rest \in Seq(Profile)
        /\ Len(front \o rest) = Len(front) + Len(rest)
        /\ \A i \in 1..(Len(front) + Len(rest)) :
               (front \o rest)[i] = IF i <= Len(front) THEN front[i] ELSE rest[i - Len(front)]
    BY <1>1, <1>2, ConcatProperties
  <2>2. Len(front) = k - 1
    BY <1>1
  <2> QED BY <1>4, <2>1, <2>2
<1>6. \A i \in 1..(Len(list) - 1) :
          (front \o rest)[i] = IF i <= k - 1 THEN list[i] ELSE list[i + 1]
  <2> SUFFICES ASSUME NEW i \in 1..(Len(list) - 1)
               PROVE  (front \o rest)[i] = IF i <= k - 1 THEN list[i] ELSE list[i + 1]
    OBVIOUS
  <2>1. CASE i <= k - 1
    BY <1>1, <1>4, <1>5, <2>1
  <2>2. CASE ~(i <= k - 1)
    <3>1. i - (k - 1) \in 1..(Len(list) - k) /\ k + (i - (k - 1)) = i + 1
      BY <1>4, <2>2
    <3> QED BY <1>2, <1>5, <2>2, <3>1
  <2> QED BY <2>1, <2>2
<1>7. \A i \in 1..(Len(list) - 1) : (front \o rest)[i] \in ToSet(list)
  <2>1. DOMAIN list = 1..Len(list)
    OBVIOUS
  <2>2. \A i \in 1..(Len(list) - 1) : i \in DOMAIN list /\ i + 1 \in DOMAIN list
    BY <1>4, <2>1
  <2> QED BY <1>6, <2>2 DEF ToSet
<1>8. ToSet(front \o rest) \subseteq ToSet(list)
  <2>1. DOMAIN (front \o rest) = 1..(Len(list) - 1)
    BY <1>5
  <2> QED BY <1>7, <2>1 DEF ToSet
<1> QED BY <1>3, <1>5, <1>8

LEMMA AppendedType ==
    ASSUME NEW list \in Seq(Profile), NEW p \in Profile
    PROVE  /\ Append(list, p) \in Seq(Profile)
           /\ Len(Append(list, p)) = Len(list) + 1
           /\ ToSet(Append(list, p)) \subseteq ToSet(list) \cup {p}
BY AppendProperties DEF ToSet

LEMMA SwappedType ==
    ASSUME rows \in Seq(Profile), NEW k \in 0..(Len(rows) - 2)
    PROVE  /\ Swapped(k) \in Seq(Profile)
           /\ Len(Swapped(k)) = Len(rows)
           /\ ToSet(Swapped(k)) \subseteq ToSet(rows)
BY DEF Swapped, ToSet

EditAct == ProfileUp \/ ProfileDown \/ (\E p \in Profile : ProfileAdd(p)) \/ ProfileRemove

\* An edit leaves everything else alone, and is remembered as one.
EditFrame ==
    /\ isOpen /\ stage = Idle
    /\ rows' # rows => drifted'
    /\ drifted => drifted'
    /\ UNCHANGED <<vars, isOpen, chosen, stage, calls, revived>>

LEMMA EditIsFramed == EditAct => EditFrame
<1>1. \A list : EditRows(list) => EditFrame
  BY DEF EditRows, UserActs, EditFrame
<1>2. EditAct => \E list : EditRows(list)
  BY DEF EditAct, ProfileUp, ProfileDown, ProfileAdd, ProfileRemove
<1> QED BY <1>1, <1>2

LEMMA EditStep ==
    ASSUME PageTypeOK, EditAct
    PROVE  /\ rows' \in Seq(Profile)
           /\ CurrentRowExists'
           /\ ToSet(rows') \subseteq ToSet(rows) \cup file.profiles
<1>1. rows \in Seq(Profile) /\ row \in -1..(Len(rows) - 1) /\ Len(rows) \in Nat
  BY DEF PageTypeOK, CurrentRowExists
<1>2. CASE ProfileUp
  <2>1. CASE row = 0
    <3>1. rows' = rows /\ row' = row
      BY <1>2, <2>1 DEF ProfileUp, EditRows
    <3> QED BY <1>1, <3>1 DEF CurrentRowExists
  <2>2. CASE row # 0
    <3>1. row >= 0 /\ rows' = Swapped(row - 1) /\ row' = row - 1
      BY <1>2, <2>2 DEF ProfileUp, EditRows
    <3>2. row - 1 \in 0..(Len(rows) - 2)
      BY <1>1, <2>2, <3>1
    <3>3. /\ Swapped(row - 1) \in Seq(Profile)
          /\ Len(Swapped(row - 1)) = Len(rows)
          /\ ToSet(Swapped(row - 1)) \subseteq ToSet(rows)
      BY <1>1, <3>2, SwappedType
    <3> QED BY <1>1, <3>1, <3>2, <3>3 DEF CurrentRowExists
  <2> QED BY <2>1, <2>2
<1>3. CASE ProfileDown
  <2>1. CASE row = Len(rows) - 1
    <3>1. rows' = rows /\ row' = -1
      BY <1>3, <2>1 DEF ProfileDown, EditRows
    <3> QED BY <1>1, <3>1 DEF CurrentRowExists
  <2>2. CASE row # Len(rows) - 1
    <3>1. row >= 0 /\ rows' = Swapped(row) /\ row' = row + 1
      BY <1>3, <2>2 DEF ProfileDown, EditRows
    <3>2. row \in 0..(Len(rows) - 2)
      BY <1>1, <2>2, <3>1
    <3>3. /\ Swapped(row) \in Seq(Profile)
          /\ Len(Swapped(row)) = Len(rows)
          /\ ToSet(Swapped(row)) \subseteq ToSet(rows)
      BY <1>1, <3>2, SwappedType
    <3> QED BY <1>1, <3>1, <3>2, <3>3 DEF CurrentRowExists
  <2> QED BY <2>1, <2>2
<1>4. CASE \E p \in Profile : ProfileAdd(p)
  <2>1. PICK p \in Profile : ProfileAdd(p)
    BY <1>4
  <2>2. rows' = Append(rows, p) /\ p \in file.profiles /\ row' = row
    BY <2>1 DEF ProfileAdd, EditRows
  <2>3. /\ Append(rows, p) \in Seq(Profile)
        /\ Len(Append(rows, p)) = Len(rows) + 1
        /\ ToSet(Append(rows, p)) \subseteq ToSet(rows) \cup {p}
    BY <1>1, AppendedType
  <2> QED BY <1>1, <2>2, <2>3 DEF CurrentRowExists
<1>5. CASE ProfileRemove
  <2>1. /\ row >= 0
        /\ rows' = RemoveAt(rows, row + 1)
        /\ row' = (IF row < Len(rows) - 1 THEN row ELSE row - 1)
    BY <1>5 DEF ProfileRemove, EditRows
  <2>2. row + 1 \in 1..Len(rows)
    BY <1>1, <2>1
  <2>3. /\ RemoveAt(rows, row + 1) \in Seq(Profile)
        /\ Len(RemoveAt(rows, row + 1)) = Len(rows) - 1
        /\ ToSet(RemoveAt(rows, row + 1)) \subseteq ToSet(rows)
    BY <1>1, <2>2, RemovedType
  <2> QED BY <1>1, <2>1, <2>2, <2>3 DEF CurrentRowExists
<1> QED BY <1>2, <1>3, <1>4, <1>5 DEF EditAct

-----------------------------------------------------------------------------
(* What a queue of calls leaves the list at, when it was base before. *)

IsList(call) == call.kind = "list"

LeavesAt(queue, base, list) ==
    /\ \A i \in DOMAIN queue :
           (IsList(queue[i]) /\ \A j \in DOMAIN queue : i < j => ~IsList(queue[j]))
               => queue[i].list = list
    /\ (\A i \in DOMAIN queue : ~IsList(queue[i])) => base = list

LEMMA NothingLeaves == \A base, list : LeavesAt(<<>>, base, list) <=> base = list
BY DEF LeavesAt

LEMMA SetToLeaves ==
    ASSUME NEW queue \in Seq(Call), NEW base, NEW list, NEW p \in Profile \cup {NoProfile},
           LeavesAt(queue, base, list)
    PROVE  LeavesAt(Append(queue, SetTo(p)), base, list)
<1> DEFINE longer == Append(queue, SetTo(p))
           n == Len(queue)
<1>1. /\ n \in Nat /\ DOMAIN queue = 1..n /\ DOMAIN longer = 1..(n + 1)
      /\ \A i \in 1..n : longer[i] = queue[i]
      /\ longer[n + 1] = SetTo(p)
  BY SetToType, AppendProperties
<1>2. ~IsList(SetTo(p))
  BY DEF IsList, SetTo
<1> HIDE DEF longer
<1>3. \A i \in DOMAIN longer : IsList(longer[i]) => i \in DOMAIN queue /\ longer[i] = queue[i]
  BY <1>1, <1>2
<1>4. \A i \in DOMAIN queue : i \in DOMAIN longer /\ longer[i] = queue[i]
  BY <1>1
<1> HIDE DEF n
<1> QED BY <1>3, <1>4 DEF LeavesAt, longer

LEMMA SaveLeaves ==
    ASSUME NEW queue \in Seq(Call), NEW base, NEW list \in Seq(Profile),
           NEW p \in Profile \cup {NoProfile}
    PROVE  /\ queue \o <<SetList(list), SetTo(p)>> \in Seq(Call)
           /\ LeavesAt(queue \o <<SetList(list), SetTo(p)>>, base, list)
           /\ \A i \in DOMAIN (queue \o <<SetList(list), SetTo(p)>>) :
                  LET call == (queue \o <<SetList(list), SetTo(p)>>)[i]
                  IN  \/ i \in DOMAIN queue /\ call = queue[i]
                      \/ call = SetList(list)
                      \/ ~IsList(call)
<1> DEFINE n == Len(queue)
           longer == queue \o <<SetList(list), SetTo(p)>>
<1>1. SetList(list) \in Call /\ SetTo(p) \in Call /\ n \in Nat /\ DOMAIN queue = 1..n
  BY SetListType, SetToType
<1>2. /\ longer \in Seq(Call) /\ DOMAIN longer = 1..(n + 2)
      /\ \A i \in 1..n : longer[i] = queue[i]
      /\ longer[n + 1] = SetList(list)
      /\ longer[n + 2] = SetTo(p)
  BY <1>1
<1>3. ~IsList(SetTo(p)) /\ IsList(SetList(list)) /\ SetList(list).list = list
  BY DEF IsList, SetTo, SetList
<1> HIDE DEF longer
<1>4. \A i \in DOMAIN longer :
          \/ i \in DOMAIN queue /\ longer[i] = queue[i] /\ i < n + 1
          \/ i = n + 1
          \/ ~IsList(longer[i])
  BY <1>1, <1>2, <1>3
<1>5. n + 1 \in DOMAIN longer
  BY <1>1, <1>2
<1>6. LeavesAt(longer, base, list)
  BY <1>2, <1>3, <1>4, <1>5 DEF LeavesAt
<1> QED BY <1>2, <1>4, <1>6 DEF longer

LEMMA DeliveredLeaves ==
    ASSUME NEW queue \in Seq(Call), queue # <<>>, NEW base, NEW list,
           LeavesAt(queue, base, list)
    PROVE  LeavesAt(Tail(queue), IF IsList(Head(queue)) THEN Head(queue).list ELSE base, list)
<1> DEFINE n == Len(queue)
           rest == Tail(queue)
           first == queue[1]
<1>1. /\ n \in Nat /\ n > 0 /\ DOMAIN queue = 1..n /\ DOMAIN rest = 1..(n - 1)
      /\ \A i \in 1..(n - 1) : rest[i] = queue[i + 1]
      /\ Head(queue) = first
  BY EmptySeq, HeadTailProperties
<1> HIDE DEF rest, n, first
<1>2. ASSUME NEW i \in DOMAIN rest, IsList(rest[i]),
             \A j \in DOMAIN rest : i < j => ~IsList(rest[j])
      PROVE  rest[i].list = list
  <2>1. i + 1 \in DOMAIN queue /\ queue[i + 1] = rest[i]
    BY <1>1
  <2>2. ASSUME NEW j \in DOMAIN queue, i + 1 < j
        PROVE  ~IsList(queue[j])
    <3>1. j - 1 \in DOMAIN rest /\ i < j - 1 /\ (j - 1) + 1 = j
      BY <1>1, <2>2
    <3> QED BY <1>1, <1>2, <3>1
  <2> QED BY <1>2, <2>1, <2>2 DEF LeavesAt
<1>3. ASSUME \A i \in DOMAIN rest : ~IsList(rest[i])
      PROVE  (IF IsList(first) THEN first.list ELSE base) = list
  <2>1. \A j \in DOMAIN queue : j # 1 => ~IsList(queue[j])
    <3>1. \A j \in DOMAIN queue : j # 1 => j - 1 \in DOMAIN rest /\ (j - 1) + 1 = j
      BY <1>1
    <3> QED BY <1>1, <1>3, <3>1
  <2>2. 1 \in DOMAIN queue /\ \A j \in DOMAIN queue : 1 < j => j # 1
    BY <1>1
  <2> QED BY <2>1, <2>2 DEF LeavesAt, first
<1> QED BY <1>1, <1>2, <1>3 DEF LeavesAt, rest

-----------------------------------------------------------------------------
(* What a step of the daemon does to the list. *)

\* The daemon has read the file: its pending list is in it, and no profile is gone.
Reread ==
    /\ file'.rotation = Synced.rotation
    /\ file.profiles \subseteq file'.profiles
    /\ cache' = file'
    /\ unsynced' = FALSE

\* It has died: a pending list is in the file all the same.
Died ==
    /\ file'.rotation = Synced.rotation
    /\ file'.profiles = file.profiles
    /\ UNCHANGED <<cache, unsynced>>
    /\ crashed'

\* It has saved the profile in effect from its cache.
Saved ==
    /\ file'.rotation = Synced.rotation
    /\ file.profiles \subseteq file'.profiles
    /\ cache'.rotation = cache.rotation
    /\ unsynced' = FALSE
    /\ ~crashed /\ ~crashed'

LEMMA SaveCurrentSaves == IInv /\ SaveCurrent => Saved
<1> SUFFICES ASSUME IInv, SaveCurrent PROVE Saved
  OBVIOUS
<1>1. Synced \in Group /\ Synced.profiles = file.profiles /\ cache \in Group
  BY SyncedFile DEF IInv, TypeOK
<1>2. \A g \in Group : /\ [g EXCEPT !.profiles = @ \cup {current}].rotation = g.rotation
                        /\ g.profiles \subseteq [g EXCEPT !.profiles = @ \cup {current}].profiles
  BY DEF Group
<1> QED BY <1>1, <1>2 DEF SaveCurrent, Saved

LEMMA ApplyRereads ==
    ASSUME IInv, NEW f \in Group, NEW p, Apply(f, p),
           f.rotation = Synced.rotation, f.profiles = file.profiles
    PROVE  Reread
<1>1. PICK applied \in Candidates(f.profiles, p) : StorePosition(f, applied)
  BY DEF Apply
<1>2. applied \in Profile
  BY <1>1, CandidatesType DEF Group
<1> QED BY <1>1, <1>2, StorePositionKeeps DEF Apply, Reread

LEMMA SetProfileRereads ==
    ASSUME IInv, NEW p, SetProfile(p)
    PROVE  Reread /\ ~crashed /\ ~crashed'
<1>1. Synced \in Group /\ Synced.profiles = file.profiles
  BY SyncedFile
<1> QED BY <1>1, ApplyRereads DEF SetProfile, Apply

LEMMA ShortcutRereads ==
    ASSUME IInv, OnNextProfile \/ OnPreviousProfile \/ ReadProfiles
    PROVE  Reread /\ ~crashed /\ ~crashed'
<1>1. cache.rotation \in Seq(Profile) /\ cache.entry \in Int /\ cache.entry >= -1
  BY DEF IInv, TypeOK, Group
<1>2. CASE OnNextProfile
  <2> DEFINE pos == NextPosition(cache.rotation, cache.entry)
             f == [Synced EXCEPT !.entry = pos]
  <2>1. pos \in Int
    BY <1>1, <1>2, NextPositionListed DEF OnNextProfile
  <2>2. Apply(f, At(cache.rotation, pos)) /\ ~crashed
    BY <1>2 DEF OnNextProfile
  <2>3. f \in Group /\ f.rotation = Synced.rotation /\ f.profiles = file.profiles
    BY <2>1, SyncedFile
  <2> HIDE DEF pos, f
  <2> QED BY <2>2, <2>3, ApplyRereads DEF Apply
<1>3. CASE OnPreviousProfile
  <2> DEFINE pos == PreviousPosition(cache.rotation, cache.entry)
             f == [Synced EXCEPT !.entry = pos]
  <2>1. pos \in Int
    BY <1>1, <1>3, PreviousPositionType DEF OnPreviousProfile
  <2>2. Apply(f, At(cache.rotation, pos)) /\ ~crashed
    BY <1>3 DEF OnPreviousProfile
  <2>3. f \in Group /\ f.rotation = Synced.rotation /\ f.profiles = file.profiles
    BY <2>1, SyncedFile
  <2> HIDE DEF pos, f
  <2> QED BY <2>2, <2>3, ApplyRereads DEF Apply
<1>4. CASE ReadProfiles
  <2>1. Synced.profiles = file.profiles
    BY SyncedFile
  <2> QED BY <1>4, <2>1 DEF ReadProfiles, Reread
<1> QED BY <1>2, <1>3, <1>4

LEMMA OutOfRangeRereads ==
    ASSUME IInv, OnPreviousProfileOutOfRange
    PROVE  ~crashed /\ (Died \/ (Reread /\ ~crashed'))
<1> DEFINE pos == PreviousPosition(cache.rotation, cache.entry)
           f == [Synced EXCEPT !.entry = pos]
<1>1. cache.rotation \in Seq(Profile) /\ cache.entry \in Int /\ cache.rotation # <<>>
  BY DEF IInv, TypeOK, Group, OnPreviousProfileOutOfRange
<1>2. pos \in Int
  BY <1>1, PreviousPositionType
<1>3. f \in Group /\ f.rotation = Synced.rotation /\ f.profiles = file.profiles
  BY <1>2, SyncedFile
<1>4. /\ ~crashed
      /\ \/ file' = f /\ crashed' = TRUE /\ UNCHANGED <<cache, unsynced, current>>
         \/ Apply(f, NoProfile)
  BY DEF OnPreviousProfileOutOfRange
<1> HIDE DEF pos, f
<1>5. CASE Apply(f, NoProfile)
  BY <1>3, <1>4, <1>5, ApplyRereads DEF Apply
<1>6. CASE file' = f /\ crashed' = TRUE /\ UNCHANGED <<cache, unsynced, current>>
  BY <1>3, <1>4, <1>6 DEF Died
<1> QED BY <1>4, <1>5, <1>6

LEMMA RestartRereads ==
    ASSUME IInv, Restart
    PROVE  /\ crashed /\ ~crashed'
           /\ file'.rotation = file.rotation
           /\ file.profiles \subseteq file'.profiles
           /\ cache' = file'
           /\ unsynced' = FALSE
<1>1. PICK applied \in Candidates(file.profiles, current) : StorePosition(file, applied)
  BY DEF Restart
<1>2. file \in Group /\ applied \in Profile
  BY <1>1, CandidatesType DEF IInv, TypeOK, Group
<1> QED BY <1>1, <1>2, StorePositionKeeps DEF Restart

\* A deletion leaves the file with names that are there, if it had no others.
LEMMA DeletionKeepsNames ==
    ASSUME IInv, NEW p \in Profile, DeleteProfile(p),
           ToSet(file.rotation) \subseteq file.profiles
    PROVE  ToSet(file'.rotation) \subseteq file'.profiles
<1>1. PICK list \in SeqOf(ToSet(file.rotation) \ {p}, Len(file.rotation)) :
          file' = [file EXCEPT !.profiles = @ \ {p}, !.rotation = list]
  BY DEF DeleteProfile
<1>2. PICK n \in 0..Len(file.rotation) : list \in [1..n -> ToSet(file.rotation) \ {p}]
  BY DEF SeqOf
<1>3. ToSet(list) \subseteq ToSet(file.rotation) \ {p}
  BY <1>2 DEF ToSet
<1>4. file' = [profiles |-> file.profiles \ {p}, rotation |-> list, entry |-> file.entry]
  BY <1>1 DEF IInv, TypeOK, Group
<1> QED BY <1>3, <1>4

\* What the rest of a deletion does.
LEMMA RestoreKeeps ==
    ASSUME IInv, Restore
    PROVE  /\ file'.rotation = file.rotation
           /\ file.profiles \subseteq file'.profiles
           /\ UNCHANGED <<cache, unsynced, current, crashed, isOpen, rows, row, calls,
                          drifted, revived>>
           /\ stage.kind = "restore" /\ stage'.kind = "delete"
           /\ chosen' \in {Default, chosen}
<1>1. CASE file.profiles = {}
  BY <1>1 DEF Restore, CreateDefault, AskFirst, listVars, ghosts, IInv, TypeOK, Group
<1>2. CASE file.profiles # {}
  BY <1>2 DEF Restore, AskFirst, listVars, ghosts, vars
<1> QED BY <1>1, <1>2

-----------------------------------------------------------------------------
(* The steps of the page, by what they do to the daemon and to the types. *)

\* Those that leave daemon and file alone.
Quiet ==
    \/ SelectRow \/ EditAct \/ Save \/ Load
    \/ \E p \in Profile : SelectProfile(p)
    \/ DiscardChanges \/ SaveChanges \/ ReloadWidget
    \/ CallsLost

LEMMA QuietKeeps == Quiet => UNCHANGED <<vars, isOpen>>
<1>1. EditAct => UNCHANGED <<vars, isOpen>>
  BY EditIsFramed DEF EditFrame
<1>2. DiscardChanges \/ SaveChanges => UNCHANGED <<vars, isOpen>>
  BY DEF DiscardChanges, SaveChanges, Switched
<1>3. SelectRow \/ Save \/ Load \/ ReloadWidget => UNCHANGED <<vars, isOpen>>
  BY DEF SelectRow, Save, Load, ReloadWidget
<1>4. (\E p \in Profile : SelectProfile(p)) => UNCHANGED <<vars, isOpen>>
  BY DEF SelectProfile
<1>5. CallsLost => UNCHANGED <<vars, isOpen>>
  BY DEF CallsLost, Lost
<1> QED BY <1>1, <1>2, <1>3, <1>4, <1>5 DEF Quiet

LEMMA PageSteps ==
    [PageNext]_allVars =>
        \/ Closed
        \/ Quiet
        \/ \E p \in Profile : AddProfile(p)
        \/ DelProfile
        \/ Restore
        \/ isOpen /\ DeliverCall
        \/ isOpen /\ ShortcutOrRead
        \/ isOpen /\ DaemonDies
        \/ isOpen /\ Restart /\ UNCHANGED pageVars
        \/ UNCHANGED allVars
BY DEF PageNext, User, Daemon, Quiet, EditAct

\* A call is one that a client of the daemon may make.
LEMMA DeliveredType ==
    ASSUME PageTypeOK, DeliverCall
    PROVE  /\ Tail(calls) \in Seq(Call)
           /\ \/ IsList(Head(calls)) /\ SetProfileRotationList(Head(calls).list)
              \/ ~IsList(Head(calls)) /\ SetProfile(Head(calls).profile)
           /\ Head(calls).list \in Seq(Profile)
           /\ Head(calls).profile \in Profile \cup {NoProfile}
<1>1. Head(calls) \in Call /\ Tail(calls) \in Seq(Call)
  BY HeadTailProperties DEF PageTypeOK, DeliverCall
<1> QED BY <1>1 DEF DeliverCall, IsList, Call

\* Every step of the page is one of the daemon's, when clients may set any list.
LEMMA StepOfDaemon ==
    ASSUME IInv, PageTypeOK, [PageNext]_allVars
    PROVE  [Next]_vars \/ \E list \in Seq(Profile) : SetProfileRotationList(list)
<1>1. CASE Closed
  BY <1>1 DEF Closed
<1>2. CASE Quiet
  BY <1>2, QuietKeeps
<1>3. CASE \E p \in Profile : AddProfile(p)
  BY <1>3 DEF AddProfile, Next
<1>4. CASE DelProfile
  <2>1. DeleteProfile(chosen)
    BY <1>4 DEF DelProfile
  <2>2. chosen \in Profile
    BY <2>1 DEF DeleteProfile, IInv, TypeOK, Group
  <2> QED BY <2>1, <2>2 DEF Next
<1>5. CASE DeliverCall
  BY <1>5, DeliveredType DEF Next
<1>6. CASE ShortcutOrRead
  BY <1>6 DEF ShortcutOrRead, Next
<1>7. CASE DaemonDies
  BY <1>7 DEF DaemonDies, Next
<1>8. CASE Restart
  BY <1>8 DEF Next
<1>9. CASE Restore
  BY <1>9 DEF Restore, Next
<1>10. CASE UNCHANGED allVars
  BY <1>10 DEF allVars
<1> QED BY <1>1, <1>2, <1>3, <1>4, <1>5, <1>6, <1>7, <1>8, <1>9, <1>10, PageSteps

LEMMA ListKeeps ==
    ASSUME IInv, NEW list \in Seq(Profile), SetProfileRotationList(list)
    PROVE  IInv'
<1>1. cache' \in Group /\ cache'.entry >= -1
  BY DEF SetProfileRotationList, IInv, TypeOK, Group
<1> QED BY <1>1 DEF SetProfileRotationList, IInv, TypeOK

LEMMA IInvPageStep ==
    ASSUME IInv, PageTypeOK, [PageNext]_allVars
    PROVE  IInv'
BY StepOfDaemon, InvariantStep, ListKeeps

LEMMA SwitchedType ==
    ASSUME PageTypeOK, NEW called \in Seq(Call), Switched(called)
    PROVE  PageTypeOK'
<1>1. stage.target \in Profile \cup {NoProfile}
  BY DEF PageTypeOK, Stage
<1>2. calls' \in Seq(Call)
  BY <1>1, SetToType, AppendProperties DEF Switched
<1>3. stage' \in Stage
  BY DEF Switched, AskFirst, Idle, Stage
<1>4. rows' = rows /\ row' = row /\ chosen' = stage.target
  BY DEF Switched, listVars
<1> QED BY <1>1, <1>2, <1>3, <1>4 DEF PageTypeOK, CurrentRowExists

LEMMA QuietType ==
    ASSUME IInv, PageTypeOK, Quiet
    PROVE  PageTypeOK'
<1> USE DEF PageTypeOK
<1>1. CASE EditAct
  BY <1>1, EditStep, EditIsFramed DEF EditFrame
<1>2. CASE SelectRow
  BY <1>2 DEF SelectRow, CurrentRowExists
<1>3. CASE Save
  <2>1. calls' \in Seq(Call)
    BY <1>3, SaveLeaves DEF Save, SaveProfile
  <2> QED BY <1>3, <2>1 DEF Save, listVars, CurrentRowExists
<1>4. CASE Load
  BY <1>4 DEF Load, listVars, CurrentRowExists
<1>5. CASE \E p \in Profile : SelectProfile(p)
  BY <1>5 DEF SelectProfile, AskFirst, Stage, listVars, CurrentRowExists
<1>6. CASE DiscardChanges
  BY <1>6, SwitchedType DEF DiscardChanges
<1>7. CASE SaveChanges
  <2>1. calls \o <<SetList(rows), SetTo(chosen)>> \in Seq(Call)
    BY SaveLeaves
  <2>2. Switched(calls \o <<SetList(rows), SetTo(chosen)>>)
    BY <1>7 DEF SaveChanges
  <2> HIDE DEF PageTypeOK
  <2> QED BY <2>1, <2>2, SwitchedType
<1>8. CASE ReloadWidget
  <2>1. rows' \in Seq(Profile) /\ row' = -1
    BY <1>8, EmptySeq DEF ReloadWidget, IInv, TypeOK, Group
  <2>2. CurrentRowExists'
    BY <2>1 DEF CurrentRowExists
  <2> QED BY <1>8, <2>1, <2>2, IdleType DEF ReloadWidget
<1>9. CASE CallsLost
  BY <1>9, EmptySeq DEF CallsLost, Lost, listVars, CurrentRowExists
<1> QED BY <1>1, <1>2, <1>3, <1>4, <1>5, <1>6, <1>7, <1>8, <1>9 DEF Quiet

LEMMA PageTypeStep ==
    ASSUME IInv, PageTypeOK, [PageNext]_allVars
    PROVE  PageTypeOK'
<1> USE DEF PageTypeOK, CurrentRowExists
<1>1. CASE Closed
  BY <1>1 DEF Closed, pageVars, listVars
<1>2. CASE Quiet
  BY <1>2, QuietType
<1>3. CASE \E p \in Profile : AddProfile(p)
  BY <1>3 DEF AddProfile, AskFirst, Stage, listVars
<1>4. CASE DelProfile
  BY <1>4 DEF DelProfile, AskFirst, Stage, listVars
<1>5. CASE DeliverCall
  <2>1. calls' \in Seq(Call)
    BY <1>5, DeliveredType DEF DeliverCall
  <2> QED BY <1>5, <2>1 DEF DeliverCall, listVars
<1>6. CASE ShortcutOrRead
  BY <1>6 DEF ShortcutOrRead, pageVars, listVars
<1>7. CASE DaemonDies
  BY <1>7, EmptySeq DEF DaemonDies, Lost, pageVars, listVars
<1>8. CASE Restore
  <2>1. file'.profiles \subseteq Profile
    BY IInvPageStep DEF IInv, TypeOK, Group
  <2>2. stage' \in Stage
    BY <1>8, <2>1 DEF Restore, AskFirst, Stage
  <2>3. chosen' \in Profile \cup {NoProfile} /\ UNCHANGED <<rows, row, calls>>
    BY <1>8, RestoreKeeps, RotationAssumption
  <2> QED BY <2>2, <2>3
<1>9. CASE UNCHANGED pageVars
  BY <1>9 DEF pageVars, listVars
<1> QED BY <1>1, <1>2, <1>3, <1>4, <1>5, <1>6, <1>7, <1>8, <1>9, PageSteps DEF allVars

LEMMA PageInitType == PageInit => IInv /\ PageTypeOK
<1> SUFFICES ASSUME PageInit PROVE IInv /\ PageTypeOK
  OBVIOUS
<1>1. IInv
  BY InitIInv DEF PageInit
<1>2. rows \in Seq(Profile) /\ row = -1 /\ chosen \in Profile /\ calls = <<>> /\ stage = Idle
  BY <1>1 DEF PageInit, IInv, TypeOK, Group
<1>3. CurrentRowExists /\ calls \in Seq(Call)
  BY <1>2, EmptySeq DEF CurrentRowExists
<1> QED BY <1>1, <1>2, <1>3, IdleType DEF PageTypeOK

PageTyped == IInv /\ PageTypeOK

LEMMA PageTypedHolds == PageSpec => []PageTyped
<1>1. PageInit => PageTyped
  BY PageInitType DEF PageTyped
<1>2. PageTyped /\ [PageNext]_allVars => PageTyped'
  BY IInvPageStep, PageTypeStep DEF PageTyped
<1> QED BY <1>1, <1>2, PTL DEF PageSpec

\* The module is a client of the daemon like any other: whatever it does, the daemon
\* and the file see steps of ProfileRotation only.
THEOREM PageImplementsRotation ==
    ASSUME Lists = Seq(Profile)
    PROVE  PageSpec => Spec
<1>1. PageInit => Init
  BY DEF PageInit
<1>2. PageTyped /\ [PageNext]_allVars => [Next]_vars
  <2> SUFFICES ASSUME PageTyped, [PageNext]_allVars PROVE [Next]_vars
    OBVIOUS
  <2>1. [Next]_vars \/ \E list \in Lists : SetProfileRotationList(list)
    BY StepOfDaemon DEF PageTyped
  <2>2. (\E list \in Lists : SetProfileRotationList(list)) => Next
    BY DEF Next
  <2> QED BY <2>1, <2>2
<1> QED BY <1>1, <1>2, PageTypedHolds, PTL DEF PageSpec, Spec

\* So every property of ProfileRotation holds while the module is open, too.
THEOREM PageKeepsRotation ==
    ASSUME Lists = Seq(Profile)
    PROVE  PageSpec => []TypeOK /\ WalkFollowsList /\ SwitchesRespectDeletion
BY PageImplementsRotation, TypeCorrect, ShortcutsWalkTheList, DeletionRespected, PTL

-----------------------------------------------------------------------------
(* Why the page and the daemon agree.  RowsAreTheList and NamesExist speak  *)
(* of the moments when nothing is under way; the invariant says where the   *)
(* list is in between.                                                      *)

Agreed == ~unsynced => file.rotation = cache.rotation

\* Daemon and file have the same list, or the one still to be written, except between a
\* deletion and the switch that follows it.
Synchronised ==
    crashed \/ Agreed \/ stage.kind \in {"restore", "delete"}
        \/ (stage.kind = "reload" /\ calls # <<>> /\ ~IsList(calls[Len(calls)]))

\* The list that counts: that of the file when the daemon is dead.
Effective == IF crashed THEN file.rotation ELSE cache.rotation

\* No deletion is in progress.
Waits == stage.kind \in {"idle", "switch"}

\* Unless they were edited, the rows are what the calls under way leave the list at.
RowsSent ==
    ~drifted /\ Waits => LeavesAt(calls, Effective, rows)

\* Wherever a list is, its names are those of profiles.
NamesKnown ==
    ~revived =>
        /\ ToSet(file.rotation) \subseteq file.profiles
        /\ unsynced => ToSet(cache.rotation) \subseteq file.profiles
        /\ \A i \in DOMAIN calls :
               IsList(calls[i]) => ToSet(calls[i].list) \subseteq file.profiles
        /\ Waits => ToSet(rows) \subseteq file.profiles

LEMMA RereadAgrees == Reread => Agreed'
BY DEF Reread, Agreed

LEMMA SavedEffective ==
    ASSUME IInv, Saved
    PROVE  Effective' = Effective /\ (Agreed => Agreed')
<1>1. file \in Group
  BY DEF IInv, TypeOK
<1>2. Synced.rotation = IF unsynced THEN cache.rotation ELSE file.rotation
  BY <1>1 DEF Synced, Group
<1> QED BY <1>2 DEF Saved, Effective, Agreed

LEMMA RereadEffective ==
    ASSUME IInv, Agreed, Reread \/ Died
    PROVE  file'.rotation = cache.rotation
<1>1. file \in Group
  BY DEF IInv, TypeOK
<1>2. Synced.rotation = IF unsynced THEN cache.rotation ELSE file.rotation
  BY <1>1 DEF Synced, Group
<1> QED BY <1>1, <1>2 DEF Agreed, Reread, Died

LEMMA RereadNames ==
    ASSUME IInv, Reread \/ Died \/ Saved,
           ToSet(file.rotation) \subseteq file.profiles,
           unsynced => ToSet(cache.rotation) \subseteq file.profiles
    PROVE  /\ ToSet(file'.rotation) \subseteq file'.profiles
           /\ unsynced' => ToSet(cache'.rotation) \subseteq file'.profiles
           /\ file.profiles \subseteq file'.profiles
<1>1. file \in Group
  BY DEF IInv, TypeOK
<1>2. Synced.rotation = IF unsynced THEN cache.rotation ELSE file.rotation
  BY <1>1 DEF Synced, Group
<1>3. ToSet(file'.rotation) \subseteq file.profiles
  <2>1. CASE unsynced
    BY <1>2, <2>1 DEF Reread, Died, Saved
  <2>2. CASE ~unsynced
    BY <1>2, <2>2 DEF Reread, Died, Saved
  <2> QED BY <2>1, <2>2
<1>4. CASE Reread
  BY <1>3, <1>4 DEF Reread
<1>5. CASE Died
  BY <1>3, <1>5 DEF Died
<1>6. CASE Saved
  BY <1>3, <1>6 DEF Saved
<1> QED BY <1>4, <1>5, <1>6

-----------------------------------------------------------------------------
(* Each part is kept. *)

LEMMA SwitchedCalls ==
    ASSUME PageTypeOK, NEW called \in Seq(Call), Switched(called)
    PROVE  /\ stage.target \in Profile \cup {NoProfile}
           /\ calls' = Append(called, SetTo(stage.target))
           /\ calls' # <<>> /\ ~IsList(calls'[Len(calls')])
           /\ stage'.kind = IF stage.kind = "delete" THEN "reload" ELSE "idle"
           /\ rows' = rows
<1>1. stage.target \in Profile \cup {NoProfile}
  BY DEF PageTypeOK, Stage
<1>2. calls' = Append(called, SetTo(stage.target))
  BY DEF Switched
<1>3. calls' # <<>> /\ Len(calls') = Len(called) + 1 /\ calls'[Len(called) + 1] = SetTo(stage.target)
  BY <1>1, <1>2, SetToType, AppendProperties
<1>4. stage'.kind = IF stage.kind = "delete" THEN "reload" ELSE "idle"
  BY DEF Switched, AskFirst, Idle
<1> QED BY <1>1, <1>2, <1>3, <1>4 DEF Switched, listVars, IsList, SetTo

\* The calls that an answer about changes leads to.
LEMMA AnswerSwitches ==
    ASSUME PageTypeOK, DiscardChanges \/ SaveChanges
    PROVE  /\ stage.kind \in {"switch", "delete"}
           /\ \E called \in Seq(Call) : Switched(called)
<1>1. CASE DiscardChanges
  BY <1>1 DEF DiscardChanges, PageTypeOK
<1>2. CASE SaveChanges
  <2>1. calls \o <<SetList(rows), SetTo(chosen)>> \in Seq(Call)
    BY SaveLeaves DEF PageTypeOK
  <2> QED BY <1>2, <2>1 DEF SaveChanges
<1> QED BY <1>1, <1>2

LEMMA LastStays ==
    ASSUME NEW queue \in Seq(Call), queue # <<>>,
           IsList(Head(queue)), ~IsList(queue[Len(queue)])
    PROVE  Tail(queue) # <<>> /\ Tail(queue)[Len(Tail(queue))] = queue[Len(queue)]
<1> DEFINE n == Len(queue)
           rest == Tail(queue)
<1>1. /\ n \in Nat /\ n > 0 /\ Head(queue) = queue[1]
      /\ rest \in Seq(Call) /\ Len(rest) = n - 1
      /\ \A i \in 1..(n - 1) : rest[i] = queue[i + 1]
  BY EmptySeq, HeadTailProperties
<1> HIDE DEF n, rest
<1>2. n # 1
  BY <1>1 DEF n
<1>3. n - 1 \in 1..(n - 1) /\ (n - 1) + 1 = n
  BY <1>1, <1>2
<1>4. rest[n - 1] = queue[n]
  BY <1>1, <1>3
<1>5. rest # <<>>
  BY <1>1, <1>3
<1> QED BY <1>1, <1>4, <1>5 DEF rest, n

LEMMA SynchronisedStep ==
    ASSUME PageTyped, isOpen, Synchronised, [PageNext]_allVars
    PROVE  Synchronised'
<1> USE DEF PageTyped
<1>1. CASE EditAct \/ SelectRow \/ Load
  <2>1. UNCHANGED <<vars, stage, calls>>
    BY <1>1, EditIsFramed DEF EditFrame, SelectRow, Load
  <2> QED BY <2>1 DEF Synchronised, Agreed, vars
<1>2. CASE Save \/ \E p \in Profile : SelectProfile(p)
  <2>1. stage = Idle /\ UNCHANGED vars
    BY <1>2 DEF Save, SelectProfile, UserActs
  <2> QED BY <2>1 DEF Synchronised, Agreed, vars, Idle
<1>3. CASE DiscardChanges \/ SaveChanges
  <2>1. stage.kind \in {"switch", "delete"} /\ UNCHANGED vars
    BY <1>3, AnswerSwitches, QuietKeeps DEF Quiet
  <2>2. /\ calls' # <<>> /\ ~IsList(calls'[Len(calls')])
        /\ stage'.kind = IF stage.kind = "delete" THEN "reload" ELSE "idle"
    BY <1>3, AnswerSwitches, SwitchedCalls
  <2> QED BY <2>1, <2>2 DEF Synchronised, Agreed, vars
<1>4. CASE ReloadWidget
  <2>1. crashed \/ Agreed
    BY <1>4 DEF Synchronised, ReloadWidget
  <2>2. UNCHANGED vars
    BY <1>4 DEF ReloadWidget
  <2> QED BY <2>1, <2>2 DEF Synchronised, Agreed, vars
<1>5. CASE CallsLost
  BY <1>5 DEF CallsLost, Synchronised, vars
<1>6. CASE \E p \in Profile : AddProfile(p)
  <2>1. stage = Idle /\ file'.rotation = file.rotation /\ UNCHANGED <<cache, unsynced, crashed>>
    BY <1>6 DEF AddProfile, UserActs, CreateNewProfile, IInv, TypeOK, Group
  <2> QED BY <2>1 DEF Synchronised, Agreed, Idle
<1>7. CASE DelProfile
  BY <1>7 DEF DelProfile, AskFirst, Synchronised
<1>8. CASE DeliverCall
  <2>1. CASE ~IsList(Head(calls))
    <3>1. Reread
      BY <1>8, <2>1, DeliveredType, SetProfileRereads
    <3> QED BY <3>1, RereadAgrees DEF Synchronised
  <2>2. CASE IsList(Head(calls))
    <3>1. /\ SetProfileRotationList(Head(calls).list)
          /\ calls' = Tail(calls) /\ calls # <<>> /\ stage' = stage
      BY <1>8, <2>2, DeliveredType DEF DeliverCall
    <3>2. Agreed => Agreed'
      <4>1. /\ cache'.rotation = Head(calls).list
            /\ unsynced' = (unsynced \/ Head(calls).list # cache.rotation)
            /\ file' = file
        BY <3>1 DEF SetProfileRotationList, IInv, TypeOK, Group
      <4> QED BY <4>1 DEF Agreed
    <3>3. ASSUME stage.kind = "reload", ~IsList(calls[Len(calls)])
          PROVE  calls' # <<>> /\ ~IsList(calls'[Len(calls')])
      <4>1. Tail(calls) # <<>> /\ Tail(calls)[Len(Tail(calls))] = calls[Len(calls)]
        BY <2>2, <3>1, <3>3, LastStays DEF PageTypeOK
      <4> QED BY <3>1, <3>3, <4>1
    <3>4. ~crashed
      BY <3>1 DEF SetProfileRotationList
    <3> QED BY <3>1, <3>2, <3>3, <3>4 DEF Synchronised
  <2> QED BY <2>1, <2>2
<1>9. CASE ShortcutOrRead
  <2>1. CASE SaveCurrent
    <3>1. UNCHANGED <<stage, calls>>
      BY <1>9 DEF ShortcutOrRead, pageVars
    <3>2. ~crashed /\ (Agreed => Agreed')
      BY <2>1, SaveCurrentSaves, SavedEffective DEF Saved
    <3> QED BY <3>1, <3>2 DEF Synchronised
  <2>2. CASE ~SaveCurrent
    BY <1>9, <2>2, ShortcutRereads, RereadAgrees DEF ShortcutOrRead, Synchronised
  <2> QED BY <2>1, <2>2
<1>10. CASE DaemonDies
  BY <1>10, OutOfRangeRereads, RereadAgrees DEF DaemonDies, Died, Synchronised
<1>11. CASE Restart
  BY <1>11, RestartRereads DEF Synchronised, Agreed
<1>12. CASE Restore
  BY <1>12, RestoreKeeps DEF Synchronised
<1>13. CASE UNCHANGED allVars
  BY <1>13 DEF allVars, vars, pageVars, Synchronised, Agreed
<1> QED BY <1>1, <1>2, <1>3, <1>4, <1>5, <1>6, <1>7, <1>8, <1>9, <1>10, <1>11, <1>12, <1>13,
           PageSteps
        DEF Quiet, Closed

LEMMA RowsSentStep ==
    ASSUME PageTyped, isOpen, Synchronised, RowsSent, [PageNext]_allVars
    PROVE  RowsSent'
<1> USE DEF PageTyped, Effective
<1>1. calls \in Seq(Call) /\ rows \in Seq(Profile)
      /\ chosen \in Profile \cup {NoProfile}
  BY DEF PageTypeOK
<1>2. CASE EditAct
  <2>1. /\ rows' # rows => drifted'
        /\ drifted => drifted'
        /\ UNCHANGED <<vars, stage, calls>>
    BY <1>2, EditIsFramed DEF EditFrame
  <2> QED BY <2>1 DEF RowsSent, Waits, vars
<1>3. CASE SelectRow \/ Load \/ \E p \in Profile : SelectProfile(p)
  <2>1. UNCHANGED <<vars, rows, calls, drifted>> /\ stage = Idle
    BY <1>3 DEF SelectRow, Load, SelectProfile, UserActs, listVars, ghosts
  <2> QED BY <2>1 DEF RowsSent, Waits, vars, Idle
<1>4. CASE Save
  <2>1. calls' = calls \o <<SetList(rows), SetTo(chosen)>> /\ rows' = rows
    BY <1>4 DEF Save, SaveProfile, listVars
  <2>2. LeavesAt(calls', Effective', rows')
    BY <1>1, <2>1, SaveLeaves
  <2> QED BY <2>2 DEF RowsSent, Waits
<1>5. CASE DiscardChanges
  <2>1. Switched(calls) /\ stage.kind \in {"switch", "delete"} /\ drifted' = drifted
        /\ UNCHANGED vars
    BY <1>5 DEF DiscardChanges, Switched, ghosts
  <2>2. /\ calls' = Append(calls, SetTo(stage.target)) /\ rows' = rows
        /\ stage.target \in Profile \cup {NoProfile}
        /\ stage'.kind = IF stage.kind = "delete" THEN "reload" ELSE "idle"
    BY <1>1, <2>1, SwitchedCalls
  <2>3. Effective' = Effective
    BY <2>1 DEF vars
  <2>4. LeavesAt(calls, Effective, rows) => LeavesAt(calls', Effective', rows')
    BY <1>1, <2>2, <2>3, SetToLeaves
  <2> QED BY <2>1, <2>2, <2>4 DEF RowsSent, Waits
<1>6. CASE SaveChanges
  <2> DEFINE called == calls \o <<SetList(rows), SetTo(chosen)>>
  <2>1. called \in Seq(Call) /\ LeavesAt(called, Effective', rows)
    BY <1>1, SaveLeaves
  <2>2. Switched(called)
    BY <1>6 DEF SaveChanges
  <2> HIDE DEF called
  <2>3. /\ calls' = Append(called, SetTo(stage.target)) /\ rows' = rows
        /\ stage.target \in Profile \cup {NoProfile}
    BY <2>1, <2>2, SwitchedCalls
  <2>4. LeavesAt(calls', Effective', rows')
    BY <2>1, <2>3, SetToLeaves
  <2> QED BY <2>4 DEF RowsSent, Waits
<1>7. CASE ReloadWidget
  <2>1. /\ calls' = <<>> /\ drifted' = crashed /\ UNCHANGED vars
        /\ rows' = IF crashed THEN <<>> ELSE cache.rotation
    BY <1>7 DEF ReloadWidget
  <2>2. CASE crashed
    BY <2>1, <2>2 DEF RowsSent, Waits
  <2>3. CASE ~crashed
    <3>1. Effective' = rows'
      BY <2>1, <2>3 DEF vars
    <3> QED BY <2>1, <3>1, NothingLeaves DEF RowsSent, Waits
  <2> QED BY <2>2, <2>3
<1>8. ASSUME Lost, Waits => (~ListUnderWay => Effective' = Effective)
      PROVE  RowsSent'
  <2>1. calls' = <<>> /\ rows' = rows /\ stage' = stage /\ (drifted \/ ListUnderWay => drifted')
    BY <1>8 DEF Lost, listVars
  <2>2. ASSUME ~drifted', Waits PROVE Effective' = rows'
    <3>1. ~drifted /\ ~ListUnderWay
      BY <2>1, <2>2
    <3>2. LeavesAt(calls, Effective, rows) /\ Effective' = Effective
      BY <1>8, <2>2, <3>1 DEF RowsSent, Waits
    <3>3. \A i \in DOMAIN calls : ~IsList(calls[i])
      BY <3>1 DEF ListUnderWay, IsList
    <3> QED BY <2>1, <3>2, <3>3 DEF LeavesAt
  <2> QED BY <2>1, <2>2, NothingLeaves DEF RowsSent, Waits
<1>9. CASE CallsLost
  BY <1>8, <1>9 DEF CallsLost, vars
<1>10. CASE \E p \in Profile : AddProfile(p)
  <2>1. /\ stage = Idle /\ file'.rotation = file.rotation
        /\ UNCHANGED <<cache, crashed, rows, calls, drifted>>
    BY <1>10 DEF AddProfile, UserActs, CreateNewProfile, IInv, TypeOK, Group, listVars, ghosts
  <2> QED BY <2>1 DEF RowsSent, Waits, Idle
<1>11. CASE DelProfile
  BY <1>11 DEF DelProfile, AskFirst, RowsSent, Waits
<1>12. ASSUME Waits, ~crashed, Reread \/ Died, crashed' => Died, ~crashed' => Reread
       PROVE  Effective' = Effective
  <2>1. Agreed
    BY <1>12 DEF Synchronised, Waits
  <2>2. file'.rotation = cache.rotation
    BY <1>12, <2>1, RereadEffective
  <2> QED BY <1>12, <2>2 DEF Reread
<1>13. CASE DeliverCall
  <2>1. /\ calls' = Tail(calls) /\ calls # <<>>
        /\ UNCHANGED <<rows, stage, drifted>>
    BY <1>13 DEF DeliverCall, listVars, ghosts
  <2>2. Waits => Effective' = IF IsList(Head(calls)) THEN Head(calls).list ELSE Effective
    <3>1. CASE IsList(Head(calls))
      <4>1. SetProfileRotationList(Head(calls).list)
        BY <1>13, <3>1, DeliveredType
      <4>2. cache'.rotation = Head(calls).list /\ ~crashed'
        BY <4>1 DEF SetProfileRotationList, IInv, TypeOK, Group
      <4> QED BY <3>1, <4>2
    <3>2. CASE ~IsList(Head(calls))
      <4>1. Reread /\ ~crashed /\ ~crashed'
        BY <1>13, <3>2, DeliveredType, SetProfileRereads
      <4> QED BY <1>12, <3>2, <4>1
    <3> QED BY <3>1, <3>2
  <2>3. LeavesAt(calls, Effective, rows) =>
            LeavesAt(calls', IF IsList(Head(calls)) THEN Head(calls).list ELSE Effective, rows)
    BY <1>1, <2>1, DeliveredLeaves
  <2> HIDE DEF Effective
  <2> QED BY <2>1, <2>2, <2>3 DEF RowsSent, Waits
<1>14. ASSUME UNCHANGED pageVars, Waits => Effective' = Effective
       PROVE  RowsSent'
  BY <1>14 DEF pageVars, listVars, ghosts, RowsSent, Waits
<1>15. CASE ShortcutOrRead
  <2>1. CASE SaveCurrent
    <3>1. Effective' = Effective
      BY <2>1, SaveCurrentSaves, SavedEffective
    <3> QED BY <1>14, <1>15, <3>1 DEF ShortcutOrRead
  <2>2. CASE ~SaveCurrent
    BY <1>12, <1>14, <1>15, <2>2, ShortcutRereads DEF ShortcutOrRead
  <2> QED BY <2>1, <2>2
<1>16. CASE DaemonDies
  <2>1. ~crashed /\ (Died \/ (Reread /\ ~crashed'))
    BY <1>16, OutOfRangeRereads DEF DaemonDies
  <2>2. Waits => Effective' = Effective
    BY <1>12, <2>1 DEF Died
  <2>3. Lost \/ UNCHANGED pageVars
    BY <1>16 DEF DaemonDies
  <2> QED BY <1>8, <1>14, <2>2, <2>3
<1>17. CASE Restart /\ UNCHANGED pageVars
  <2>1. Effective' = Effective
    BY <1>17, RestartRereads
  <2> QED BY <1>14, <1>17, <2>1
<1>18. CASE Restore
  BY <1>18, RestoreKeeps DEF RowsSent, Waits
<1>19. CASE UNCHANGED allVars
  BY <1>19 DEF allVars, vars, pageVars, listVars, ghosts, RowsSent, Waits
<1> QED BY <1>2, <1>3, <1>4, <1>5, <1>6, <1>7, <1>9, <1>10, <1>11, <1>13, <1>15, <1>16, <1>17,
           <1>18, <1>19, PageSteps DEF Quiet, Closed

\* The names of the list in every call of a queue.
ListsIn(queue, names) == \A i \in DOMAIN queue : IsList(queue[i]) => ToSet(queue[i].list) \subseteq names

LEMMA AppendedNames ==
    ASSUME NEW queue \in Seq(Call), NEW p \in Profile \cup {NoProfile}, NEW names,
           ListsIn(queue, names)
    PROVE  ListsIn(Append(queue, SetTo(p)), names)
<1> DEFINE longer == Append(queue, SetTo(p))
           n == Len(queue)
<1>1. /\ n \in Nat /\ DOMAIN queue = 1..n /\ DOMAIN longer = 1..(n + 1)
      /\ \A i \in 1..n : longer[i] = queue[i]
      /\ longer[n + 1] = SetTo(p)
  BY SetToType, AppendProperties
<1>2. ~IsList(SetTo(p))
  BY DEF IsList, SetTo
<1> HIDE DEF longer
<1>3. \A i \in DOMAIN longer : IsList(longer[i]) => i \in DOMAIN queue /\ longer[i] = queue[i]
  BY <1>1, <1>2
<1> QED BY <1>3 DEF ListsIn, longer

LEMMA SavedNames ==
    ASSUME NEW queue \in Seq(Call), NEW list \in Seq(Profile),
           NEW p \in Profile \cup {NoProfile}, NEW names,
           ListsIn(queue, names), ToSet(list) \subseteq names
    PROVE  ListsIn(queue \o <<SetList(list), SetTo(p)>>, names)
<1>1. SetList(list).list = list
  BY DEF SetList
<1> QED BY <1>1, SaveLeaves DEF ListsIn

LEMMA DeliveredNames ==
    ASSUME NEW queue \in Seq(Call), queue # <<>>, NEW names, ListsIn(queue, names)
    PROVE  /\ ListsIn(Tail(queue), names)
           /\ IsList(Head(queue)) => ToSet(Head(queue).list) \subseteq names
<1> DEFINE n == Len(queue)
           rest == Tail(queue)
<1>1. /\ n \in Nat /\ n > 0 /\ DOMAIN queue = 1..n /\ DOMAIN rest = 1..(n - 1)
      /\ \A i \in 1..(n - 1) : rest[i] = queue[i + 1]
      /\ Head(queue) = queue[1]
  BY EmptySeq, HeadTailProperties
<1> HIDE DEF rest, n
<1>2. \A i \in DOMAIN rest : i + 1 \in DOMAIN queue /\ rest[i] = queue[i + 1]
  BY <1>1
<1>3. 1 \in DOMAIN queue
  BY <1>1
<1> QED BY <1>1, <1>2, <1>3 DEF ListsIn, rest

LEMMA NamesStep ==
    ASSUME PageTyped, isOpen, Synchronised, NamesKnown, [PageNext]_allVars
    PROVE  NamesKnown'
<1> USE DEF PageTyped
<1>1. calls \in Seq(Call) /\ rows \in Seq(Profile)
      /\ chosen \in Profile \cup {NoProfile}
  BY DEF PageTypeOK
<1>2. ASSUME ~revived
      PROVE  /\ ToSet(file.rotation) \subseteq file.profiles
             /\ unsynced => ToSet(cache.rotation) \subseteq file.profiles
             /\ ListsIn(calls, file.profiles)
             /\ Waits => ToSet(rows) \subseteq file.profiles
  BY <1>2 DEF NamesKnown, ListsIn
<1>3. NamesKnown' <=>
         (~revived' =>
             /\ ToSet(file'.rotation) \subseteq file'.profiles
             /\ unsynced' => ToSet(cache'.rotation) \subseteq file'.profiles
             /\ ListsIn(calls', file'.profiles)
             /\ Waits' => ToSet(rows') \subseteq file'.profiles)
  BY DEF NamesKnown, ListsIn
<1>4. CASE EditAct
  <2>1. /\ ToSet(rows') \subseteq ToSet(rows) \cup file.profiles
        /\ UNCHANGED <<vars, stage, calls, revived>>
    BY <1>4, EditStep, EditIsFramed DEF EditFrame
  <2> QED BY <1>2, <1>3, <2>1 DEF vars, Waits
<1>5. CASE SelectRow \/ Load \/ \E p \in Profile : SelectProfile(p)
  <2>1. UNCHANGED <<vars, rows, calls, revived>> /\ stage = Idle
    BY <1>5 DEF SelectRow, Load, SelectProfile, UserActs, listVars, ghosts
  <2> QED BY <1>2, <1>3, <2>1 DEF vars, Waits, Idle
<1>6. CASE Save
  <2>1. /\ calls' = calls \o <<SetList(rows), SetTo(chosen)>>
        /\ UNCHANGED <<vars, rows, stage, revived>>
        /\ Waits
    BY <1>6 DEF Save, SaveProfile, listVars, UserActs, Idle, Waits
  <2>2. ASSUME ~revived PROVE ListsIn(calls', file.profiles)
    BY <1>1, <1>2, <2>1, <2>2, SavedNames
  <2> QED BY <1>2, <1>3, <2>1, <2>2 DEF vars, Waits
<1>7. CASE DiscardChanges
  <2>1. /\ Switched(calls) /\ stage.kind \in {"switch", "delete"} /\ revived' = revived
        /\ UNCHANGED vars
    BY <1>7 DEF DiscardChanges, Switched, ghosts
  <2>2. /\ calls' = Append(calls, SetTo(stage.target)) /\ rows' = rows
        /\ stage.target \in Profile \cup {NoProfile}
        /\ stage'.kind = IF stage.kind = "delete" THEN "reload" ELSE "idle"
    BY <1>1, <2>1, SwitchedCalls
  <2>3. ASSUME ~revived PROVE ListsIn(calls', file.profiles)
    BY <1>1, <1>2, <2>2, <2>3, AppendedNames
  <2> QED BY <1>2, <1>3, <2>1, <2>2, <2>3 DEF vars, Waits
<1>8. CASE SaveChanges
  <2> DEFINE called == calls \o <<SetList(rows), SetTo(chosen)>>
  <2>1. Switched(called) /\ stage.kind \in {"switch", "delete"} /\ UNCHANGED vars
        /\ revived' = (revived \/ stage.kind = "delete")
    BY <1>8 DEF SaveChanges, Switched
  <2>2. called \in Seq(Call)
    BY <1>1, SaveLeaves
  <2>3. ASSUME ~revived' PROVE ListsIn(called, file.profiles) /\ ~revived /\ stage.kind = "switch"
    <3>1. ~revived /\ stage.kind = "switch"
      BY <2>1, <2>3
    <3>2. ListsIn(calls, file.profiles) /\ ToSet(rows) \subseteq file.profiles
      BY <1>2, <3>1 DEF Waits
    <3> QED BY <1>1, <3>1, <3>2, SavedNames
  <2> HIDE DEF called
  <2>4. /\ calls' = Append(called, SetTo(stage.target)) /\ rows' = rows
        /\ stage.target \in Profile \cup {NoProfile}
    BY <2>1, <2>2, SwitchedCalls
  <2>5. ASSUME ~revived' PROVE ListsIn(calls', file.profiles)
    BY <2>2, <2>3, <2>4, <2>5, AppendedNames
  <2> QED BY <1>2, <1>3, <2>1, <2>3, <2>4, <2>5 DEF vars, Waits
<1>9. CASE ReloadWidget
  <2>1. /\ stage.kind = "reload" /\ calls = <<>> /\ UNCHANGED <<vars, calls, revived>>
        /\ rows' = IF crashed THEN <<>> ELSE cache.rotation
    BY <1>9 DEF ReloadWidget
  <2>2. crashed \/ Agreed
    BY <2>1 DEF Synchronised
  <2>3. ASSUME ~revived PROVE ToSet(rows') \subseteq file.profiles
    <3>1. CASE crashed
      BY <2>1, <3>1 DEF ToSet
    <3>2. CASE ~crashed
      BY <1>2, <2>1, <2>2, <2>3, <3>2 DEF Agreed
    <3> QED BY <3>1, <3>2
  <2> QED BY <1>2, <1>3, <2>1, <2>3 DEF vars
<1>10. ASSUME UNCHANGED <<rows, stage, revived>>, calls' = <<>> \/ calls' = calls,
              file.profiles \subseteq file'.profiles,
              ~revived => /\ ToSet(file'.rotation) \subseteq file'.profiles
                          /\ unsynced' => ToSet(cache'.rotation) \subseteq file'.profiles
       PROVE  NamesKnown'
  <2>1. ASSUME ~revived PROVE ListsIn(calls', file'.profiles)
    BY <1>2, <1>10, <2>1 DEF ListsIn
  <2> QED BY <1>2, <1>3, <1>10, <2>1 DEF Waits
<1>11. CASE CallsLost
  BY <1>2, <1>10, <1>11 DEF CallsLost, Lost, vars, listVars
<1>12. CASE \E p \in Profile : AddProfile(p)
  <2>1. /\ stage = Idle /\ file'.rotation = file.rotation /\ file.profiles \subseteq file'.profiles
        /\ UNCHANGED <<cache, unsynced, rows, calls, revived>>
    BY <1>12 DEF AddProfile, UserActs, CreateNewProfile, IInv, TypeOK, Group, listVars, ghosts
  <2>2. ASSUME ~revived PROVE ListsIn(calls', file'.profiles)
    BY <1>2, <2>1, <2>2 DEF ListsIn
  <2> QED BY <1>2, <1>3, <2>1, <2>2 DEF Waits, Idle
<1>13. CASE DelProfile
  <2>1. /\ DeleteProfile(chosen) /\ stage'.kind = "restore"
        /\ revived' = (revived \/ ListUnderWay \/ unsynced)
        /\ UNCHANGED <<unsynced, calls>>
    <3>1. stage'.kind = "restore"
      BY <1>13 DEF DelProfile, AskFirst
    <3>2. DeleteProfile(chosen) /\ UNCHANGED calls
      BY <1>13 DEF DelProfile
    <3>3. revived' = (revived \/ ListUnderWay \/ unsynced)
      BY <1>13, Zenon DEF DelProfile
    <3> QED BY <3>1, <3>2, <3>3 DEF DeleteProfile
  <2>2. chosen \in Profile
    BY <2>1 DEF DeleteProfile, IInv, TypeOK, Group
  <2>3. ASSUME ~revived'
        PROVE  /\ ToSet(file'.rotation) \subseteq file'.profiles
               /\ ~unsynced'
               /\ ListsIn(calls', file'.profiles)
    <3>1. ~revived /\ ~ListUnderWay /\ ~unsynced
      BY <2>1, <2>3
    <3>2. ToSet(file'.rotation) \subseteq file'.profiles
      BY <1>2, <2>1, <2>2, <3>1, DeletionKeepsNames
    <3>3. ListsIn(calls', file'.profiles)
      BY <2>1, <3>1 DEF ListsIn, ListUnderWay, IsList
    <3> QED BY <2>1, <3>1, <3>2, <3>3
  <2> QED BY <1>3, <2>1, <2>3 DEF Waits
<1>14. CASE DeliverCall
  <2>1. /\ calls' = Tail(calls) /\ calls # <<>>
        /\ UNCHANGED <<rows, stage, revived>>
    BY <1>14 DEF DeliverCall, listVars, ghosts
  <2>2. ASSUME ~revived
        PROVE  /\ ListsIn(calls', file.profiles)
               /\ IsList(Head(calls)) => ToSet(Head(calls).list) \subseteq file.profiles
    BY <1>1, <1>2, <2>1, <2>2, DeliveredNames
  <2>3. CASE IsList(Head(calls))
    <3>1. SetProfileRotationList(Head(calls).list)
      BY <1>14, <2>3, DeliveredType
    <3>2. cache'.rotation = Head(calls).list /\ file' = file
      BY <3>1 DEF SetProfileRotationList, IInv, TypeOK, Group
    <3> QED BY <1>2, <1>3, <2>1, <2>2, <2>3, <3>2 DEF Waits
  <2>4. CASE ~IsList(Head(calls))
    <3>1. Reread
      BY <1>14, <2>4, DeliveredType, SetProfileRereads
    <3>2. ASSUME ~revived
          PROVE  /\ ToSet(file'.rotation) \subseteq file'.profiles
                 /\ unsynced' => ToSet(cache'.rotation) \subseteq file'.profiles
                 /\ file.profiles \subseteq file'.profiles
      BY <1>2, <3>1, <3>2, RereadNames
    <3>3. ASSUME ~revived PROVE ListsIn(calls', file'.profiles)
      BY <2>2, <3>2, <3>3 DEF ListsIn
    <3> QED BY <1>2, <1>3, <2>1, <3>2, <3>3 DEF Waits
  <2> QED BY <2>3, <2>4
<1>15. ASSUME Reread \/ Died \/ Saved, calls' = <<>> \/ calls' = calls, UNCHANGED <<rows, stage, revived>>
       PROVE  NamesKnown'
  <2>1. file.profiles \subseteq file'.profiles
    BY <1>15 DEF Reread, Died, Saved
  <2>2. ASSUME ~revived
        PROVE  /\ ToSet(file'.rotation) \subseteq file'.profiles
               /\ unsynced' => ToSet(cache'.rotation) \subseteq file'.profiles
    BY <1>2, <1>15, <2>2, RereadNames
  <2> QED BY <1>10, <1>15, <2>1, <2>2
<1>16. CASE ShortcutOrRead
  BY <1>15, <1>16, ShortcutRereads, SaveCurrentSaves
     DEF ShortcutOrRead, pageVars, listVars, ghosts
<1>17. CASE DaemonDies
  <2>1. Died \/ Reread
    BY <1>17, OutOfRangeRereads DEF DaemonDies
  <2> QED BY <1>15, <1>17, <2>1 DEF DaemonDies, Lost, pageVars, listVars, ghosts
<1>18. CASE Restart /\ UNCHANGED pageVars
  BY <1>2, <1>10, <1>18, RestartRereads DEF pageVars, listVars, ghosts
<1>19. CASE Restore
  <2>1. ASSUME ~revived PROVE ListsIn(calls', file'.profiles)
    BY <1>2, <1>19, <2>1, RestoreKeeps DEF ListsIn
  <2> QED BY <1>2, <1>3, <1>19, <2>1, RestoreKeeps DEF Waits
<1>20. CASE UNCHANGED allVars
  BY <1>2, <1>3, <1>20 DEF allVars, vars, pageVars, listVars, ghosts, Waits
<1> QED BY <1>4, <1>5, <1>6, <1>7, <1>8, <1>9, <1>11, <1>12, <1>13, <1>14, <1>16, <1>17, <1>18,
           <1>19, <1>20, PageSteps DEF Quiet, Closed

-----------------------------------------------------------------------------
PageIInv == PageTyped /\ (isOpen => Synchronised /\ RowsSent /\ NamesKnown)

LEMMA PageInitIInv == PageInit => PageIInv
<1> SUFFICES ASSUME PageInit PROVE PageIInv
  OBVIOUS
<1>1. PageTyped
  BY PageInitType DEF PageTyped
<1>2. /\ file.rotation = <<>> /\ cache = file /\ unsynced = FALSE /\ crashed = FALSE
      /\ rows = <<>> /\ calls = <<>>
  BY DEF PageInit, Init
<1>3. Synchronised /\ RowsSent
  BY <1>2, NothingLeaves DEF Synchronised, Agreed, RowsSent, Effective
<1>4. NamesKnown
  BY <1>2 DEF NamesKnown, ToSet
<1> QED BY <1>1, <1>3, <1>4 DEF PageIInv

LEMMA PageIInvStep == PageIInv /\ [PageNext]_allVars => PageIInv'
<1> SUFFICES ASSUME PageIInv, [PageNext]_allVars PROVE PageIInv'
  OBVIOUS
<1>1. PageTyped'
  BY IInvPageStep, PageTypeStep DEF PageIInv, PageTyped
<1>2. CASE isOpen
  BY <1>1, <1>2, SynchronisedStep, RowsSentStep, NamesStep DEF PageIInv
<1>3. CASE ~isOpen
  <2>1. ~isOpen'
    <3>1. CASE Quiet
      BY <1>3, <3>1, QuietKeeps
    <3>2. CASE Closed \/ UNCHANGED allVars
      BY <1>3, <3>2 DEF Closed, pageVars, allVars
    <3>3. CASE DelProfile \/ \E p \in Profile : AddProfile(p)
      BY <1>3, <3>3 DEF DelProfile, AddProfile, UserActs
    <3>4. CASE Restore
      BY <1>3, <3>4, RestoreKeeps DEF PageIInv, PageTyped
    <3> QED BY <1>3, <3>1, <3>2, <3>3, <3>4, PageSteps
  <2> QED BY <1>1, <2>1 DEF PageIInv
<1> QED BY <1>2, <1>3

\* Whatever is edited, saved, switched and deleted in the module while the shortcuts walk
\* the list and the daemon dies and comes back: when nothing is under way, the rows of the
\* page are the daemon's list and the list names profiles that exist, but for the ghosts'
\* cases.
THEOREM PageAgrees == PageSpec => []PageAndListAgree
<1>1. PageSpec => []PageIInv
  BY PageInitIInv, PageIInvStep, PTL DEF PageSpec
<1>2. PageIInv => PageAndListAgree
  <2> SUFFICES ASSUME PageIInv PROVE PageAndListAgree
    OBVIOUS
  <2>1. CurrentRowExists
    BY DEF PageIInv, PageTyped, PageTypeOK
  <2>2. RowsAreTheList
    <3> SUFFICES ASSUME AtRest, ~drifted PROVE rows = cache.rotation
      BY DEF RowsAreTheList
    <3>1. LeavesAt(<<>>, cache.rotation, rows)
      BY DEF PageIInv, RowsSent, Waits, Effective, AtRest, Idle
    <3> QED BY <3>1, NothingLeaves
  <2>3. NamesExist
    <3> SUFFICES ASSUME AtRest, ~revived PROVE ToSet(cache.rotation) \subseteq file.profiles
      BY DEF NamesExist
    <3>1. Agreed /\ NamesKnown
      BY DEF PageIInv, Synchronised, AtRest, Idle
    <3> QED BY <3>1 DEF Agreed, NamesKnown
  <2> QED BY <2>1, <2>2, <2>3 DEF PageAndListAgree
<1> QED BY <1>1, <1>2, PTL
=============================================================================
