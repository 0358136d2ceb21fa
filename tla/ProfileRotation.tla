-------------------------- MODULE ProfileRotation --------------------------
(***************************************************************************)
(* The profile rotation of one tablet: the daemon's global shortcuts "next *)
(* profile" and "previous profile" walk a list of profile names kept in    *)
(* tabletprofilesrc, with the position reached kept beside it.             *)
(*                                                                         *)
(* Two processes write that file.  The daemon (TabletHandler, through its  *)
(* ProfileManager) owns the position and the list; the KCM (through        *)
(* ProfileManagement) creates and deletes profiles, and a deletion edits   *)
(* the list as well.  Each works on a KConfig cache of its own: sync()     *)
(* writes the entries changed since the last one and leaves the others in  *)
(* the file alone, reparseConfiguration() syncs and reads the file anew.   *)
(*                                                                         *)
(* Positions are counted from 0, as in the code; -1 is "not in the list".  *)
(***************************************************************************)
EXTENDS Integers, Sequences, SequencesExt, FiniteSets

CONSTANTS
    Profile,    \* profile names
    Default,    \* the name of the profile created when there is none
    NoProfile,
    Lists       \* bound: the rotation lists that D-Bus clients set

ASSUME RotationAssumption ==
    /\ Default \in Profile
    /\ NoProfile \notin Profile
    /\ Lists \subseteq Seq(Profile)

\* The tablet's group: its profiles, ProfileRotationList and CurrentProfileEntry.
Group == [profiles : SUBSET Profile, rotation : Seq(Profile), entry : Int]

VARIABLES
    file,       \* tabletprofilesrc
    cache,      \* the daemon's KSharedConfig, one for all its profile managers
    unsynced,   \* the cache has a rotation list that is not in the file yet
    current,    \* TabletHandler: currentProfileList
    crashed     \* the daemon died of an index out of range

vars == <<file, cache, unsynced, current, crashed>>

-----------------------------------------------------------------------------
(* ProfileManager. *)

\* QStringList::at
At(list, pos) == list[pos + 1]

\* pos is what QStringList::indexOf returns for p.
IsIndexOf(list, p, pos) ==
    \/ pos = -1 /\ p \notin ToSet(list)
    \/ /\ pos \in 0..(Len(list) - 1)
       /\ At(list, pos) = p
       /\ \A before \in 0..(pos - 1) : At(list, before) # p

\* nextProfile: one further, from the end back to the start.
NextPosition(list, pos) == IF Len(list) <= pos + 1 THEN 0 ELSE pos + 1

\* Mutant of PreviousPosition: the size for the last position.
WrapsToSize(list, pos) == IF pos - 1 < 0 THEN Len(list) ELSE pos - 1

\* previousProfile: one back, from the start to the end.
PreviousPosition(list, pos) == IF pos - 1 < 0 THEN Len(list) - 1 ELSE pos - 1

\* The file after the daemon's sync(): its pending list replaces the file's.
Synced == [file EXCEPT !.rotation = IF unsynced THEN cache.rotation ELSE @]

-----------------------------------------------------------------------------
(* TabletHandler. *)

\* Mutant of Candidates: a profile that is not there is replaced by none.
NoFallback(profiles, p) == IF p \in profiles THEN {p} ELSE {NoProfile}

\* What becomes current when p is asked for and the profiles are those given: p, or
\* the first one there is, which the order of the file decides, or a new one.
Candidates(profiles, p) ==
    IF p \in profiles THEN {p} ELSE IF profiles # {} THEN profiles ELSE {Default}

\* mapTabletToCurrentScreenSpace saves the profile applied, and
\* updateCurrentProfileNumber stores its position.
StorePosition(f, applied) ==
    \E pos \in -1..(Len(f.rotation) - 1) :
        /\ IsIndexOf(f.rotation, applied, pos)
        /\ file' = [f EXCEPT !.entry = pos, !.profiles = @ \cup {applied}]

\* Mutant of Apply: the file is not read again, the profiles are those of the cache.
AppliesFromCache(f, p) ==
    /\ \E applied \in Candidates(cache.profiles, p) :
           /\ StorePosition(f, applied)
           /\ current' = applied
    /\ cache' = file'
    /\ unsynced' = FALSE
    /\ UNCHANGED crashed

\* setProfile on the file f: readProfiles reads it again, the profile is applied, its
\* position stored and synced.
Apply(f, p) ==
    /\ \E applied \in Candidates(f.profiles, p) :
           /\ StorePosition(f, applied)
           /\ current' = applied
    /\ cache' = file'
    /\ unsynced' = FALSE
    /\ UNCHANGED crashed

\* A client may ask for any name, also for one that is none.
SetProfile(p) ==
    /\ ~crashed
    /\ Apply(Synced, p)

\* The list is only put into the cache.
SetProfileRotationList(list) ==
    /\ ~crashed
    /\ cache' = [cache EXCEPT !.rotation = list]
    /\ unsynced' = (unsynced \/ list # cache.rotation)
    /\ UNCHANGED <<file, current, crashed>>

\* onNextProfile: the list and the position are the cached ones; nextProfile syncs
\* the new position before the profile is set.
OnNextProfile ==
    /\ ~crashed
    /\ cache.rotation # <<>>
    /\ LET pos == NextPosition(cache.rotation, cache.entry)
       IN  Apply([Synced EXCEPT !.entry = pos], At(cache.rotation, pos))

\* onPreviousProfile, for a position that is in the list ...
OnPreviousProfile ==
    /\ ~crashed
    /\ cache.rotation # <<>>
    /\ LET pos == PreviousPosition(cache.rotation, cache.entry)
       IN  /\ pos < Len(cache.rotation)
           /\ Apply([Synced EXCEPT !.entry = pos], At(cache.rotation, pos))

\* ... and for one behind its end, which previousProfile does not look at: what
\* at() reads there kills the daemon, or is no profile's name.
OnPreviousProfileOutOfRange ==
    /\ ~crashed
    /\ cache.rotation # <<>>
    /\ LET pos == PreviousPosition(cache.rotation, cache.entry)
       IN  /\ pos >= Len(cache.rotation)
           /\ \/ /\ file' = [Synced EXCEPT !.entry = pos]
                 /\ crashed' = TRUE
                 /\ UNCHANGED <<cache, unsynced, current>>
              \/ Apply([Synced EXCEPT !.entry = pos], NoProfile)

\* readProfiles alone: listProfiles on D-Bus, or setProfile of another tablet.
ReadProfiles ==
    /\ ~crashed
    /\ file' = Synced
    /\ cache' = Synced
    /\ unsynced' = FALSE
    /\ UNCHANGED <<current, crashed>>

\* Screens change, or the pen mode, touch or the mapping is switched: the profile is
\* loaded from the cache, whatever the file has by now, and saved.
SaveCurrent ==
    /\ ~crashed
    /\ file' = [Synced EXCEPT !.profiles = @ \cup {current}]
    /\ cache' = [cache EXCEPT !.profiles = @ \cup {current}]
    /\ unsynced' = FALSE
    /\ UNCHANGED <<current, crashed>>

\* kded starts anew, the tablet is added and its last profile set.
Restart ==
    /\ crashed
    /\ crashed' = FALSE
    /\ \E applied \in Candidates(file.profiles, current) :
           /\ StorePosition(file, applied)
           /\ current' = applied
    /\ cache' = file'
    /\ unsynced' = FALSE

-----------------------------------------------------------------------------
(* The KCM, in the other process. *)

\* ProfileManagement::createNewProfile, for the user.
CreateNewProfile(p) ==
    /\ file.profiles # {}
    /\ file' = [file EXCEPT !.profiles = @ \cup {p}]
    /\ UNCHANGED <<cache, unsynced, current, crashed>>

\* ProfileManagement::deleteProfile: the profile and every mention of it in the
\* list of the file.
DeleteProfile(p) ==
    /\ p \in file.profiles
    /\ \E list \in SeqOf(ToSet(file.rotation) \ {p}, Len(file.rotation)) :
           /\ list = Remove(file.rotation, p)
           /\ file' = [file EXCEPT !.profiles = @ \ {p}, !.rotation = list]
    /\ UNCHANGED <<cache, unsynced, current, crashed>>

\* The rest of deleteProfile: when that was the last one, "Default" is created.  The
\* deletion is in the file by then, for the daemon to read.
CreateDefault ==
    /\ file.profiles = {}
    /\ file' = [file EXCEPT !.profiles = {Default}]
    /\ UNCHANGED <<cache, unsynced, current, crashed>>

-----------------------------------------------------------------------------
\* A tablet that was never seen before has been added.
Init ==
    /\ file = [profiles |-> {Default}, rotation |-> <<>>, entry |-> -1]
    /\ cache = file
    /\ unsynced = FALSE
    /\ current = Default
    /\ crashed = FALSE

Next ==
    \/ \E p \in Profile \cup {NoProfile} : SetProfile(p)
    \/ \E list \in Lists : SetProfileRotationList(list)
    \/ OnNextProfile
    \/ OnPreviousProfile
    \/ OnPreviousProfileOutOfRange
    \/ ReadProfiles
    \/ SaveCurrent
    \/ Restart
    \/ \E p \in Profile : CreateNewProfile(p)
    \/ \E p \in Profile : DeleteProfile(p)
    \/ CreateDefault

Spec == Init /\ [][Next]_vars
-----------------------------------------------------------------------------
(* Properties. *)

TypeOK ==
    /\ file \in Group
    /\ cache \in Group
    /\ unsynced \in BOOLEAN
    /\ current \in Profile
    /\ crashed \in BOOLEAN

\* The daemon has the list of the file, its profiles exist, and the position is that
\* of the profile in effect.
Settled ==
    /\ ~unsynced
    /\ cache = file
    /\ ToSet(cache.rotation) \subseteq cache.profiles
    /\ cache.entry >= 0
    /\ IsIndexOf(cache.rotation, current, cache.entry)

\* "Next" switches to the profile that follows in the list, after the last one to the
\* first, "previous" to the one before it, and the position goes with the profile: so
\* the walk can go on, and each shortcut undoes the other in a list without duplicates.
WalkFollowsList ==
    [][ LET list == cache.rotation
            size == Len(list)
        IN  /\ Settled /\ OnNextProfile =>
                   current' = At(list, (cache.entry + 1) % size) /\ Settled'
            /\ Settled /\ (OnPreviousProfile \/ OnPreviousProfileOutOfRange) =>
                   current' = At(list, (cache.entry + size - 1) % size) /\ Settled' ]_vars

\* What the settings module did to the file, a switch of any kind takes as it is, however
\* old the daemon's cache: the deletion of a profile or of its name in the list is not
\* undone, nothing else is lost, the profile asked for is set if it is still there, and
\* another one that is there if not, which is a new "Default" only when none is left.
Switch ==
    \/ OnNextProfile
    \/ OnPreviousProfile
    \/ OnPreviousProfileOutOfRange /\ ~crashed'
    \/ Restart
    \/ \E p \in Profile \cup {NoProfile} : SetProfile(p)

SwitchesRespectDeletion ==
    [][ /\ Switch =>
              /\ current' \in file'.profiles
              /\ file'.profiles = IF file.profiles = {} THEN {Default} ELSE file.profiles
              /\ ~unsynced => file'.rotation = file.rotation
        /\ \A p \in file.profiles : SetProfile(p) => current' = p ]_vars
=============================================================================
