---------------------------- MODULE RotationPage ----------------------------
(***************************************************************************)
(* The rotation list in the settings module and in the daemon: the general *)
(* page shows the list of the daemon's cache, has it edited and sends it   *)
(* back with every save, whatever was saved for.                           *)
(*                                                                         *)
(*   reloadWidget  <--getProfileRotationList (waited for)--                *)
(*   saveProfile   --setProfileRotationList, setProfile (not waited for)-->*)
(*   deleteProfile --the file itself-->             ProfileRotation        *)
(*                                                                         *)
(* The calls arrive in order; shortcuts get in between.                    *)
(***************************************************************************)
EXTENDS ProfileRotation

CONSTANTS
    MaxRows,   \* bound: rows of the page
    MaxActs    \* bound: acts of the user in the module

ASSUME PageAssumption == MaxRows \in Nat /\ MaxActs \in Nat

VARIABLES
    isOpen,   \* the module is open; bound: then nobody else writes list and profiles
    rows,     \* lwRotationList: its items
    row,      \* and the current one, from 0; -1 for none
    chosen,   \* ProfileManagement: the profile of the pages
    changed,  \* profileChanged
    stage,    \* what waits: for a profile, for the answer about changes, or for the list
    calls,    \* D-Bus calls under way
    drifted,  \* ghost: the rows were edited, or the daemon lost them
    revived,  \* ghost: a list was on its way while a profile of it was deleted
    acts      \* what MaxActs counts

listVars == <<rows, row>>
ghosts == <<drifted, revived>>
pageVars == <<isOpen, listVars, chosen, changed, stage, calls, ghosts, acts>>
allVars == <<vars, pageVars>>

Idle == [kind |-> "idle", target |-> NoProfile]
AskFirst(kind, p) == [kind |-> kind, target |-> p]

SetList(list) == [kind |-> "list", list |-> list, profile |-> NoProfile]
SetTo(p) == [kind |-> "profile", list |-> <<>>, profile |-> p]
ListUnderWay == \E i \in DOMAIN calls : calls[i].kind = "list"

-----------------------------------------------------------------------------
(* The page. *)

UserActs == isOpen /\ stage = Idle /\ acts < MaxActs /\ acts' = acts + 1

EditRows(list) ==
    /\ UserActs
    /\ rows' = list
    /\ changed' = TRUE
    /\ drifted' = (drifted \/ list # rows)
    /\ UNCHANGED <<vars, isOpen, chosen, stage, calls, revived>>

\* Rows k and k + 1, from 0, in the other order.
Swapped(k) == [i \in DOMAIN rows |-> IF i = k + 1 THEN rows[k + 2]
                                     ELSE IF i = k + 2 THEN rows[k + 1] ELSE rows[i]]

SelectRow ==
    /\ isOpen /\ stage = Idle
    /\ row' \in 0..(Len(rows) - 1)
    /\ row' # row
    /\ UNCHANGED <<vars, isOpen, rows, chosen, changed, stage, calls, ghosts, acts>>

ProfileUp ==
    /\ row >= 0
    /\ IF row = 0 THEN EditRows(rows) /\ UNCHANGED row
       ELSE EditRows(Swapped(row - 1)) /\ row' = row - 1

\* Below the last row there is none to be the current one.
ProfileDown ==
    /\ row >= 0
    /\ IF row = Len(rows) - 1 THEN EditRows(rows) /\ row' = -1
       ELSE EditRows(Swapped(row)) /\ row' = row + 1

ProfileAdd(p) ==
    /\ p \in file.profiles
    /\ Len(rows) < MaxRows
    /\ EditRows(Append(rows, p))
    /\ UNCHANGED row

\* The row that follows becomes the current one, or else the one before.
ProfileRemove ==
    /\ row >= 0
    /\ EditRows(RemoveAt(rows, row + 1))
    /\ row' = IF row < Len(rows) - 1 THEN row ELSE row - 1

-----------------------------------------------------------------------------
(* The module. *)

\* saveProfile: the list of the general page goes first.
SaveProfile(p) == calls' = calls \o <<SetList(rows), SetTo(p)>>

Save ==
    /\ UserActs
    /\ SaveProfile(chosen)
    /\ changed' = FALSE
    /\ drifted' = FALSE
    /\ UNCHANGED <<vars, isOpen, listVars, chosen, stage, revived>>

\* reloadProfile, in which the general page loads nothing: the rows stay.
Load ==
    /\ UserActs
    /\ changed' = FALSE
    /\ UNCHANGED <<vars, isOpen, listVars, chosen, stage, calls, ghosts>>

SelectProfile(p) ==
    /\ UserActs
    /\ p \in file.profiles \ {chosen}
    /\ stage' = AskFirst("switch", p)
    /\ UNCHANGED <<vars, isOpen, listVars, chosen, changed, calls, ghosts>>

AddProfile(p) ==
    /\ UserActs
    /\ CreateNewProfile(p)
    /\ chosen' = p
    /\ stage' = AskFirst("switch", p)
    /\ UNCHANGED <<isOpen, listVars, changed, calls, ghosts>>

\* delProfile: the list of the file loses the profile, one under way does not.
DelProfile ==
    /\ UserActs
    /\ DeleteProfile(chosen)
    /\ chosen' = NoProfile
    /\ stage' = AskFirst("restore", NoProfile)
    /\ revived' = (revived \/ ListUnderWay \/ unsynced)
    /\ UNCHANGED <<isOpen, listVars, changed, calls, drifted>>

\* Its rest: there has to be a profile to switch to.  Meanwhile the daemon goes on.
Restore ==
    /\ stage.kind = "restore"
    /\ IF file.profiles = {} THEN CreateDefault /\ chosen' = Default
       ELSE UNCHANGED <<vars, chosen>>
    /\ \E p \in file'.profiles : stage' = AskFirst("delete", p)
    /\ UNCHANGED <<isOpen, listVars, changed, calls, ghosts, acts>>

\* showSaveChanges, and the rest of switchProfile.
Switched(called) ==
    /\ calls' = Append(called, SetTo(stage.target))
    /\ chosen' = stage.target
    /\ changed' = FALSE
    /\ stage' = IF stage.kind = "delete" THEN AskFirst("reload", NoProfile) ELSE Idle
    /\ UNCHANGED <<vars, isOpen, listVars, acts>>

\* Nothing is saved, or asked about: the rows stay, also when they are discarded.
DiscardChanges ==
    /\ stage.kind \in {"switch", "delete"}
    /\ Switched(calls)
    /\ UNCHANGED ghosts

SaveChanges ==
    /\ stage.kind \in {"switch", "delete"}
    /\ changed
    /\ Switched(calls \o <<SetList(rows), SetTo(chosen)>>)
    /\ drifted' = FALSE
    /\ revived' = (revived \/ stage.kind = "delete")

\* Mutant of ReloadWidget: nothing is loaded after a deletion.
KeepsRows ==
    /\ stage.kind = "reload"
    /\ stage' = Idle
    /\ UNCHANGED <<vars, isOpen, listVars, chosen, changed, calls, ghosts, acts>>

\* reloadWidget, when the calls before it are done; a daemon that died has no list.
ReloadWidget ==
    /\ stage.kind = "reload"
    /\ calls = <<>>
    /\ rows' = IF crashed THEN <<>> ELSE cache.rotation
    /\ row' = -1
    /\ drifted' = crashed
    /\ stage' = Idle
    /\ UNCHANGED <<vars, isOpen, chosen, changed, calls, revived, acts>>

-----------------------------------------------------------------------------
(* The daemon. *)

DeliverCall ==
    /\ calls # <<>>
    /\ IF Head(calls).kind = "list" THEN SetProfileRotationList(Head(calls).list)
       ELSE SetProfile(Head(calls).profile)
    /\ calls' = Tail(calls)
    /\ UNCHANGED <<isOpen, listVars, chosen, changed, stage, ghosts, acts>>

\* What was on its way to a daemon that dies, or is sent to a dead one, is lost.
Lost ==
    /\ calls' = <<>>
    /\ drifted' = (drifted \/ ListUnderWay)
    /\ UNCHANGED <<isOpen, listVars, chosen, changed, stage, revived, acts>>

ShortcutOrRead ==
    /\ OnNextProfile \/ OnPreviousProfile \/ ReadProfiles \/ SaveCurrent
    /\ UNCHANGED pageVars

DaemonDies ==
    /\ OnPreviousProfileOutOfRange
    /\ IF crashed' THEN Lost ELSE UNCHANGED pageVars

CallsLost == crashed /\ calls # <<>> /\ Lost /\ UNCHANGED vars

-----------------------------------------------------------------------------
PageInit ==
    /\ Init
    /\ isOpen \in BOOLEAN
    /\ rows = cache.rotation /\ row = -1
    /\ chosen = current
    /\ changed = FALSE
    /\ stage = Idle
    /\ calls = <<>>
    /\ drifted = FALSE /\ revived = FALSE
    /\ acts = 0

Closed == ~isOpen /\ Next /\ UNCHANGED pageVars

User ==
    \/ SelectRow
    \/ ProfileUp
    \/ ProfileDown
    \/ \E p \in Profile : ProfileAdd(p)
    \/ ProfileRemove
    \/ Save
    \/ Load
    \/ \E p \in Profile : SelectProfile(p) \/ AddProfile(p)
    \/ DelProfile
    \/ DiscardChanges
    \/ SaveChanges

Daemon ==
    isOpen /\ (DeliverCall \/ ShortcutOrRead \/ DaemonDies \/ CallsLost
                  \/ (Restart /\ UNCHANGED pageVars))

PageNext == Closed \/ User \/ Restore \/ ReloadWidget \/ Daemon

PageSpec == PageInit /\ [][PageNext]_allVars

-----------------------------------------------------------------------------
(* Properties. *)

AtRest == isOpen /\ stage = Idle /\ calls = <<>> /\ ~crashed

\* The current row is one of the rows, or none.
CurrentRowExists == row \in -1..(Len(rows) - 1)

\* The page shows the list that the shortcuts walk, when nothing is under way and the
\* rows were not edited since: after a save, or a deletion that took a name from the list
\* in the file, behind the daemon's cache.
RowsAreTheList == AtRest /\ ~drifted => rows = cache.rotation

\* Every name in the list is that of a profile, unless the list was under way while the
\* profile was deleted: saved just before, or in answer to the question that the deletion
\* itself asks.
NamesExist == AtRest /\ ~revived => ToSet(cache.rotation) \subseteq file.profiles

\* The settings module and the daemon agree about a list that is theirs.
PageAndListAgree == CurrentRowExists /\ RowsAreTheList /\ NamesExist
=============================================================================
