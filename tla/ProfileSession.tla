--------------------------- MODULE ProfileSession ---------------------------
(***************************************************************************)
(* The settings module at work: profiles are edited in one process and     *)
(* applied in another, and a file is all that they share.                  *)
(*                                                                         *)
(*   KCMWacomTabletWidget --ProfileManagement--> tabletprofilesrc          *)
(*          |  setProfile (D-Bus, not waited for)      ^                   *)
(*          +---------------> TabletHandler --ProfileManager               *)
(*          <---- tabletAdded, tabletRemoved ----+                         *)
(*                                                                         *)
(* A slot of the widget is cut where it waits: for the user's answer in    *)
(* showSaveChanges, while D-Bus signals are delivered, and for a reply of  *)
(* the daemon, while nothing is.  What is left of the slots under way is   *)
(* the stack, innermost first.                                             *)
(***************************************************************************)
EXTENDS Naturals, Sequences, SequencesExt, FiniteSets

CONSTANTS
    Tablet,      \* tablet ids
    NoTablet,    \* the empty id: nothing is selected
    Profile,     \* profile names
    Default,     \* the name of a profile made because there is none
    NoName,      \* the empty profile name
    Edit,        \* what the user can make of the pages
    Standard,    \* what createNewProfile writes
    Blank,       \* a profile without entries, pages that show nothing set
    NoProfile,   \* not in the file
    NoGroup,     \* the device name ProfileManagement starts with
    MaxHotplugs, \* bound: how often a tablet comes or goes
    MaxActs      \* bound: how often the user or a shortcut does something

ASSUME NameAssumption ==
    /\ NoTablet \notin Tablet
    /\ Default \in Profile
    /\ NoName \notin Profile
    /\ NoProfile \notin Edit \cup {Standard, Blank}
    /\ MaxHotplugs \in Nat /\ MaxActs \in Nat

Content == Edit \cup {Standard, Blank}

\* The group of a tablet in the file is "<vendor>:<tablet>"; for a tablet the
\* daemon does not have, the vendor it tells is the empty string.
Group == (Tablet \cup {NoTablet}) \X BOOLEAN
ASSUME GroupAssumption == NoGroup \notin Group

VARIABLES
    file,        \* tabletprofilesrc
    cache,       \* the daemon's KSharedConfig of it
    controlled,  \* TabletHandler: tablets with a backend
    current,     \* TabletHandler: currentProfileList, and the last profile in the config
    applied,     \* what TabletBackend::setProfile was given last
    maker,       \* device name of the daemon's ProfileManagement, set at its first use
    hotplugs,    \* how often a tablet came or went
    acts,        \* how often the user or a shortcut did something
    calls,       \* D-Bus calls of setProfile under way
    signals,     \* D-Bus signals tabletAdded and tabletRemoved under way
    items,       \* tabletListSelector: its tablets
    selected,    \* tabletListSelector: the current one
    options,     \* profileSelector: its names
    shown,       \* profileSelector: the current one
    visible,     \* the configuration is shown, not the error
    group,       \* ProfileManagement of the module: device name
    name,        \* ProfileManagement of the module: profile name
    form,        \* what the pages show
    home,        \* where that was loaded from
    changed,     \* profileChanged
    stack        \* slots under way

daemonVars == <<cache, controlled, current, applied, maker>>
selectorVars == <<items, selected>>
profileVars == <<options, shown, visible, group, name>>
formVars == <<form, home, changed>>
kcmVars == <<selectorVars, profileVars, formVars, stack>>
vars == <<file, daemonVars, hotplugs, acts, calls, signals, kcmVars>>

ProfilesOf(f, g) == {p \in Profile : f[g][p] # NoProfile}

\* Mutant of LoadProfile: a profile that is not there is read all the same.
ReadsWhatIsNot(f, g, p) == IF p \in Profile THEN f[g][p] ELSE Blank

\* ProfileManager::loadProfile: a profile that is not there is empty.
LoadProfile(f, g, p) == IF p \in ProfilesOf(f, g) THEN f[g][p] ELSE Blank

-----------------------------------------------------------------------------
(* The daemon. *)

GroupOf(t) == <<t, TRUE>>

\* Mutant of Apply: the profile is taken from the cache as it is.
AppliesFromCache(t, p, f) ==
    /\ file' = [f EXCEPT ![GroupOf(t)][p] = LoadProfile(f, GroupOf(t), p)]
    /\ cache' = file'
    /\ current' = [current EXCEPT ![t] = p]
    /\ applied' = [applied EXCEPT ![t] = LoadProfile(cache, GroupOf(t), p)]

\* The end of TabletHandler::setProfile: the mapping is brought up to date and the
\* whole profile saved, so that it is in the file even if it was not.
Apply(t, p, f) ==
    /\ file' = [f EXCEPT ![GroupOf(t)][p] = LoadProfile(f, GroupOf(t), p)]
    /\ cache' = file'
    /\ current' = [current EXCEPT ![t] = p]
    /\ applied' = [applied EXCEPT ![t] = LoadProfile(f, GroupOf(t), p)]

\* TabletHandler::setProfile.  The file is read anew.  A name that is not there is
\* replaced by one that is; without any, a default profile is made for the device
\* that the daemon's ProfileManagement was first used for.
SetProfile(t, p) ==
    LET known == ProfilesOf(file, GroupOf(t))
        target == IF maker = NoGroup THEN GroupOf(t) ELSE maker
        made == [file EXCEPT ![target][Default] = Standard]
    IN  \/ /\ p \in known
           /\ Apply(t, p, file)
           /\ UNCHANGED maker
        \/ /\ p \notin known
           /\ \E q \in known : Apply(t, q, file)
           /\ UNCHANGED maker
        \/ /\ known = {}
           /\ maker' = target
           /\ \E q \in ProfilesOf(made, target) : Apply(t, q, made)

\* A setProfile call reaches the daemon.
ServeSetProfile ==
    /\ calls # <<>>
    /\ calls' = Tail(calls)
    /\ LET call == Head(calls)
       IN  IF call.tablet \in controlled
           THEN SetProfile(call.tablet, call.profile)
           ELSE UNCHANGED <<file, cache, current, applied, maker>>
    /\ UNCHANGED <<controlled, hotplugs, acts, signals, kcmVars>>

\* Next and previous profile, by shortcut; the applet.
SwitchElsewhere(t, p) ==
    /\ t \in controlled
    /\ acts < MaxActs
    /\ acts' = acts + 1
    /\ SetProfile(t, p)
    /\ UNCHANGED <<controlled, hotplugs, calls, signals, kcmVars>>

\* TabletHandler::mapPenToScreenSpace, for a shortcut or a screen that comes or
\* goes: the profile in effect is taken from the cache and saved as a whole.  Where
\* the cache has no such profile only the mapping is written.
MapPen(t) ==
    LET g == GroupOf(t)
        p == current[t]
        Saved(f) == IF p \in ProfilesOf(cache, g) THEN cache[g][p] ELSE LoadProfile(f, g, p)
    IN  /\ t \in controlled
        /\ acts < MaxActs
        /\ acts' = acts + 1
        /\ file' = [file EXCEPT ![g][p] = Saved(file)]
        /\ cache' = [cache EXCEPT ![g][p] = LoadProfile(cache, g, p)]
        /\ UNCHANGED <<controlled, current, applied, maker, hotplugs, calls, signals, kcmVars>>

\* TabletHandler::onTabletAdded: the last profile is set again.
Plug(t) ==
    /\ t \notin controlled
    /\ hotplugs < MaxHotplugs
    /\ hotplugs' = hotplugs + 1
    /\ controlled' = controlled \cup {t}
    /\ SetProfile(t, current[t])
    /\ signals' = Append(signals, [kind |-> "added", tablet |-> t])
    /\ UNCHANGED <<acts, calls, kcmVars>>

Unplug(t) ==
    /\ t \in controlled
    /\ hotplugs < MaxHotplugs
    /\ hotplugs' = hotplugs + 1
    /\ controlled' = controlled \ {t}
    /\ signals' = Append(signals, [kind |-> "removed", tablet |-> t])
    /\ UNCHANGED <<file, cache, current, applied, maker, acts, calls, kcmVars>>

-----------------------------------------------------------------------------
(* Slots of the settings module, and what is left of them. *)

Frame == [at : {"dialog", "select", "follow"}] \cup [at : {"switch"}, profile : Profile \cup {NoName}]
Dialog == [at |-> "dialog"]
Select == [at |-> "select"]
Follow == [at |-> "follow"]
Switch(p) == [at |-> "switch", profile |-> p]

At(kind) == stack # <<>> /\ Head(stack).at = kind

\* showSaveChanges asks only about changes.
AskFirst(frames) == (IF changed THEN <<Dialog>> ELSE <<>>) \o frames

CallSetProfile(p) == Append(calls, [tablet |-> selected, profile |-> p])

\* The user can use the widget: no dialog is open and the event loop is free.
UserActs == stack = <<>> /\ acts < MaxActs /\ acts' = acts + 1

\* The user changes something on a page.
EditPages(e) ==
    /\ UserActs
    /\ visible
    /\ form' = e
    /\ changed' = TRUE
    /\ UNCHANGED <<file, daemonVars, hotplugs, calls, signals, selectorVars, profileVars, home, stack>>

\* KCMWacomTabletWidget::saveProfile.  The pages write their devices one by one
\* into the profile ProfileManagement has the name of; without a name nothing is
\* written.  The tablet told to apply it is the one selected.
SaveProfile ==
    /\ file' = IF name = NoName \/ group = NoGroup THEN file
               ELSE [file EXCEPT ![group][name] = form]
    /\ changed' = FALSE
    /\ calls' = CallSetProfile(name)
    /\ UNCHANGED <<daemonVars, hotplugs, signals, selectorVars, profileVars, form, home>>

\* KCMWacomTablet::save, the Apply button.
Save ==
    /\ UserActs
    /\ changed
    /\ SaveProfile
    /\ UNCHANGED stack

\* showSaveChanges, answered.
AnswerSave ==
    /\ At("dialog")
    /\ SaveProfile
    /\ stack' = Tail(stack)
    /\ UNCHANGED acts

\* The changes stay on the pages, and changed.
AnswerDiscard ==
    /\ At("dialog")
    /\ stack' = Tail(stack)
    /\ UNCHANGED <<file, daemonVars, hotplugs, acts, calls, signals, selectorVars, profileVars, formVars>>

\* reloadProfile.
LoadForm(p) ==
    /\ form' = IF group = NoGroup THEN Blank ELSE LoadProfile(file, group, p)
    /\ home' = [group |-> group, profile |-> p]
    /\ changed' = FALSE

\* KCMWacomTablet::load.
Load ==
    /\ UserActs
    /\ LoadForm(name)
    /\ UNCHANGED <<file, daemonVars, hotplugs, calls, signals, selectorVars, profileVars, stack>>

\* Mutant of SwitchProfile: the pages are read before the name is changed.
LoadsBeforeNaming ==
    /\ At("switch")
    /\ name' = Head(stack).profile
    /\ LoadForm(name)
    /\ calls' = CallSetProfile(Head(stack).profile)
    /\ stack' = Tail(stack)
    /\ UNCHANGED <<file, daemonVars, hotplugs, acts, signals, selectorVars, options, shown, visible, group>>

\* switchProfile, after showSaveChanges.
SwitchProfile ==
    /\ At("switch")
    /\ name' = Head(stack).profile
    /\ LoadForm(Head(stack).profile)
    /\ calls' = CallSetProfile(Head(stack).profile)
    /\ stack' = Tail(stack)
    /\ UNCHANGED <<file, daemonVars, hotplugs, acts, signals, selectorVars, options, shown, visible, group>>

\* A name is picked in the profile selector.
SelectProfile(p) ==
    /\ UserActs
    /\ visible
    /\ p \in options \ {shown}
    /\ shown' = p
    /\ stack' = AskFirst(<<Switch(p)>>)
    /\ UNCHANGED <<file, daemonVars, hotplugs, calls, signals, selectorVars, options, visible, group,
                   name, formVars>>

\* refreshProfileSelector: the names there are, and of them p, or the first.
RefreshProfileSelector(names, p) ==
    /\ options' = names
    /\ shown' \in IF p # NoName THEN {p} ELSE names

\* Mutant of AddProfile: the selector is filled again and left at its old name.
AddsUnselected(p) ==
    /\ UserActs
    /\ group # NoGroup
    /\ file' = [file EXCEPT ![group][p] = Standard]
    /\ name' = p
    /\ options' = ProfilesOf(file', group)
    /\ stack' = AskFirst(<<Switch(p)>>)
    /\ UNCHANGED <<daemonVars, hotplugs, calls, signals, selectorVars, shown, visible, group, formVars>>

\* addProfile: createNewProfile writes the standard values, also into a profile that
\* was there, and makes the name the current one before changes are asked about.
\* (Signals are delivered while the name is asked for: the configuration that was
\* shown then may be gone.)
AddProfile(p) ==
    /\ UserActs
    /\ group # NoGroup
    /\ file' = [file EXCEPT ![group][p] = Standard]
    /\ name' = p
    /\ RefreshProfileSelector(ProfilesOf(file', group), p)
    /\ stack' = AskFirst(<<Switch(p)>>)
    /\ UNCHANGED <<daemonVars, hotplugs, calls, signals, selectorVars, visible, group, formVars>>

\* delProfile: the name is empty until one is chosen, unless a default was made.
DelProfile ==
    LET left == IF name = NoName THEN file ELSE [file EXCEPT ![group][name] = NoProfile]
        none == ProfilesOf(left, group) = {}
    IN  /\ UserActs
        /\ visible
        /\ group # NoGroup
        /\ file' = IF none THEN [left EXCEPT ![group][Default] = Standard] ELSE left
        /\ name' = IF none THEN Default ELSE NoName
        /\ RefreshProfileSelector(ProfilesOf(file', group), NoName)
        /\ stack' = AskFirst(<<Switch(shown')>>)
        /\ UNCHANGED <<daemonVars, hotplugs, calls, signals, selectorVars, visible, group, formVars>>

\* Another tablet is picked in the tablet selector.
SelectTablet(t) ==
    /\ UserActs
    /\ visible
    /\ t \in items \ {selected}
    /\ selected' = t
    /\ stack' = AskFirst(<<Select>>)
    /\ UNCHANGED <<file, daemonVars, hotplugs, calls, signals, items, profileVars, formVars>>

\* D-Bus signals are delivered to an idle widget and to one that shows a dialog.
Delivers(kind) ==
    /\ stack = <<>> \/ At("dialog")
    /\ signals # <<>>
    /\ Head(signals).kind = kind
    /\ signals' = Tail(signals)

\* onTabletAdded: the first tablet of an empty selector becomes its current one.
OnTabletAdded ==
    /\ Delivers("added")
    /\ items' = items \cup {Head(signals).tablet}
    /\ IF items = {}
       THEN /\ selected' = Head(signals).tablet
            /\ stack' = AskFirst(<<Select>>) \o stack
       ELSE UNCHANGED <<selected, stack>>
    /\ UNCHANGED <<file, daemonVars, hotplugs, acts, calls, profileVars, formVars>>

\* onTabletRemoved: the combo box moves to another item, or to none, when it loses
\* its current one; it also tells of a change when the item was above.
OnTabletRemoved ==
    /\ Delivers("removed")
    /\ items' = items \ {Head(signals).tablet}
    /\ \/ /\ Head(signals).tablet = selected
          /\ selected' \in items' \cup {NoTablet}
          /\ stack' = AskFirst(<<Select>>) \o stack
       \/ /\ Head(signals).tablet \in items \ {selected}
          /\ stack' \in {stack, AskFirst(<<Select>>) \o stack}
          /\ UNCHANGED selected
       \/ /\ Head(signals).tablet \notin items
          /\ UNCHANGED <<selected, stack>>
    /\ UNCHANGED <<file, daemonVars, hotplugs, acts, calls, profileVars, formVars>>

\* onTabletSelectionChanged, after showSaveChanges: showHideConfig waits for the
\* list of tablets, which the daemon answers behind the calls already sent.
ShowError ==
    /\ At("select")
    /\ calls = <<>>
    /\ controlled = {}
    /\ visible' = FALSE
    /\ stack' = Tail(stack)
    /\ UNCHANGED <<file, daemonVars, hotplugs, acts, calls, signals, selectorVars, options, shown, group, name,
                   formVars>>

\* showConfig as far as getProfile: ProfileManagement follows to the tablet and
\* keeps the profile name, unless a default is made.
ShowConfig ==
    LET g == <<selected, selected \in controlled>>
        none == ProfilesOf(file, g) = {}
    IN  /\ At("select")
        /\ calls = <<>>
        /\ controlled # {}
        /\ group' = g
        /\ IF none
           THEN /\ file' = [file EXCEPT ![g][Default] = Standard]
                /\ name' = Default
                /\ calls' = CallSetProfile(Default)
           ELSE UNCHANGED <<file, name, calls>>
        /\ RefreshProfileSelector(ProfilesOf(file', g), NoName)
        /\ visible' = TRUE
        /\ stack' = <<Follow>> \o Tail(stack)
        /\ UNCHANGED <<daemonVars, hotplugs, acts, signals, selectorVars, formVars>>

\* The end of showConfig, with the reply of getProfile: the selector moves to that
\* profile and switches, and showConfig switches once more.
FollowProfile ==
    LET p == IF selected \in controlled THEN current[selected] ELSE NoName
        moves == p \in options \ {shown}
    IN  /\ At("follow")
        /\ calls = <<>>
        /\ shown' = IF moves THEN p ELSE shown
        /\ stack' = AskFirst(IF moves THEN <<Switch(p), Switch(p)>> ELSE <<Switch(p)>>) \o Tail(stack)
        /\ UNCHANGED <<file, daemonVars, hotplugs, acts, calls, signals, selectorVars, options, visible, group,
                       name, formVars>>

-----------------------------------------------------------------------------
\* The module is opened with the tablets that are there, the first one selected.
\* Tablets that were there before have profiles, the last one in effect and a default.
Init ==
    /\ current \in [Tablet -> Profile \cup {NoName}]
    /\ controlled \in SUBSET {t \in Tablet : current[t] # NoName}
    /\ maker \in {NoGroup} \cup {GroupOf(t) : t \in controlled}
    /\ file = [g \in Group |-> [p \in Profile |->
           IF \E t \in Tablet : g = GroupOf(t) /\ current[t] # NoName /\ p \in {current[t], Default}
           THEN Standard ELSE NoProfile]]
    /\ cache = file
    /\ applied = [t \in Tablet |-> IF t \in controlled THEN Standard ELSE NoProfile]
    /\ hotplugs = 0
    /\ acts = 0
    /\ calls = <<>>
    /\ signals = <<>>
    /\ items = controlled
    /\ IF items = {} THEN selected = NoTablet ELSE selected \in items
    /\ options = {}
    /\ shown = NoName
    /\ visible = FALSE
    /\ group = NoGroup
    /\ name = NoName
    /\ form = Blank
    /\ home = [group |-> NoGroup, profile |-> NoName]
    /\ changed = FALSE
    /\ stack = <<Select>>

User ==
    \/ \E e \in Edit : EditPages(e)
    \/ Save
    \/ Load
    \/ \E p \in Profile : SelectProfile(p) \/ AddProfile(p)
    \/ DelProfile
    \/ \E t \in Tablet : SelectTablet(t)

Answer == AnswerSave \/ AnswerDiscard

EventLoop ==
    \/ SwitchProfile
    \/ OnTabletAdded
    \/ OnTabletRemoved
    \/ ShowError
    \/ ShowConfig
    \/ FollowProfile

Daemon ==
    \/ \E t \in Tablet, p \in Profile : SwitchElsewhere(t, p)
    \/ \E t \in Tablet : MapPen(t) \/ Plug(t) \/ Unplug(t)

Next == User \/ Answer \/ EventLoop \/ ServeSetProfile \/ Daemon

Spec == Init /\ [][Next]_vars
-----------------------------------------------------------------------------
(* Properties. *)

TypeOK ==
    /\ file \in [Group -> [Profile -> Content \cup {NoProfile}]]
    /\ cache \in [Group -> [Profile -> Content \cup {NoProfile}]]
    /\ controlled \subseteq Tablet
    /\ current \in [Tablet -> Profile \cup {NoName}]
    /\ applied \in [Tablet -> Content \cup {NoProfile}]
    /\ maker \in Group \cup {NoGroup}
    /\ hotplugs \in Nat
    /\ acts \in Nat
    /\ calls \in Seq([tablet : Tablet \cup {NoTablet}, profile : Profile \cup {NoName}])
    /\ signals \in Seq([kind : {"added", "removed"}, tablet : Tablet])
    /\ items \subseteq Tablet
    /\ selected \in Tablet \cup {NoTablet}
    /\ options \subseteq Profile
    /\ shown \in Profile \cup {NoName}
    /\ visible \in BOOLEAN
    /\ group \in Group \cup {NoGroup}
    /\ name \in Profile \cup {NoName}
    /\ form \in Content
    /\ home \in [group : Group \cup {NoGroup}, profile : Profile \cup {NoName}]
    /\ changed \in BOOLEAN
    /\ stack \in Seq(Frame)

\* The widget is idle, with the configuration shown.
Idle == stack = <<>> /\ visible

\* What the pages show was loaded from the profile they would be saved to.
PagesAreOfProfile == Idle => home = [group |-> group, profile |-> name]

\* Nothing is under way between the module, the daemon and the tablets.
Settled == Idle /\ calls = <<>> /\ signals = <<>> /\ selected \in controlled

\* As long as no tablet comes or goes the profile selector shows the profile that is
\* edited.  (A tablet that goes while a dialog is open takes the selector with it.)
SelectorIsProfile == (Settled /\ hotplugs = 0) => shown = name

\* The tablet that is told to apply a profile is the one whose profiles are edited,
\* whatever was plugged, unplugged and answered in whichever order.
GroupIsSelected == Settled => group = GroupOf(selected)

\* The two selectors are those of the profile that is edited and applied.
SelectorsAgree == SelectorIsProfile /\ GroupIsSelected

\* The selected tablet runs what the file says, unless its default profile was made
\* anew for the sake of another tablet.
SelectedRunsFile ==
    (Settled /\ <<maker, Default>> # <<GroupOf(selected), current[selected]>>) =>
        applied[selected] = file[GroupOf(selected)][current[selected]]

\* What the daemon would save with the next shortcut is what is in the file.
CacheIsFresh ==
    Settled => LET g == GroupOf(selected) IN
        LoadProfile(cache, g, current[selected]) = LoadProfile(file, g, current[selected])

\* The daemon has the file's contents, on the tablet and in its cache.
DaemonIsCurrent == SelectedRunsFile /\ CacheIsFresh

\* Changes the user wants saved when asked are saved to the profile they were made in.
EditsReachHome ==
    [][(At("dialog") /\ changed /\ ~changed' /\ home.profile \in ProfilesOf(file, home.group)) =>
           file'[home.group][home.profile] = form]_vars
=============================================================================
