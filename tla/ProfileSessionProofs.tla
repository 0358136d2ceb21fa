------------------------ MODULE ProfileSessionProofs ------------------------
(***************************************************************************)
(* Types of ProfileSession, that an idle widget shows the profile it would *)
(* save to, and what holds once nothing is under way: the selected tablet  *)
(* runs what the file says, and the selectors are those of the profile     *)
(* that is edited.  All of it is about the stack of slots under way: a     *)
(* dialog always has a slot below it, and the slot at the bottom ends with *)
(* the pages loaded and the daemon called, or with nothing shown.          *)
(***************************************************************************)
EXTENDS ProfileSession, SequenceTheorems, TLAPS

Names == Profile \cup {NoName}
Files == [Group -> [Profile -> Content \cup {NoProfile}]]

\* The slot at the bottom of a stack is not a dialog.
Grounded(s) == s # <<>> => s[Len(s)].at # "dialog"

\* Pages that are not those of the profile are about to be loaded.
PagesAreLoaded == visible => (home = [group |-> group, profile |-> name] \/ stack # <<>>)

IInv == TypeOK /\ Grounded(stack) /\ PagesAreLoaded

USE DEF Names, Files

-----------------------------------------------------------------------------
(* Stacks. *)

\* The frames the slots push are frames.
LEMMA FrameTypes ==
    /\ Dialog \in Frame /\ Select \in Frame /\ Follow \in Frame
    /\ \A p \in Names : Switch(p) \in Frame
    /\ Select.at # "dialog" /\ Follow.at # "dialog"
    /\ \A p \in Names : Switch(p).at # "dialog"
BY DEF Dialog, Select, Follow, Switch, Frame

\* What is put on a grounded stack leaves it grounded, if it is grounded itself.
LEMMA Concat ==
    ASSUME NEW s \in Seq(Frame), NEW r \in Seq(Frame), Grounded(s), Grounded(r)
    PROVE  /\ s \o r \in Seq(Frame)
           /\ Grounded(s \o r)
           /\ s # <<>> => s \o r # <<>>
<1>1. CASE r = <<>>
  BY <1>1 DEF Grounded
<1>2. CASE r # <<>>
  <2>1. Len(s \o r) = Len(s) + Len(r) /\ Len(r) > 0
    BY <1>2
  <2>2. (s \o r)[Len(s \o r)] = r[Len(r)]
    BY <2>1
  <2>3. s \o r # <<>>
    BY <2>1
  <2>. QED BY <1>2, <2>2, <2>3 DEF Grounded
<1>. QED BY <1>1, <1>2

\* Taking the innermost slot away leaves a grounded stack, an empty one only when
\* that slot was no dialog.
LEMMA Pop ==
    ASSUME NEW s \in Seq(Frame), s # <<>>, Grounded(s)
    PROVE  /\ Tail(s) \in Seq(Frame)
           /\ Grounded(Tail(s))
           /\ Head(s) \in Frame
           /\ Head(s).at = "dialog" => Tail(s) # <<>>
<1>1. Len(s) > 0 /\ Len(Tail(s)) = Len(s) - 1 /\ Tail(s) \in Seq(Frame) /\ Head(s) = s[1]
  OBVIOUS
<1>2. CASE Len(s) = 1
  <2>1. Tail(s) = <<>>
    <3>1. Tail(s) \in Seq(Frame) /\ Len(Tail(s)) = 0
      BY <1>1, <1>2
    <3>. QED BY <3>1, EmptySeq
  <2>2. s[1].at # "dialog"
    BY <1>2 DEF Grounded
  <2>3. s[1] \in Frame
    BY <1>2
  <2>. QED BY <1>1, <2>1, <2>2, <2>3 DEF Grounded
<1>3. CASE Len(s) # 1
  <2>1. Len(Tail(s)) > 0 /\ Tail(s) # <<>>
    BY <1>1, <1>3
  <2>2. Tail(s)[Len(Tail(s))] = s[Len(s)]
    BY <1>1, <2>1
  <2>. QED BY <1>1, <2>1, <2>2 DEF Grounded
<1>. QED BY <1>2, <1>3

\* showSaveChanges puts at most a dialog on top.
LEMMA AskTyped ==
    ASSUME NEW frames \in Seq(Frame), frames # <<>>, Grounded(frames)
    PROVE  /\ AskFirst(frames) \in Seq(Frame)
           /\ AskFirst(frames) # <<>>
           /\ Grounded(AskFirst(frames))
<1>1. CASE changed
  <2>1. AskFirst(frames) = <<Dialog>> \o frames
    BY <1>1 DEF AskFirst
  <2>2. <<Dialog>> \in Seq(Frame)
    BY FrameTypes
  <2>3. Len(<<Dialog>> \o frames) = 1 + Len(frames) /\ Len(frames) > 0
    BY <2>2
  <2>4. (<<Dialog>> \o frames)[Len(<<Dialog>> \o frames)] = frames[Len(frames)]
    BY <2>2, <2>3
  <2>. QED BY <2>1, <2>2, <2>3, <2>4 DEF Grounded
<1>2. CASE ~changed
  <2>1. AskFirst(frames) = frames
    BY <1>2 DEF AskFirst
  <2>. QED BY <2>1
<1>. QED BY <1>1, <1>2

\* The stacks a slot leaves behind.
LEMMA Pushed ==
    ASSUME NEW p \in Names
    PROVE  /\ <<Switch(p)>> \in Seq(Frame) /\ Grounded(<<Switch(p)>>) /\ <<Switch(p)>> # <<>>
           /\ <<Switch(p), Switch(p)>> \in Seq(Frame) /\ Grounded(<<Switch(p), Switch(p)>>)
           /\ <<Switch(p), Switch(p)>> # <<>>
           /\ <<Select>> \in Seq(Frame) /\ Grounded(<<Select>>) /\ <<Select>> # <<>>
           /\ <<Follow>> \in Seq(Frame) /\ Grounded(<<Follow>>) /\ <<Follow>> # <<>>
BY FrameTypes DEF Grounded

-----------------------------------------------------------------------------
(* Files. *)

\* Loading gives a content.
LEMMA LoadTyped ==
    ASSUME NEW f \in Files, NEW g \in Group, NEW p \in Names
    PROVE  LoadProfile(f, g, p) \in Content
BY NameAssumption DEF LoadProfile, ProfilesOf, Content

\* Writing one profile gives a file.
LEMMA WriteTyped ==
    ASSUME NEW f \in Files, NEW g \in Group, NEW p \in Profile, NEW c \in Content \cup {NoProfile}
    PROVE  [f EXCEPT ![g][p] = c] \in Files
OBVIOUS

\* So does making the default profile.
LEMMA DefaultTyped ==
    ASSUME NEW f \in Files, NEW g \in Group
    PROVE  [f EXCEPT ![g][Default] = Standard] \in Files
<1>1. Default \in Profile /\ Standard \in Content
  BY NameAssumption DEF Content
<1>. QED BY <1>1

LEMMA GroupTyped == \A t \in Tablet : GroupOf(t) \in Group
BY DEF GroupOf, Group

DaemonTypes ==
    /\ file \in Files
    /\ cache \in Files
    /\ current \in [Tablet -> Names]
    /\ applied \in [Tablet -> Content \cup {NoProfile}]
    /\ maker \in Group \cup {NoGroup}

\* Whatever setProfile does, it leaves files.
LEMMA SetProfileTyped ==
    DaemonTypes => \A t \in Tablet, p \in Names : SetProfile(t, p) => DaemonTypes'
<1>. SUFFICES ASSUME DaemonTypes, NEW t \in Tablet, NEW p \in Names, SetProfile(t, p)
              PROVE  DaemonTypes'
  OBVIOUS
<1>0. GroupOf(t) \in Group
  BY GroupTyped
<1>a. ASSUME NEW q \in Profile, NEW f \in Files, Apply(t, q, f)
      PROVE  /\ file' \in Files /\ cache' \in Files
             /\ current' \in [Tablet -> Names]
             /\ applied' \in [Tablet -> Content \cup {NoProfile}]
  <2>1. LoadProfile(f, GroupOf(t), q) \in Content
    BY <1>0, LoadTyped
  <2>2. file' \in Files
    BY <1>0, <1>a, <2>1, WriteTyped DEF Apply
  <2>. QED BY <1>a, <2>1, <2>2 DEF Apply, DaemonTypes
<1>. DEFINE target == IF maker = NoGroup THEN GroupOf(t) ELSE maker
            made == [file EXCEPT ![target][Default] = Standard]
<1>1. CASE \E q \in ProfilesOf(file, GroupOf(t)) : Apply(t, q, file) /\ UNCHANGED maker
  <2>1. PICK q \in Profile : Apply(t, q, file)
    BY <1>1 DEF ProfilesOf
  <2>. QED BY <1>1, <1>a, <2>1 DEF DaemonTypes
<1>2. CASE \E q \in ProfilesOf(made, target) : maker' = target /\ Apply(t, q, made)
  <2>1. target \in Group
    BY <1>0 DEF DaemonTypes
  <2>2. made \in Files
    BY <2>1, DefaultTyped DEF DaemonTypes
  <2>3. PICK q \in Profile : Apply(t, q, made)
    BY <1>2 DEF ProfilesOf
  <2>. QED BY <1>2, <1>a, <2>1, <2>2, <2>3 DEF DaemonTypes
<1>3. \/ \E q \in ProfilesOf(file, GroupOf(t)) : Apply(t, q, file) /\ UNCHANGED maker
      \/ \E q \in ProfilesOf(made, target) : maker' = target /\ Apply(t, q, made)
  BY DEF SetProfile
<1>. QED BY <1>1, <1>2, <1>3

\* A setProfile call is one of the selected tablet.
LEMMA CallTyped ==
    ASSUME TypeOK, NEW p \in Names
    PROVE  CallSetProfile(p) \in Seq([tablet : Tablet \cup {NoTablet}, profile : Names])
BY DEF CallSetProfile, TypeOK

\* saveProfile leaves a file, and calls the daemon with a name.
LEMMA SaveProfileTyped ==
    TypeOK /\ SaveProfile =>
        /\ file' \in Files
        /\ calls' \in Seq([tablet : Tablet \cup {NoTablet}, profile : Names])
        /\ changed' = FALSE
<1>. SUFFICES ASSUME TypeOK, SaveProfile
              PROVE  /\ file' \in Files
                     /\ calls' \in Seq([tablet : Tablet \cup {NoTablet}, profile : Names])
                     /\ changed' = FALSE
  OBVIOUS
<1>1. file' = file \/ (name \in Profile /\ group \in Group /\ file' = [file EXCEPT ![group][name] = form])
  BY DEF SaveProfile, TypeOK
<1>2. file \in Files /\ form \in Content \cup {NoProfile} /\ name \in Names
  BY DEF TypeOK
<1>3. ASSUME NEW g \in Group, NEW p \in Profile, NEW c \in Content \cup {NoProfile}
      PROVE  [file EXCEPT ![g][p] = c] \in Files
  BY <1>2, WriteTyped
<1>4. file' \in Files
  <2>. HIDE DEF Files
  <2>. QED BY <1>1, <1>2, <1>3
<1>5. calls' \in Seq([tablet : Tablet \cup {NoTablet}, profile : Names])
  BY <1>2, CallTyped DEF SaveProfile
<1>. QED BY <1>4, <1>5 DEF SaveProfile

\* reloadProfile loads a content.
LEMMA LoadFormTyped ==
    TypeOK => \A p \in Names : LoadForm(p) =>
        form' \in Content /\ home' = [group |-> group, profile |-> p] /\ changed' = FALSE
BY LoadTyped DEF LoadForm, TypeOK, Content

LEMMA NamesNotEmpty == NoName \in Names
OBVIOUS

-----------------------------------------------------------------------------
(* The slots. *)

\* What the steps of the daemon need of TypeOK, and what they leave of it.
LEMMA DaemonTypesOfTypeOK == TypeOK => DaemonTypes
BY DEF TypeOK, DaemonTypes

LEMMA HeadAndTail ==
    ASSUME NEW S, NEW s \in Seq(S), s # <<>>
    PROVE  Head(s) \in S /\ Tail(s) \in Seq(S)
OBVIOUS

LEMMA ServeSetProfileStep == IInv /\ ServeSetProfile => IInv'
<1>. SUFFICES ASSUME IInv, ServeSetProfile PROVE IInv'
  OBVIOUS
<1>. USE DEF IInv
<1>0. calls # <<>> /\ calls \in Seq([tablet : Tablet \cup {NoTablet}, profile : Names])
  <2>1. calls # <<>>
    BY DEF ServeSetProfile
  <2>2. calls \in Seq([tablet : Tablet \cup {NoTablet}, profile : Names])
    BY DEF TypeOK
  <2>. QED BY <2>1, <2>2
<1>1. Head(calls) \in [tablet : Tablet \cup {NoTablet}, profile : Names] /\ Tail(calls) \in
        Seq([tablet : Tablet \cup {NoTablet}, profile : Names])
  BY <1>0, HeadAndTail
<1>2. DaemonTypes'
  <2>1. CASE Head(calls).tablet \in controlled
    <3>1. Head(calls).tablet \in Tablet /\ Head(calls).profile \in Names
      BY <1>1, <2>1 DEF TypeOK
    <3>2. SetProfile(Head(calls).tablet, Head(calls).profile)
      BY <2>1 DEF ServeSetProfile
    <3>. QED BY <3>1, <3>2, SetProfileTyped, DaemonTypesOfTypeOK
  <2>2. CASE Head(calls).tablet \notin controlled
    BY <2>2, DaemonTypesOfTypeOK DEF ServeSetProfile, DaemonTypes
  <2>. QED BY <2>1, <2>2
<1>3. UNCHANGED <<controlled, hotplugs, acts, signals, kcmVars>> /\ calls' = Tail(calls)
  BY DEF ServeSetProfile
<1>4. TypeOK'
  BY <1>1, <1>2, <1>3 DEF TypeOK, DaemonTypes, kcmVars, selectorVars, profileVars, formVars
<1>. QED BY <1>3, <1>4 DEF PagesAreLoaded, kcmVars, selectorVars, profileVars, formVars

LEMMA DaemonStep == IInv /\ Daemon => IInv'
<1>. SUFFICES ASSUME IInv, Daemon PROVE IInv'
  OBVIOUS
<1>. USE DEF IInv
<1>1. DaemonTypes
  BY DaemonTypesOfTypeOK
<1>2. UNCHANGED kcmVars
  BY DEF Daemon, SwitchElsewhere, MapPen, Plug, Unplug
<1>3. ASSUME NEW t \in Tablet, NEW p \in Profile, SwitchElsewhere(t, p) PROVE TypeOK'
  <2>1. DaemonTypes'
    BY <1>1, <1>3, SetProfileTyped DEF SwitchElsewhere
  <2>. QED BY <1>3, <2>1 DEF SwitchElsewhere, TypeOK, DaemonTypes, kcmVars, selectorVars, profileVars, formVars
<1>4. ASSUME NEW t \in Tablet, MapPen(t) PROVE TypeOK'
  <2>. DEFINE g == GroupOf(t)
              p == current[t]
  <2>1. g \in Group /\ p \in Names
    BY <1>1, GroupTyped DEF DaemonTypes
  <2>2. LoadProfile(cache, g, p) \in Content /\ LoadProfile(file, g, p) \in Content
    BY <1>1, <2>1, LoadTyped DEF DaemonTypes
  <2>3. p \in ProfilesOf(cache, g) => cache[g][p] \in Content
    BY <1>1, <2>1 DEF DaemonTypes, ProfilesOf
  <2>4. PICK c \in Content : file' = [file EXCEPT ![g][p] = c]
    BY <1>4, <2>2, <2>3 DEF MapPen
  <2>5. cache' = [cache EXCEPT ![g][p] = LoadProfile(cache, g, p)]
    BY <1>4 DEF MapPen
  <2>6. ASSUME NEW f \in Files, NEW d \in Content PROVE [f EXCEPT ![g][p] = d] \in Files
    BY <2>1
  <2>7. file' \in Files /\ cache' \in Files
    BY <1>1, <2>2, <2>4, <2>5, <2>6 DEF DaemonTypes
  <2>8. acts' \in Nat /\ UNCHANGED <<controlled, current, applied, maker, hotplugs, calls, signals, kcmVars>>
    BY <1>4 DEF MapPen, TypeOK
  <2>. QED BY <2>7, <2>8 DEF TypeOK, kcmVars, selectorVars, profileVars, formVars
<1>5. ASSUME NEW t \in Tablet, Plug(t) PROVE TypeOK'
  <2>1. DaemonTypes'
    BY <1>1, <1>5, SetProfileTyped DEF Plug, DaemonTypes
  <2>2. signals' \in Seq([kind : {"added", "removed"}, tablet : Tablet])
    BY <1>5 DEF Plug, TypeOK
  <2>. QED BY <1>5, <2>1, <2>2 DEF Plug, TypeOK, DaemonTypes, kcmVars, selectorVars, profileVars, formVars
<1>6. ASSUME NEW t \in Tablet, Unplug(t) PROVE TypeOK'
  <2>2. signals' \in Seq([kind : {"added", "removed"}, tablet : Tablet])
    BY <1>6 DEF Unplug, TypeOK
  <2>. QED BY <1>6, <2>2 DEF Unplug, TypeOK, kcmVars, selectorVars, profileVars, formVars
<1>7. TypeOK'
  BY <1>3, <1>4, <1>5, <1>6 DEF Daemon
<1>. QED BY <1>2, <1>7 DEF PagesAreLoaded, kcmVars, selectorVars, profileVars, formVars

\* A refreshed selector shows a profile, and knows profiles only.
LEMMA SelectorTyped ==
  ASSUME NEW g, NEW p \in Names, RefreshProfileSelector(ProfilesOf(file', g), p)
  PROVE  options' \subseteq Profile /\ shown' \in Profile
BY NameAssumption DEF RefreshProfileSelector, ProfilesOf, Names

\* The user's slots start from an idle widget and leave it idle, or push a slot that
\* ends with the pages loaded.
LEMMA UserStep == IInv /\ User => IInv'
<1>. SUFFICES ASSUME IInv, User PROVE IInv'
  OBVIOUS
<1>. USE DEF IInv
<1>0. /\ acts' \in Nat
      /\ stack = <<>>
      /\ UNCHANGED <<cache, controlled, current, applied, maker, hotplugs, signals, items, visible, group>>
  <2>1. UserActs
    BY DEF User, EditPages, Save, Load, SelectProfile, AddProfile, DelProfile, SelectTablet
  <2>2. UNCHANGED <<daemonVars, hotplugs, signals>>
    BY DEF User, EditPages, Save, SaveProfile, Load, SelectProfile, AddProfile, DelProfile, SelectTablet
  <2>3. UNCHANGED items
    BY DEF User, EditPages, Save, SaveProfile, Load, SelectProfile, AddProfile, DelProfile, SelectTablet, selectorVars
  <2>4. UNCHANGED <<visible, group>>
    BY DEF User, EditPages, Save, SaveProfile, Load, SelectProfile, AddProfile, DelProfile, SelectTablet, profileVars
  <2>. QED BY <2>1, <2>2, <2>3, <2>4 DEF UserActs, TypeOK, daemonVars
<1>1. ASSUME NEW e \in Edit, EditPages(e) PROVE IInv'
  <2>1. e \in Content
    BY DEF Content
  <2>. QED BY <1>0, <1>1, <2>1 DEF EditPages, TypeOK, PagesAreLoaded, selectorVars, profileVars
<1>2. CASE Save
  <2>1. /\ file' \in Files
        /\ calls' \in Seq([tablet : Tablet \cup {NoTablet}, profile : Names])
        /\ changed' = FALSE
    BY <1>2, SaveProfileTyped DEF Save
  <2>2. UNCHANGED <<selected, options, shown, name, form, home, stack>>
    BY <1>2 DEF Save, SaveProfile, selectorVars, profileVars
  <2>. QED BY <1>0, <2>1, <2>2 DEF TypeOK, PagesAreLoaded
<1>3. CASE Load
  <2>1. form' \in Content /\ home' = [group |-> group, profile |-> name] /\ changed' = FALSE
    BY <1>3, LoadFormTyped DEF Load, TypeOK
  <2>. QED BY <1>0, <1>3, <2>1 DEF Load, TypeOK, PagesAreLoaded, selectorVars, profileVars
<1>4. ASSUME NEW p \in Profile, SelectProfile(p) PROVE IInv'
  <2>1. stack' \in Seq(Frame) /\ Grounded(stack') /\ stack' # <<>>
    BY <1>4, Pushed, AskTyped DEF SelectProfile
  <2>. QED BY <1>0, <1>4, <2>1 DEF SelectProfile, TypeOK, PagesAreLoaded, selectorVars, formVars
<1>5. ASSUME NEW p \in Profile, AddProfile(p) PROVE IInv'
  <2>1. stack' \in Seq(Frame) /\ Grounded(stack') /\ stack' # <<>>
    BY <1>5, Pushed, AskTyped DEF AddProfile
  <2>2. file' \in Files
    BY <1>5, WriteTyped DEF AddProfile, TypeOK, Content
  <2>3. options' \subseteq Profile /\ shown' \in Profile
    BY <1>5, SelectorTyped DEF AddProfile, Names
  <2>. QED BY <1>0, <1>5, <2>1, <2>2, <2>3 DEF AddProfile, TypeOK, PagesAreLoaded, Names, selectorVars, formVars
<1>6. CASE DelProfile
  <2>1. stack' = AskFirst(<<Switch(shown')>>)
    BY <1>6 DEF DelProfile
  <2>2. options' \subseteq Profile /\ shown' \in Profile
    BY <1>6, SelectorTyped DEF DelProfile, Names
  <2>3. stack' \in Seq(Frame) /\ Grounded(stack') /\ stack' # <<>>
    BY <2>1, <2>2, Pushed, AskTyped
  <2>. DEFINE left == IF name = NoName THEN file ELSE [file EXCEPT ![group][name] = NoProfile]
  <2>4. group \in Group /\ (name # NoName => name \in Profile)
    BY <1>6 DEF DelProfile, TypeOK
  <2>5. left \in Files
    <3>1. file \in Files
      BY DEF TypeOK
    <3>2. ASSUME name \in Profile PROVE [file EXCEPT ![group][name] = NoProfile] \in Files
      BY <2>4, <3>1, <3>2
    <3>. QED BY <2>4, <3>1, <3>2
  <2>6. file' = left \/ file' = [left EXCEPT ![group][Default] = Standard]
    BY <1>6 DEF DelProfile
  <2>. HIDE DEF left
  <2>7. file' \in Files
    BY <2>4, <2>5, <2>6, DefaultTyped
  <2>8. name' \in Names /\ UNCHANGED <<calls, selected, form, home, changed>>
    BY <1>6, NameAssumption DEF DelProfile, selectorVars, formVars
  <2>. QED BY <1>0, <2>1, <2>2, <2>3, <2>7, <2>8 DEF TypeOK, PagesAreLoaded
<1>7. ASSUME NEW t \in Tablet, SelectTablet(t) PROVE IInv'
  <2>1. stack' \in Seq(Frame) /\ Grounded(stack') /\ stack' # <<>>
    BY <1>7, Pushed, AskTyped DEF SelectTablet
  <2>. QED BY <1>0, <1>7, <2>1 DEF SelectTablet, TypeOK, PagesAreLoaded, profileVars, formVars
<1>. QED BY <1>1, <1>2, <1>3, <1>4, <1>5, <1>6, <1>7 DEF User

LEMMA AnswerStep == IInv /\ Answer => IInv'
<1>. SUFFICES ASSUME IInv, Answer PROVE IInv'
  OBVIOUS
<1>. USE DEF IInv
<1>1. stack' \in Seq(Frame) /\ Grounded(stack') /\ stack' # <<>>
  BY Pop DEF Answer, AnswerSave, AnswerDiscard, At, TypeOK
<1>2. CASE AnswerSave
  BY <1>1, <1>2, SaveProfileTyped DEF AnswerSave, SaveProfile, TypeOK, PagesAreLoaded, daemonVars, selectorVars,
     profileVars
<1>3. CASE AnswerDiscard
  BY <1>1, <1>3 DEF AnswerDiscard, TypeOK, PagesAreLoaded, daemonVars, selectorVars, profileVars, formVars
<1>. QED BY <1>2, <1>3 DEF Answer

LEMMA EventLoopStep == IInv /\ EventLoop => IInv'
<1>. SUFFICES ASSUME IInv, EventLoop PROVE IInv'
  OBVIOUS
<1>. USE DEF IInv
<1>0. UNCHANGED <<cache, controlled, current, applied, maker, hotplugs, acts>>
  BY DEF EventLoop, SwitchProfile, OnTabletAdded, OnTabletRemoved, ShowError, ShowConfig, FollowProfile, daemonVars
<1>1. CASE SwitchProfile
  <2>1. stack # <<>> /\ Head(stack) \in Frame /\ Head(stack).at = "switch" /\ stack' = Tail(stack)
    BY <1>1, Pop DEF SwitchProfile, At, TypeOK
  <2>2. Head(stack).profile \in Names
    BY <2>1 DEF Frame
  <2>3. stack' \in Seq(Frame) /\ Grounded(stack')
    BY <2>1, Pop DEF TypeOK
  <2>4. /\ form' \in Content
        /\ home' = [group |-> group, profile |-> Head(stack).profile]
        /\ changed' = FALSE
    BY <1>1, <2>2, LoadFormTyped DEF SwitchProfile, TypeOK
  <2>5. calls' \in Seq([tablet : Tablet \cup {NoTablet}, profile : Names])
    BY <1>1, <2>2, CallTyped DEF SwitchProfile
  <2>6. name' = Head(stack).profile /\ UNCHANGED <<file, signals, items, selected, options, shown, visible, group>>
    BY <1>1 DEF SwitchProfile, selectorVars
  <2>. QED BY <1>0, <2>2, <2>3, <2>4, <2>5, <2>6 DEF TypeOK, PagesAreLoaded
<1>2. CASE OnTabletAdded \/ OnTabletRemoved
  <2>1. signals # <<>> /\ signals' = Tail(signals)
    BY <1>2 DEF OnTabletAdded, OnTabletRemoved, Delivers
  <2>2. /\ Head(signals).tablet \in Tablet
        /\ signals' \in Seq([kind : {"added", "removed"}, tablet : Tablet])
    <3>. DEFINE S == [kind : {"added", "removed"}, tablet : Tablet]
    <3>1. signals \in Seq(S)
      BY DEF TypeOK
    <3>. HIDE DEF S
    <3>2. Head(signals) \in S /\ Tail(signals) \in Seq(S)
      BY <2>1, <3>1
    <3>. QED BY <2>1, <3>2 DEF S
  <2>3. /\ AskFirst(<<Select>>) \o stack \in Seq(Frame)
        /\ Grounded(AskFirst(<<Select>>) \o stack)
        /\ AskFirst(<<Select>>) \o stack # <<>>
    BY Pushed, AskTyped, Concat, NamesNotEmpty DEF TypeOK
  <2>4. stack' = stack \/ stack' = AskFirst(<<Select>>) \o stack
    BY <1>2 DEF OnTabletAdded, OnTabletRemoved
  <2>5. items' \subseteq Tablet /\ selected' \in Tablet \cup {NoTablet}
    BY <1>2, <2>2 DEF OnTabletAdded, OnTabletRemoved, TypeOK
  <2>6. UNCHANGED <<file, calls, options, shown, visible, group, name, form, home, changed>>
    BY <1>2 DEF OnTabletAdded, OnTabletRemoved, profileVars, formVars
  <2>. QED BY <1>0, <2>2, <2>3, <2>4, <2>5, <2>6 DEF TypeOK, PagesAreLoaded
<1>3. CASE ShowError
  <2>1. stack' \in Seq(Frame) /\ Grounded(stack')
    BY <1>3, Pop DEF ShowError, At, TypeOK
  <2>. QED BY <1>0, <1>3, <2>1 DEF ShowError, TypeOK, PagesAreLoaded, selectorVars, formVars
<1>4. CASE ShowConfig
  <2>. DEFINE g == <<selected, selected \in controlled>>
  <2>1. stack # <<>> /\ Tail(stack) \in Seq(Frame) /\ Grounded(Tail(stack)) /\ stack' = <<Follow>> \o Tail(stack)
    BY <1>4, Pop DEF ShowConfig, At, TypeOK
  <2>2. stack' \in Seq(Frame) /\ Grounded(stack') /\ stack' # <<>>
    BY <2>1, Pushed, Concat, NamesNotEmpty
  <2>3. g \in Group /\ group' = g
    <3>1. selected \in Tablet \cup {NoTablet}
      BY DEF TypeOK
    <3>2. group' = g
      BY <1>4 DEF ShowConfig
    <3>3. (selected \in controlled) \in BOOLEAN
      OBVIOUS
    <3>. QED BY <3>1, <3>2, <3>3 DEF Group
  <2>. HIDE DEF g
  <2>4. calls' \in Seq([tablet : Tablet \cup {NoTablet}, profile : Names]) /\ name' \in Names
    <3>1. Default \in Names
      BY NameAssumption
    <3>2. \/ name' = Default /\ calls' = CallSetProfile(Default)
          \/ UNCHANGED <<name, calls>>
      BY <1>4 DEF ShowConfig
    <3>3. CallSetProfile(Default) \in Seq([tablet : Tablet \cup {NoTablet}, profile : Names])
      BY <3>1, CallTyped
    <3>. QED BY <3>1, <3>2, <3>3 DEF TypeOK
  <2>5. file' = file \/ file' = [file EXCEPT ![g][Default] = Standard]
    BY <1>4 DEF ShowConfig, g
  <2>6. file' \in Files
    <3>1. file \in Files
      BY DEF TypeOK
    <3>. HIDE DEF Files
    <3>2. [file EXCEPT ![g][Default] = Standard] \in Files
      BY <2>3, <3>1, DefaultTyped
    <3>. QED BY <2>5, <3>1, <3>2
  <2>7. options' \subseteq Profile /\ shown' \in Profile /\ visible' = TRUE
    BY <1>4, SelectorTyped DEF ShowConfig, Names
  <2>8. UNCHANGED <<signals, items, selected, form, home, changed>>
    BY <1>4 DEF ShowConfig, selectorVars, formVars
  <2>. QED BY <1>0, <2>2, <2>3, <2>4, <2>6, <2>7, <2>8 DEF TypeOK, PagesAreLoaded
<1>5. CASE FollowProfile
  <2>. DEFINE p == IF selected \in controlled THEN current[selected] ELSE NoName
              pushed == IF p \in options \ {shown} THEN <<Switch(p), Switch(p)>> ELSE <<Switch(p)>>
  <2>1. p \in Names
    BY DEF TypeOK
  <2>2. stack # <<>> /\ Tail(stack) \in Seq(Frame) /\ Grounded(Tail(stack))
    BY <1>5, Pop DEF FollowProfile, At, TypeOK
  <2>3. stack' = AskFirst(pushed) \o Tail(stack)
    BY <1>5 DEF FollowProfile
  <2>4. shown' \in Names /\ UNCHANGED <<file, calls, signals, items, selected, options, visible, group, name, form,
                                        home, changed>>
    BY <1>5, <2>1 DEF FollowProfile, TypeOK, selectorVars, formVars
  <2>. HIDE DEF p
  <2>5. pushed \in Seq(Frame) /\ Grounded(pushed) /\ pushed # <<>>
    BY <2>1, Pushed
  <2>. HIDE DEF pushed
  <2>6. AskFirst(pushed) \in Seq(Frame) /\ Grounded(AskFirst(pushed)) /\ AskFirst(pushed) # <<>>
    BY <2>5, AskTyped
  <2>7. stack' \in Seq(Frame) /\ Grounded(stack') /\ stack' # <<>>
    BY <2>2, <2>3, <2>6, Concat
  <2>. QED BY <1>0, <2>4, <2>7 DEF TypeOK, PagesAreLoaded
<1>. QED BY <1>1, <1>2, <1>3, <1>4, <1>5 DEF EventLoop

-----------------------------------------------------------------------------
(* The invariant and what follows from it. *)

LEMMA InitEstablishes == Init => IInv
<1>. SUFFICES ASSUME Init PROVE IInv
  OBVIOUS
<1>1. stack \in Seq(Frame) /\ Grounded(stack)
  BY Pushed, NamesNotEmpty DEF Init, Grounded
<1>2. maker \in Group \cup {NoGroup} /\ controlled \subseteq Tablet
  BY GroupTyped DEF Init
<1>3. file \in Files /\ cache = file
  BY DEF Init, Content
<1>4. applied \in [Tablet -> Content \cup {NoProfile}] /\ current \in [Tablet -> Names]
  BY DEF Init, Content
<1>5. selected \in Tablet \cup {NoTablet} /\ items \subseteq Tablet
  BY <1>2 DEF Init
<1>6. home \in [group : Group \cup {NoGroup}, profile : Names] /\ form \in Content
  BY DEF Init, Content
<1>7. /\ calls \in Seq([tablet : Tablet \cup {NoTablet}, profile : Names])
      /\ signals \in Seq([kind : {"added", "removed"}, tablet : Tablet])
      /\ hotplugs \in Nat /\ acts \in Nat
  BY DEF Init
<1>8. /\ options = {} /\ shown = NoName /\ visible = FALSE /\ group = NoGroup /\ name = NoName
      /\ changed = FALSE
  BY DEF Init
<1>9. TypeOK
  BY <1>1, <1>2, <1>3, <1>4, <1>5, <1>6, <1>7, <1>8 DEF TypeOK
<1>. QED BY <1>1, <1>8, <1>9 DEF IInv, PagesAreLoaded

LEMMA StepPreserves == IInv /\ [Next]_vars => IInv'
<1>. SUFFICES ASSUME IInv, [Next]_vars PROVE IInv'
  OBVIOUS
<1>1. CASE UNCHANGED vars
  BY <1>1 DEF vars, IInv, TypeOK, PagesAreLoaded, Grounded, daemonVars, kcmVars, selectorVars, profileVars, formVars
<1>. QED BY <1>1, UserStep, AnswerStep, EventLoopStep, ServeSetProfileStep, DaemonStep DEF Next

\* The inductive invariant holds of every behaviour of the widget, the daemon and the
\* tablets, for any tablets, profiles and contents.
THEOREM InvariantHolds == Spec => []IInv
BY InitEstablishes, StepPreserves, PTL DEF Spec

\* Every variable has its type: no slot of the widget writes something that is no
\* profile into the file, and no dialog is left on an empty stack.
THEOREM TypeCorrect == Spec => []TypeOK
<1>1. IInv => TypeOK
  BY DEF IInv
<1>. QED BY <1>1, InvariantHolds, PTL

\* Whenever the widget is idle, what its pages show was loaded from the profile that
\* saveProfile would write it to, however dialogs, tablets that come and go and
\* answers were nested.
THEOREM IdlePagesAreOfProfile == Spec => []PagesAreOfProfile
<1>1. IInv => PagesAreOfProfile
  BY DEF IInv, PagesAreLoaded, PagesAreOfProfile, Idle
<1>. QED BY <1>1, InvariantHolds, PTL

-----------------------------------------------------------------------------
(* The daemon runs what is in the file, unless it is about to be told to.  *)

\* A call of setProfile for the tablet is under way.
Called(t) == \E i \in DOMAIN calls : calls[i].tablet = t

\* The tablet runs a profile of the file, and the cache has it as the file does.
RunsFile(t) ==
    /\ current[t] \in ProfilesOf(file, GroupOf(t))
    /\ LoadProfile(cache, GroupOf(t), current[t]) = LoadProfile(file, GroupOf(t), current[t])
    /\ \/ maker = GroupOf(t) /\ current[t] = Default
       \/ applied[t] = file[GroupOf(t)][current[t]]

\* Every slot under way ends with a call, or with nothing shown.
DaemonFollows ==
    visible /\ selected \in controlled => stack # <<>> \/ Called(selected) \/ RunsFile(selected)

LEMMA GroupsDiffer == \A t, u \in Tablet : GroupOf(t) = GroupOf(u) => t = u
BY DEF GroupOf

\* setProfile leaves the file with the profile it applied, and changes it only when
\* the tablet had none.
LEMMA SetProfileCases ==
    ASSUME DaemonTypes, NEW t \in Tablet, NEW p \in Names, SetProfile(t, p)
    PROVE  \E q \in Profile :
               /\ current' = [current EXCEPT ![t] = q]
               /\ file' \in Files /\ cache' = file'
               /\ q \in ProfilesOf(file', GroupOf(t))
               /\ applied' = [applied EXCEPT ![t] = file'[GroupOf(t)][q]]
               /\ \/ q \in ProfilesOf(file, GroupOf(t)) /\ file' = file /\ maker' = maker
                  \/ /\ ProfilesOf(file, GroupOf(t)) = {}
                     /\ \E target \in Group, c \in Content :
                            /\ maker' = target /\ maker \in {NoGroup, target}
                            /\ file' = [[file EXCEPT ![target][Default] = Standard]
                                            EXCEPT ![GroupOf(t)][q] = c]
<1>0. GroupOf(t) \in Group /\ file \in Files /\ \A c \in Content : c # NoProfile
  BY GroupTyped, NameAssumption DEF DaemonTypes, Content
<1>. DEFINE aim == IF maker = NoGroup THEN GroupOf(t) ELSE maker
            made == [file EXCEPT ![aim][Default] = Standard]
<1>1. CASE \E q \in ProfilesOf(file, GroupOf(t)) : Apply(t, q, file) /\ UNCHANGED maker
  <2>1. PICK q \in ProfilesOf(file, GroupOf(t)) : Apply(t, q, file) /\ UNCHANGED maker
    BY <1>1
  <2>2. q \in Profile /\ LoadProfile(file, GroupOf(t), q) = file[GroupOf(t)][q]
    BY DEF ProfilesOf, LoadProfile
  <2>3. [file EXCEPT ![GroupOf(t)][q] = file[GroupOf(t)][q]] = file
    BY <1>0, <2>2
  <2>4. file' = file
    BY <2>1, <2>2, <2>3 DEF Apply
  <2>. QED BY <1>0, <2>1, <2>2, <2>4 DEF Apply
<1>2. CASE ProfilesOf(file, GroupOf(t)) = {}
           /\ \E q \in ProfilesOf(made, aim) : maker' = aim /\ Apply(t, q, made)
  <2>1. PICK q \in ProfilesOf(made, aim) : maker' = aim /\ Apply(t, q, made)
    BY <1>2
  <2>2. q \in Profile /\ aim \in Group /\ maker \in {NoGroup, aim}
    BY <1>0 DEF ProfilesOf, DaemonTypes
  <2>3. made \in Files
    BY <1>0, <2>2, DefaultTyped
  <2>. HIDE DEF made, aim
  <2>4. PICK c \in Content : c = LoadProfile(made, GroupOf(t), q)
    BY <1>0, <2>2, <2>3, LoadTyped
  <2>5. file' = [made EXCEPT ![GroupOf(t)][q] = c] /\ applied' = [applied EXCEPT ![t] = c]
        /\ current' = [current EXCEPT ![t] = q] /\ cache' = file'
    BY <2>1, <2>4 DEF Apply
  <2>6. file' \in Files /\ file'[GroupOf(t)][q] = c
    BY <1>0, <2>2, <2>3, <2>5
  <2>7. q \in ProfilesOf(file', GroupOf(t))
    BY <1>0, <2>2, <2>6 DEF ProfilesOf
  <2>8. file' = [[file EXCEPT ![aim][Default] = Standard] EXCEPT ![GroupOf(t)][q] = c]
    BY <2>5 DEF made
  <2>9. /\ ProfilesOf(file, GroupOf(t)) = {}
        /\ \E target \in Group, e \in Content :
               /\ maker' = target /\ maker \in {NoGroup, target}
               /\ file' = [[file EXCEPT ![target][Default] = Standard]
                               EXCEPT ![GroupOf(t)][q] = e]
    BY <1>2, <2>1, <2>2, <2>8
  <2>10. applied' = [applied EXCEPT ![t] = file'[GroupOf(t)][q]]
    BY <2>5, <2>6
  <2>. QED BY <2>2, <2>5, <2>6, <2>7, <2>9, <2>10
<1>3. \/ \E q \in ProfilesOf(file, GroupOf(t)) : Apply(t, q, file) /\ UNCHANGED maker
      \/ ProfilesOf(file, GroupOf(t)) = {}
         /\ \E q \in ProfilesOf(made, aim) : maker' = aim /\ Apply(t, q, made)
  BY DEF SetProfile
<1>. QED BY <1>1, <1>2, <1>3

LEMMA SetProfileRuns ==
    ASSUME DaemonTypes, NEW t \in Tablet, NEW p \in Names, SetProfile(t, p),
           NEW u \in Tablet, u = t \/ RunsFile(u)
    PROVE  RunsFile(u)'
<1>1. PICK q \in Profile :
          /\ current' = [current EXCEPT ![t] = q]
          /\ file' \in Files /\ cache' = file'
          /\ q \in ProfilesOf(file', GroupOf(t))
          /\ applied' = [applied EXCEPT ![t] = file'[GroupOf(t)][q]]
          /\ \/ q \in ProfilesOf(file, GroupOf(t)) /\ file' = file /\ maker' = maker
             \/ /\ ProfilesOf(file, GroupOf(t)) = {}
                /\ \E target \in Group, c \in Content :
                       /\ maker' = target /\ maker \in {NoGroup, target}
                       /\ file' = [[file EXCEPT ![target][Default] = Standard]
                                       EXCEPT ![GroupOf(t)][q] = c]
  BY SetProfileCases
<1>2. CASE u = t
  BY <1>1, <1>2 DEF RunsFile, DaemonTypes
<1>3. CASE u # t
  <2>1. RunsFile(u) /\ current'[u] = current[u] /\ applied'[u] = applied[u]
    BY <1>1, <1>3 DEF DaemonTypes
  <2>2. CASE file' = file /\ maker' = maker
    BY <1>1, <2>1, <2>2 DEF RunsFile
  <2>3. ASSUME NEW target \in Group, NEW c \in Content,
               maker' = target, maker \in {NoGroup, target},
               file' = [[file EXCEPT ![target][Default] = Standard] EXCEPT ![GroupOf(t)][q] = c]
        PROVE  RunsFile(u)'
    <3>1. /\ GroupOf(t) # GroupOf(u) /\ GroupOf(t) \in Group /\ GroupOf(u) \in Group
          /\ GroupOf(u) # NoGroup /\ file \in Files
      BY <1>3, GroupsDiffer, GroupTyped, GroupAssumption DEF DaemonTypes
    <3>2. file'[GroupOf(u)] = IF target = GroupOf(u) THEN [file[GroupOf(u)] EXCEPT ![Default] = Standard]
                              ELSE file[GroupOf(u)]
      BY <2>3, <3>1
    <3>3. Default \in Profile /\ Standard # NoProfile
      BY NameAssumption
    <3>4. current[u] \in Profile /\ file[GroupOf(u)][current[u]] # NoProfile
      BY <2>1 DEF RunsFile, ProfilesOf
    <3>5. current[u] \in ProfilesOf(file', GroupOf(u))
      BY <3>1, <3>2, <3>3, <3>4 DEF ProfilesOf
    <3>6. (maker' = GroupOf(u) /\ current[u] = Default) \/ applied[u] = file'[GroupOf(u)][current[u]]
      BY <2>1, <2>3, <3>1, <3>2, <3>3, <3>4 DEF RunsFile
    <3>. QED BY <1>1, <2>1, <3>5, <3>6 DEF RunsFile
  <2>. QED BY <1>1, <2>2, <2>3
<1>. QED BY <1>2, <1>3

\* A shortcut that maps the pen saves what is in the file.
LEMMA MapPenRuns ==
    ASSUME DaemonTypes, NEW t \in Tablet, MapPen(t), NEW u \in Tablet, RunsFile(u)
    PROVE  RunsFile(u)'
<1>. DEFINE g == GroupOf(t)
            p == current[t]
<1>1. /\ g \in Group /\ GroupOf(u) \in Group /\ p \in Names /\ file \in Files /\ cache \in Files
      /\ \A c \in Content : c # NoProfile
  BY GroupTyped, NameAssumption DEF DaemonTypes, Content
<1>2. PICK c \in Content : c = LoadProfile(cache, g, p)
  BY <1>1, LoadTyped
<1>3. PICK d : d = IF p \in ProfilesOf(cache, g) THEN cache[g][p] ELSE LoadProfile(file, g, p)
  OBVIOUS
<1>4. /\ file' = [file EXCEPT ![g][p] = d] /\ cache' = [cache EXCEPT ![g][p] = c]
      /\ UNCHANGED <<current, applied, maker>>
  BY <1>2, <1>3 DEF MapPen
<1>5. CASE u = t
  <2>1. p \in ProfilesOf(file, g) /\ c = file[g][p]
    BY <1>2, <1>5 DEF RunsFile, LoadProfile
  <2>2. d = file[g][p]
    <3>1. CASE p \in ProfilesOf(cache, g)
      BY <1>2, <1>3, <2>1, <3>1 DEF LoadProfile
    <3>2. CASE p \notin ProfilesOf(cache, g)
      BY <1>3, <2>1, <3>2 DEF LoadProfile
    <3>. QED BY <3>1, <3>2
  <2>3. p \in Profile
    BY <2>1 DEF ProfilesOf
  <2>. HIDE DEF g, p
  <2>4. file' = file
    BY <1>1, <1>4, <2>2, <2>3
  <2>5. cache'[g][p] = c
    BY <1>1, <1>4, <2>3
  <2>6. LoadProfile(cache', g, p) = LoadProfile(file', g, p)
    BY <1>1, <2>1, <2>3, <2>4, <2>5 DEF LoadProfile, ProfilesOf
  <2>. QED BY <1>4, <1>5, <2>1, <2>4, <2>6 DEF RunsFile, g, p
<1>6. CASE u # t
  <2>1. GroupOf(u) # g
    BY <1>6, GroupsDiffer
  <2>. HIDE DEF g, p
  <2>2. file'[GroupOf(u)] = file[GroupOf(u)] /\ cache'[GroupOf(u)] = cache[GroupOf(u)]
    BY <1>1, <1>4, <2>1
  <2>. QED BY <1>4, <2>2 DEF RunsFile, ProfilesOf, LoadProfile
<1>. QED BY <1>5, <1>6

LEMMA DaemonFollowsStep ==
    ASSUME IInv, DaemonFollows, [Next]_vars
    PROVE  DaemonFollows'
<1>0. DaemonTypes /\ TypeOK /\ stack \in Seq(Frame) /\ Grounded(stack)
  BY DaemonTypesOfTypeOK DEF IInv, TypeOK
<1>. SUFFICES ASSUME visible', selected' \in controlled', stack' = <<>>, ~Called(selected)'
              PROVE  RunsFile(selected)'
  BY DEF DaemonFollows
<1>a. ASSUME NEW p, calls' = CallSetProfile(p), selected' = selected
      PROVE  FALSE
  <2>1. Len(calls) + 1 \in DOMAIN calls' /\ calls'[Len(calls) + 1].tablet = selected'
    BY <1>0, <1>a DEF TypeOK, CallSetProfile
  <2>. QED BY <2>1 DEF Called
<1>1. CASE UNCHANGED <<file, cache, controlled, current, applied, maker, calls, selected, visible, stack>>
  BY <1>1 DEF DaemonFollows, RunsFile, Called
<1>2. CASE UNCHANGED vars
  BY <1>1, <1>2 DEF vars, daemonVars, kcmVars, selectorVars, profileVars
<1>3. CASE User
  <2>1. stack = <<>>
    BY <1>3 DEF User, EditPages, Save, Load, SelectProfile, AddProfile, DelProfile, SelectTablet, UserActs
  <2>2. ASSUME NEW e \in Edit, EditPages(e) PROVE FALSE \/ RunsFile(selected)'
    BY <1>1, <2>1, <2>2 DEF EditPages, daemonVars, selectorVars, profileVars
  <2>3. ASSUME Save PROVE FALSE
    BY <1>a, <2>3 DEF Save, SaveProfile, selectorVars
  <2>4. ASSUME Load PROVE RunsFile(selected)'
    BY <1>1, <2>1, <2>4 DEF Load, daemonVars, selectorVars, profileVars
  <2>5. ASSUME NEW p \in Profile, SelectProfile(p) PROVE FALSE
    BY <2>5, Pushed, AskTyped DEF SelectProfile
  <2>6. ASSUME NEW p \in Profile, AddProfile(p) PROVE FALSE
    BY <2>6, Pushed, AskTyped DEF AddProfile
  <2>7. ASSUME DelProfile PROVE FALSE
    <3>1. stack' = AskFirst(<<Switch(shown')>>)
      BY <2>7 DEF DelProfile
    <3>2. shown' \in Profile
      BY <2>7, SelectorTyped DEF DelProfile
    <3>. QED BY <3>1, <3>2, Pushed, AskTyped
  <2>8. ASSUME NEW t \in Tablet, SelectTablet(t) PROVE FALSE
    BY <2>8, Pushed, AskTyped, NamesNotEmpty DEF SelectTablet
  <2>. QED BY <1>3, <2>2, <2>3, <2>4, <2>5, <2>6, <2>7, <2>8 DEF User
<1>4. CASE Answer
  BY <1>0, <1>4, Pop DEF Answer, AnswerSave, AnswerDiscard, At
<1>5. CASE EventLoop
  <2>1. ASSUME SwitchProfile PROVE FALSE
    BY <1>a, <2>1 DEF SwitchProfile, selectorVars
  <2>2. ASSUME OnTabletAdded \/ OnTabletRemoved PROVE RunsFile(selected)'
    <3>1. AskFirst(<<Select>>) \o stack # <<>>
      BY <1>0, Pushed, AskTyped, Concat, NamesNotEmpty
    <3>2. stack' = stack /\ selected' = selected
      BY <2>2, <3>1 DEF OnTabletAdded, OnTabletRemoved
    <3>. QED BY <1>1, <2>2, <3>2 DEF OnTabletAdded, OnTabletRemoved, daemonVars, profileVars
  <2>3. ASSUME ShowError PROVE FALSE
    BY <2>3 DEF ShowError
  <2>4. ASSUME ShowConfig PROVE FALSE
    <3>1. Tail(stack) \in Seq(Frame) /\ Grounded(Tail(stack)) /\ stack' = <<Follow>> \o Tail(stack)
      BY <1>0, <2>4, Pop DEF ShowConfig, At
    <3>. QED BY <3>1, Pushed, Concat, NamesNotEmpty
  <2>5. ASSUME FollowProfile PROVE FALSE
    <3>. DEFINE p == IF selected \in controlled THEN current[selected] ELSE NoName
                pushed == IF p \in options \ {shown} THEN <<Switch(p), Switch(p)>> ELSE <<Switch(p)>>
    <3>1. p \in Names
      BY <1>0 DEF TypeOK
    <3>2. Tail(stack) \in Seq(Frame) /\ Grounded(Tail(stack)) /\ stack' = AskFirst(pushed) \o Tail(stack)
      BY <1>0, <2>5, Pop DEF FollowProfile, At
    <3>. HIDE DEF p
    <3>3. pushed \in Seq(Frame) /\ Grounded(pushed) /\ pushed # <<>>
      BY <3>1, Pushed
    <3>. HIDE DEF pushed
    <3>4. AskFirst(pushed) \in Seq(Frame) /\ Grounded(AskFirst(pushed)) /\ AskFirst(pushed) # <<>>
      BY <3>3, AskTyped
    <3>. QED BY <3>2, <3>4, Concat
  <2>. QED BY <1>5, <2>1, <2>2, <2>3, <2>4, <2>5 DEF EventLoop
<1>6. CASE ServeSetProfile
  <2>. DEFINE t == Head(calls).tablet
              p == Head(calls).profile
  <2>1. /\ calls # <<>> /\ calls' = Tail(calls) /\ controlled' = controlled
        /\ UNCHANGED <<selected, visible, stack>>
        /\ t \in controlled => SetProfile(t, p)
        /\ t \notin controlled => UNCHANGED <<file, cache, current, applied, maker>>
    BY <1>6 DEF ServeSetProfile, kcmVars, selectorVars, profileVars
  <2>2. p \in Names /\ (t \in controlled => t \in Tablet) /\ selected \in Tablet
    <3>1. calls \in Seq([tablet : Tablet \cup {NoTablet}, profile : Names])
      BY <1>0 DEF TypeOK
    <3>2. Head(calls) \in [tablet : Tablet \cup {NoTablet}, profile : Names]
      BY <2>1, <3>1, HeadAndTail
    <3>3. controlled \subseteq Tablet
      BY <1>0 DEF TypeOK
    <3>. QED BY <2>1, <3>2, <3>3
  <2>3. selected = t \/ RunsFile(selected)
    <3>1. calls \in Seq([tablet : Tablet \cup {NoTablet}, profile : Names])
      BY <1>0 DEF TypeOK
    <3>2. \A i \in DOMAIN calls : i = 1 \/ (i - 1 \in DOMAIN calls' /\ calls'[i - 1] = calls[i])
      BY <2>1, <3>1
    <3>3. Head(calls) = calls[1]
      BY <2>1, <3>1
    <3>. QED BY <2>1, <3>2, <3>3 DEF Called, DaemonFollows
  <2>. HIDE DEF t, p
  <2>4. CASE t \in controlled
    <3>1. RunsFile(selected)'
      <4>1. PICK s \in Tablet : s = selected
        BY <2>2
      <4>2. RunsFile(s)'
        BY <1>0, <2>1, <2>2, <2>3, <2>4, <4>1, SetProfileRuns
      <4>. QED BY <2>1, <4>1, <4>2 DEF RunsFile
    <3>. QED BY <3>1
  <2>5. CASE t \notin controlled
    BY <2>1, <2>3, <2>5 DEF RunsFile
  <2>. QED BY <2>4, <2>5
<1>7. CASE Daemon
  <2>1. UNCHANGED <<selected, visible, stack, calls>>
    BY <1>7 DEF Daemon, SwitchElsewhere, MapPen, Plug, Unplug, kcmVars, selectorVars, profileVars
  <2>2. PICK s \in Tablet : s = selected
    BY <1>7, <2>1, <1>0 DEF TypeOK, Daemon, SwitchElsewhere, MapPen, Plug, Unplug
  <2>3. s \in controlled => RunsFile(s)
    BY <2>1, <2>2 DEF DaemonFollows, RunsFile, Called
  <2>4. ASSUME NEW t \in Tablet, NEW p \in Profile, SwitchElsewhere(t, p) PROVE RunsFile(s)'
    BY <1>0, <2>1, <2>2, <2>3, <2>4, SetProfileRuns DEF SwitchElsewhere
  <2>5. ASSUME NEW t \in Tablet, MapPen(t) PROVE RunsFile(s)'
    <3>1. s \in controlled
      BY <2>1, <2>2, <2>5 DEF MapPen
    <3>. QED BY <1>0, <2>3, <2>5, <3>1, MapPenRuns
  <2>6. ASSUME NEW t \in Tablet, Plug(t) PROVE RunsFile(s)'
    <3>1. SetProfile(t, current[t]) /\ current[t] \in Names
      BY <1>0, <2>6 DEF Plug, TypeOK
    <3>2. s = t \/ RunsFile(s)
      BY <2>1, <2>2, <2>3, <2>6 DEF Plug
    <3>. QED BY <1>0, <3>1, <3>2, SetProfileRuns
  <2>7. ASSUME NEW t \in Tablet, Unplug(t) PROVE RunsFile(s)'
    <3>1. s \in controlled
      BY <2>1, <2>2, <2>7 DEF Unplug
    <3>. QED BY <2>3, <2>7, <3>1 DEF Unplug, RunsFile
  <2>8. RunsFile(s)'
    BY <1>7, <2>4, <2>5, <2>6, <2>7 DEF Daemon
  <2>. QED BY <2>1, <2>2, <2>8 DEF RunsFile
<1>. QED BY <1>2, <1>3, <1>4, <1>5, <1>6, <1>7 DEF Next

-----------------------------------------------------------------------------
(* The signals under way and the group of the settings module.             *)

Told(t) == \E i \in DOMAIN signals : signals[i] = [kind |-> "removed", tablet |-> t]

\* A tablet that is gone and still offered, or about to be offered, will be removed.
GoneIsTold ==
    /\ selected \in items \cup {NoTablet}
    /\ \A t \in items \ controlled : Told(t)
    /\ \A i \in DOMAIN signals :
           signals[i].kind = "added" /\ signals[i].tablet \notin controlled =>
               \E j \in DOMAIN signals :
                   j > i /\ signals[j] = [kind |-> "removed", tablet |-> signals[i].tablet]

\* A frame of that kind is in a stack.
Has(s, kind) == \E i \in DOMAIN s : s[i].at = kind
InStack(kind) == Has(stack, kind)

\* Unless a selection is still to be served, the profiles are those of the selected
\* tablet, or it was gone when they were loaded and will be removed.
GroupFollows ==
    visible /\ ~InStack("select") =>
        \/ group = GroupOf(selected)
        \/ group = <<selected, FALSE>> /\ (selected \in Tablet => Told(selected))

Signal == [kind : {"added", "removed"}, tablet : Tablet]

LEMMA SignalTaken ==
    ASSUME signals \in Seq(Signal), signals # <<>>, signals' = Tail(signals)
    PROVE  /\ Head(signals) \in Signal /\ Head(signals) = signals[1] /\ 1 \in DOMAIN signals
           /\ \A i \in DOMAIN signals : i # 1 => i - 1 \in DOMAIN signals' /\ signals'[i - 1] = signals[i]
           /\ \A i \in DOMAIN signals' : i + 1 \in DOMAIN signals /\ signals'[i] = signals[i + 1]
OBVIOUS

LEMMA SignalSent ==
    ASSUME signals \in Seq(Signal), NEW s \in Signal, signals' = Append(signals, s)
    PROVE  /\ Len(signals) + 1 \in DOMAIN signals' /\ signals'[Len(signals) + 1] = s
           /\ \A i \in DOMAIN signals :
                  i \in DOMAIN signals' /\ signals'[i] = signals[i] /\ i < Len(signals) + 1
           /\ \A i \in DOMAIN signals' : i \in DOMAIN signals \/ i = Len(signals) + 1
OBVIOUS

LEMMA GoneIsToldStep ==
    ASSUME IInv, GoneIsTold, [Next]_vars
    PROVE  GoneIsTold'
<1>0. /\ TypeOK /\ signals \in Seq(Signal) /\ controlled \subseteq Tablet /\ items \subseteq Tablet
      /\ selected \in items \cup {NoTablet}
  BY DEF IInv, TypeOK, Signal, GoneIsTold
<1>1. ASSUME UNCHANGED <<signals, items, controlled>>, selected' \in items \cup {NoTablet}
      PROVE  GoneIsTold'
  BY <1>1 DEF GoneIsTold, Told
<1>2. CASE UNCHANGED vars
  BY <1>0, <1>1, <1>2 DEF vars, daemonVars, kcmVars, selectorVars
<1>3. CASE User
  <2>1. UNCHANGED <<signals, items, controlled>>
    BY <1>3 DEF User, EditPages, Save, SaveProfile, Load, SelectProfile, AddProfile, DelProfile,
       SelectTablet, daemonVars, selectorVars
  <2>2. selected' = selected \/ selected' \in items
    BY <1>3 DEF User, EditPages, Save, SaveProfile, Load, SelectProfile, AddProfile, DelProfile,
       SelectTablet, selectorVars
  <2>. QED BY <1>0, <1>1, <2>1, <2>2
<1>4. CASE Answer \/ SwitchProfile \/ ShowError \/ ShowConfig \/ FollowProfile
  <2>1. UNCHANGED <<signals, items, controlled, selected>>
    BY <1>4 DEF Answer, AnswerSave, AnswerDiscard, SaveProfile, SwitchProfile, ShowError, ShowConfig,
       FollowProfile, daemonVars, selectorVars
  <2>. QED BY <1>0, <1>1, <2>1
<1>5. CASE ServeSetProfile \/ (\E t \in Tablet, p \in Profile : SwitchElsewhere(t, p))
           \/ (\E t \in Tablet : MapPen(t))
  <2>1. UNCHANGED <<signals, items, controlled, selected>>
    BY <1>5 DEF ServeSetProfile, SwitchElsewhere, MapPen, kcmVars, selectorVars
  <2>. QED BY <1>0, <1>1, <2>1
<1>6. ASSUME NEW t \in Tablet, Plug(t)
      PROVE  GoneIsTold'
  <2>. DEFINE s == [kind |-> "added", tablet |-> t]
              n == Len(signals) + 1
  <2>1. /\ signals' = Append(signals, s) /\ controlled' = controlled \cup {t}
        /\ UNCHANGED <<items, selected>> /\ s \in Signal
    BY <1>6 DEF Plug, kcmVars, selectorVars, Signal
  <2>2. /\ n \in DOMAIN signals' /\ signals'[n] = s
        /\ \A i \in DOMAIN signals : i \in DOMAIN signals' /\ signals'[i] = signals[i] /\ i < n
        /\ \A i \in DOMAIN signals' : i \in DOMAIN signals \/ i = n
    BY <1>0, <2>1, SignalSent
  <2>. HIDE DEF n
  <2>3. \A u : Told(u) => Told(u)'
    BY <2>2 DEF Told
  <2>4. ASSUME NEW i \in DOMAIN signals', signals'[i].kind = "added", signals'[i].tablet \notin controlled'
        PROVE  \E j \in DOMAIN signals' :
                   j > i /\ signals'[j] = [kind |-> "removed", tablet |-> signals'[i].tablet]
    <3>1. i \in DOMAIN signals /\ signals'[i] = signals[i]
      BY <2>1, <2>2, <2>4
    <3>. QED BY <2>1, <2>2, <2>4, <3>1 DEF GoneIsTold
  <2>. QED BY <1>0, <2>1, <2>3, <2>4 DEF GoneIsTold
<1>7. ASSUME NEW t \in Tablet, Unplug(t)
      PROVE  GoneIsTold'
  <2>. DEFINE s == [kind |-> "removed", tablet |-> t]
              n == Len(signals) + 1
  <2>1. /\ signals' = Append(signals, s) /\ controlled' = controlled \ {t}
        /\ UNCHANGED <<items, selected>> /\ s \in Signal
    BY <1>7 DEF Unplug, kcmVars, selectorVars, Signal
  <2>2. /\ n \in DOMAIN signals' /\ signals'[n] = s
        /\ \A i \in DOMAIN signals : i \in DOMAIN signals' /\ signals'[i] = signals[i] /\ i < n
        /\ \A i \in DOMAIN signals' : i \in DOMAIN signals \/ i = n
    BY <1>0, <2>1, SignalSent
  <2>. HIDE DEF n
  <2>3. (\A u : Told(u) => Told(u)') /\ Told(t)'
    BY <2>2 DEF Told
  <2>4. ASSUME NEW i \in DOMAIN signals', signals'[i].kind = "added", signals'[i].tablet \notin controlled'
        PROVE  \E j \in DOMAIN signals' :
                   j > i /\ signals'[j] = [kind |-> "removed", tablet |-> signals'[i].tablet]
    <3>1. i \in DOMAIN signals /\ signals'[i] = signals[i]
      BY <2>2, <2>4
    <3>2. CASE signals[i].tablet = t
      BY <2>2, <3>1, <3>2
    <3>3. CASE signals[i].tablet # t
      BY <2>1, <2>2, <2>4, <3>1, <3>3 DEF GoneIsTold
    <3>. QED BY <3>2, <3>3
  <2>. QED BY <1>0, <2>1, <2>3, <2>4 DEF GoneIsTold
<1>8. CASE OnTabletAdded \/ OnTabletRemoved
  <2>1. signals # <<>> /\ signals' = Tail(signals) /\ controlled' = controlled
    BY <1>8 DEF OnTabletAdded, OnTabletRemoved, Delivers, daemonVars
  <2>2. /\ Head(signals) \in Signal /\ Head(signals) = signals[1] /\ 1 \in DOMAIN signals
        /\ \A i \in DOMAIN signals : i # 1 => i - 1 \in DOMAIN signals' /\ signals'[i - 1] = signals[i]
        /\ \A i \in DOMAIN signals' : i + 1 \in DOMAIN signals /\ signals'[i] = signals[i + 1]
    BY <1>0, <2>1, SignalTaken
  <2>3. ASSUME NEW i \in DOMAIN signals', signals'[i].kind = "added", signals'[i].tablet \notin controlled'
        PROVE  \E j \in DOMAIN signals' :
                   j > i /\ signals'[j] = [kind |-> "removed", tablet |-> signals'[i].tablet]
    <3>1. i + 1 \in DOMAIN signals /\ signals'[i] = signals[i + 1] /\ i \in Nat /\ i > 0
      BY <1>0, <2>1, <2>2
    <3>2. PICK j \in DOMAIN signals :
              j > i + 1 /\ signals[j] = [kind |-> "removed", tablet |-> signals'[i].tablet]
      BY <2>1, <2>3, <3>1 DEF GoneIsTold
    <3>3. j \in Nat /\ j # 1 /\ j - 1 > i
      BY <1>0, <3>1, <3>2
    <3>. QED BY <2>2, <3>2, <3>3
  <2>4. ASSUME NEW u, Told(u), Head(signals) # [kind |-> "removed", tablet |-> u]
        PROVE  Told(u)'
    BY <2>2, <2>4 DEF Told
  <2>5. CASE OnTabletAdded
    <3>1. /\ Head(signals).kind = "added" /\ items' = items \cup {Head(signals).tablet}
          /\ selected' \in items' \cup {NoTablet}
      BY <1>0, <2>5 DEF OnTabletAdded, Delivers
    <3>2. Head(signals).tablet \notin controlled => Told(Head(signals).tablet)
      BY <2>2, <3>1 DEF GoneIsTold, Told
    <3>3. ASSUME NEW u, Told(u) PROVE Told(u)'
      <4>1. Head(signals) # [kind |-> "removed", tablet |-> u]
        BY <3>1
      <4>. QED BY <2>4, <3>3, <4>1
    <3>4. \A u \in items' \ controlled' : Told(u)'
      BY <2>1, <3>1, <3>2, <3>3 DEF GoneIsTold
    <3>. QED BY <2>3, <3>1, <3>4 DEF GoneIsTold
  <2>6. CASE OnTabletRemoved
    <3>1. items' = items \ {Head(signals).tablet} /\ selected' \in items' \cup {NoTablet}
      BY <1>0, <2>6 DEF OnTabletRemoved
    <3>2. ASSUME NEW u \in items' \ controlled' PROVE Told(u)'
      <4>1. u \in items \ controlled /\ u # Head(signals).tablet
        BY <2>1, <3>1
      <4>2. Told(u) /\ Head(signals) # [kind |-> "removed", tablet |-> u]
        BY <4>1 DEF GoneIsTold
      <4>. QED BY <2>4, <4>2
    <3>. QED BY <2>3, <3>1, <3>2 DEF GoneIsTold
  <2>. QED BY <1>8, <2>5, <2>6
<1>. QED BY <1>2, <1>3, <1>4, <1>5, <1>6, <1>7, <1>8 DEF Next, EventLoop, Daemon

\* The frames of a stack that is put on another, and of what is left of one.
LEMMA HasConcat ==
    ASSUME NEW s \in Seq(Frame), NEW r \in Seq(Frame), NEW kind
    PROVE  Has(s \o r, kind) <=> Has(s, kind) \/ Has(r, kind)
<1>1. /\ \A i \in DOMAIN s : i \in DOMAIN (s \o r) /\ (s \o r)[i] = s[i]
      /\ \A i \in DOMAIN r : i + Len(s) \in DOMAIN (s \o r) /\ (s \o r)[i + Len(s)] = r[i]
      /\ \A i \in DOMAIN (s \o r) :
             i \in DOMAIN s \/ (i - Len(s) \in DOMAIN r /\ (s \o r)[i] = r[i - Len(s)])
  OBVIOUS
<1>2. ASSUME NEW i \in DOMAIN s, s[i].at = kind PROVE Has(s \o r, kind)
  <2>1. i \in DOMAIN (s \o r) /\ (s \o r)[i].at = kind
    BY <1>1, <1>2
  <2>. QED BY ONLY <2>1 DEF Has
<1>3. ASSUME NEW i \in DOMAIN r, r[i].at = kind PROVE Has(s \o r, kind)
  <2>1. i + Len(s) \in DOMAIN (s \o r) /\ (s \o r)[i + Len(s)].at = kind
    BY <1>1, <1>3
  <2>. QED BY ONLY <2>1 DEF Has
<1>4. ASSUME NEW i \in DOMAIN (s \o r), (s \o r)[i].at = kind PROVE Has(s, kind) \/ Has(r, kind)
  <2>1. CASE i \in DOMAIN s
    <3>1. s[i].at = kind
      BY <1>1, <1>4, <2>1
    <3>. QED BY ONLY <2>1, <3>1 DEF Has
  <2>2. CASE i \notin DOMAIN s
    <3>1. i - Len(s) \in DOMAIN r /\ r[i - Len(s)].at = kind
      BY <1>1, <1>4, <2>2
    <3>. QED BY ONLY <3>1 DEF Has
  <2>. QED BY <2>1, <2>2
<1>5. ASSUME Has(s, kind) \/ Has(r, kind) PROVE Has(s \o r, kind)
  BY ONLY <1>2, <1>3, <1>5 DEF Has
<1>6. ASSUME Has(s \o r, kind) PROVE Has(s, kind) \/ Has(r, kind)
  <2>1. PICK i \in DOMAIN (s \o r) : (s \o r)[i].at = kind
    BY ONLY <1>6 DEF Has
  <2>. QED BY ONLY <1>4, <2>1
<1>. QED BY ONLY <1>5, <1>6

LEMMA HasTail ==
    ASSUME NEW s \in Seq(Frame), s # <<>>, NEW kind
    PROVE  Has(s, kind) <=> Head(s).at = kind \/ Has(Tail(s), kind)
<1>1. /\ Head(s) = s[1] /\ 1 \in DOMAIN s
      /\ \A i \in DOMAIN s : i = 1 \/ (i - 1 \in DOMAIN Tail(s) /\ Tail(s)[i - 1] = s[i])
      /\ \A i \in DOMAIN Tail(s) : i + 1 \in DOMAIN s /\ Tail(s)[i] = s[i + 1]
  OBVIOUS
<1>2. ASSUME Has(s, kind) PROVE Head(s).at = kind \/ Has(Tail(s), kind)
  <2>1. PICK i \in DOMAIN s : s[i].at = kind
    BY ONLY <1>2 DEF Has
  <2>2. i = 1 \/ (i - 1 \in DOMAIN Tail(s) /\ Tail(s)[i - 1].at = kind)
    BY <1>1, <2>1
  <2>3. i = 1 => Head(s).at = kind
    BY <1>1, <2>1
  <2>. QED BY ONLY <2>2, <2>3 DEF Has
<1>3. ASSUME Has(Tail(s), kind) PROVE Has(s, kind)
  <2>1. PICK i \in DOMAIN Tail(s) : Tail(s)[i].at = kind
    BY ONLY <1>3 DEF Has
  <2>2. i + 1 \in DOMAIN s /\ s[i + 1].at = kind
    BY <1>1, <2>1
  <2>. QED BY ONLY <2>2 DEF Has
<1>4. Head(s).at = kind => Has(s, kind)
  BY ONLY <1>1 DEF Has
<1>. QED BY ONLY <1>2, <1>3, <1>4

LEMMA HasAsk ==
    ASSUME NEW frames \in Seq(Frame), NEW kind, Has(frames, kind)
    PROVE  Has(AskFirst(frames), kind)
<1>1. <<Dialog>> \in Seq(Frame) /\ <<>> \in Seq(Frame) /\ <<>> \o frames = frames
  BY FrameTypes
<1>. QED BY <1>1, HasConcat DEF AskFirst

\* A selection that is pushed is in the stack.
LEMMA SelectPushed ==
    ASSUME NEW r \in Seq(Frame), stack' = AskFirst(<<Select>>) \o r
    PROVE  InStack("select")'
<1>1. <<Select>> \in Seq(Frame) /\ Has(<<Select>>, "select") /\ <<Select>> # <<>> /\ Grounded(<<Select>>)
  <2>1. 1 \in DOMAIN <<Select>> /\ <<Select>>[1].at = "select"
    BY DEF Select
  <2>. QED BY <2>1, FrameTypes, Pushed, NamesNotEmpty DEF Has
<1>2. AskFirst(<<Select>>) \in Seq(Frame) /\ Has(AskFirst(<<Select>>), "select")
  BY <1>1, HasAsk, AskTyped
<1>. QED BY <1>2, HasConcat DEF InStack

\* A removal stays under way until the module is told.
LEMMA ToldStays ==
    ASSUME TypeOK, [Next]_vars, NEW u, Told(u),
           OnTabletRemoved => Head(signals).tablet # u
    PROVE  Told(u)'
<1>0. signals \in Seq(Signal)
  BY DEF TypeOK, Signal
<1>1. CASE UNCHANGED signals
  BY <1>1 DEF Told
<1>2. ASSUME NEW t \in Tablet, Plug(t) \/ Unplug(t) PROVE Told(u)'
  <2>1. PICK s \in Signal : signals' = Append(signals, s)
    BY <1>2 DEF Plug, Unplug, Signal
  <2>. QED BY <1>0, <2>1, SignalSent DEF Told
<1>3. CASE OnTabletAdded \/ OnTabletRemoved
  <2>1. signals # <<>> /\ signals' = Tail(signals)
    BY <1>3 DEF OnTabletAdded, OnTabletRemoved, Delivers
  <2>2. Head(signals) # [kind |-> "removed", tablet |-> u]
    <3>1. OnTabletAdded => Head(signals).kind = "added"
      BY DEF OnTabletAdded, Delivers
    <3>. QED BY <1>3, <3>1
  <2>3. \A i \in DOMAIN signals : i # 1 => i - 1 \in DOMAIN signals' /\ signals'[i - 1] = signals[i]
    BY <1>0, <2>1, SignalTaken
  <2>4. Head(signals) = signals[1]
    BY <1>0, <2>1, SignalTaken
  <2>. QED BY <2>2, <2>3, <2>4 DEF Told
<1>4. CASE UNCHANGED vars
  BY <1>1, <1>4 DEF vars
<1>5. CASE User \/ Answer \/ SwitchProfile \/ ShowError \/ ShowConfig \/ FollowProfile
  BY <1>1, <1>5 DEF User, EditPages, Save, Load, SelectProfile, AddProfile, DelProfile, SelectTablet, Answer,
     AnswerSave, AnswerDiscard, SaveProfile, SwitchProfile, ShowError, ShowConfig, FollowProfile
<1>6. CASE ServeSetProfile \/ (\E t \in Tablet, p \in Profile : SwitchElsewhere(t, p))
           \/ (\E t \in Tablet : MapPen(t))
  BY <1>1, <1>6 DEF ServeSetProfile, SwitchElsewhere, MapPen
<1>. QED BY <1>2, <1>3, <1>4, <1>5, <1>6 DEF Next, EventLoop, Daemon

LEMMA GroupFollowsStep ==
    ASSUME IInv, GoneIsTold, GroupFollows, [Next]_vars
    PROVE  GroupFollows'
<1>0. /\ TypeOK /\ stack \in Seq(Frame) /\ Grounded(stack) /\ selected \in items \cup {NoTablet}
      /\ items \subseteq Tablet /\ NoTablet \notin Tablet
  BY NameAssumption DEF IInv, TypeOK, GoneIsTold
<1>1. ASSUME UNCHANGED <<visible, group, selected>>, InStack("select") => InStack("select")',
             OnTabletRemoved => Head(signals).tablet # selected
      PROVE  GroupFollows'
  BY <1>0, <1>1, ToldStays DEF GroupFollows
<1>2. CASE UNCHANGED vars
  BY <1>0, <1>2 DEF vars, kcmVars, selectorVars, profileVars, GroupFollows, InStack, Told
<1>3. CASE User
  <2>1. stack = <<>> /\ UNCHANGED <<visible, group, signals>>
    BY <1>3 DEF User, EditPages, Save, Load, SelectProfile, AddProfile, DelProfile, SelectTablet, UserActs,
       SaveProfile, profileVars
  <2>0. ~InStack("select")
    BY <2>1 DEF InStack, Has
  <2>2. CASE UNCHANGED selected
    BY <2>0, <2>1, <2>2 DEF GroupFollows, Told
  <2>3. ASSUME NEW t \in Tablet, SelectTablet(t) PROVE InStack("select")'
    <3>1. stack' = AskFirst(<<Select>>) \o <<>> /\ <<>> \in Seq(Frame)
      BY <2>3, AskTyped, Pushed, NamesNotEmpty DEF SelectTablet
    <3>. QED BY <3>1, SelectPushed
  <2>. QED BY <1>3, <2>2, <2>3 DEF User, EditPages, Save, Load, SelectProfile, AddProfile, DelProfile,
          SaveProfile, selectorVars, GroupFollows
<1>4. CASE Answer \/ SwitchProfile
  <2>1. /\ stack # <<>> /\ stack' = Tail(stack) /\ Head(stack).at # "select"
        /\ UNCHANGED <<visible, group, selected, signals>>
    BY <1>4 DEF Answer, AnswerSave, AnswerDiscard, SaveProfile, SwitchProfile, At, selectorVars, profileVars
  <2>2. InStack("select") => InStack("select")'
    BY <1>0, <2>1, HasTail DEF InStack
  <2>. QED BY <2>1, <2>2 DEF GroupFollows, Told
<1>5. CASE ShowError
  BY <1>5 DEF ShowError, GroupFollows
<1>6. CASE ShowConfig
  <2>1. group' = <<selected, selected \in controlled>> /\ UNCHANGED <<selected, signals>>
    BY <1>6 DEF ShowConfig, selectorVars
  <2>2. CASE selected \in controlled
    BY <2>1, <2>2 DEF GroupFollows, GroupOf
  <2>3. CASE selected \notin controlled
    <3>1. selected \in Tablet => Told(selected)
      BY <1>0, <2>3 DEF GoneIsTold
    <3>2. group' = <<selected, FALSE>>
      <4>1. (selected \in controlled) = FALSE
        BY <2>3
      <4>. QED BY <2>1, <4>1
    <3>. QED BY <2>1, <3>1, <3>2 DEF GroupFollows, Told
  <2>. QED BY <2>2, <2>3
<1>7. CASE FollowProfile
  <2>. DEFINE p == IF selected \in controlled THEN current[selected] ELSE NoName
              pushed == IF p \in options \ {shown} THEN <<Switch(p), Switch(p)>> ELSE <<Switch(p)>>
  <2>1. p \in Names /\ stack # <<>> /\ Head(stack).at # "select"
    BY <1>0, <1>7 DEF FollowProfile, At, TypeOK
  <2>2. Tail(stack) \in Seq(Frame) /\ Grounded(Tail(stack)) /\ stack' = AskFirst(pushed) \o Tail(stack)
        /\ UNCHANGED <<visible, group, selected, signals>>
    BY <1>0, <1>7, Pop DEF FollowProfile, At, selectorVars
  <2>. HIDE DEF p
  <2>3. pushed \in Seq(Frame) /\ Grounded(pushed) /\ pushed # <<>>
    BY <2>1, Pushed
  <2>. HIDE DEF pushed
  <2>4. AskFirst(pushed) \in Seq(Frame)
    BY <2>3, AskTyped
  <2>5. InStack("select") => InStack("select")'
    <3>1. Has(stack, "select") => Has(Tail(stack), "select")
      BY <1>0, <2>1, HasTail
    <3>2. Has(Tail(stack), "select") => Has(AskFirst(pushed) \o Tail(stack), "select")
      BY <2>2, <2>4, HasConcat
    <3>. QED BY <2>2, <3>1, <3>2 DEF InStack
  <2>. QED BY <2>2, <2>5 DEF GroupFollows, Told
<1>8. CASE OnTabletAdded
  <2>1. CASE items = {}
    BY <1>0, <1>8, <2>1, SelectPushed DEF OnTabletAdded, GroupFollows
  <2>2. CASE items # {}
    <3>1. UNCHANGED <<visible, group, selected, stack>>
      BY <1>8, <2>2 DEF OnTabletAdded, profileVars
    <3>2. signals # <<>> /\ Head(signals).kind = "added"
      BY <1>8 DEF OnTabletAdded, Delivers
    <3>3. ~OnTabletRemoved
      BY <3>2 DEF OnTabletRemoved, Delivers
    <3>. QED BY <1>1, <3>1, <3>3 DEF InStack
  <2>. QED BY <2>1, <2>2
<1>9. CASE OnTabletRemoved
  <2>1. UNCHANGED <<visible, group>>
    BY <1>9 DEF OnTabletRemoved, profileVars
  <2>2. CASE stack' = AskFirst(<<Select>>) \o stack
    BY <1>0, <2>2, SelectPushed DEF GroupFollows
  <2>3. CASE stack' # AskFirst(<<Select>>) \o stack
    <3>1. stack' = stack /\ selected' = selected
      BY <1>9, <2>3 DEF OnTabletRemoved
    <3>2. Head(signals).tablet # selected \/ selected \notin items
      BY <1>9, <2>3 DEF OnTabletRemoved
    <3>3. Head(signals).tablet \in Tablet
      <4>1. signals \in Seq(Signal) /\ signals # <<>>
        BY <1>0, <1>9 DEF OnTabletRemoved, Delivers, TypeOK, Signal
      <4>2. Head(signals) \in Signal
        BY <4>1, HeadAndTail
      <4>. QED BY <4>2 DEF Signal
    <3>4. Head(signals).tablet # selected
      BY <1>0, <3>2, <3>3
    <3>. QED BY <1>1, <2>1, <3>1, <3>4 DEF InStack
  <2>. QED BY <2>2, <2>3
<1>10. CASE ServeSetProfile \/ Daemon
  <2>1. UNCHANGED <<visible, group, selected, stack>>
    BY <1>10 DEF ServeSetProfile, Daemon, SwitchElsewhere, MapPen, Plug, Unplug, kcmVars, selectorVars, profileVars
  <2>2. \A u : Told(u) => Told(u)'
    <3>1. ASSUME NEW u, Told(u) PROVE Told(u)'
      <4>1. CASE \E t \in Tablet : Plug(t) \/ Unplug(t)
        <5>1. PICK s \in Signal : signals' = Append(signals, s)
          BY <4>1 DEF Plug, Unplug, Signal
        <5>2. signals \in Seq(Signal)
          BY <1>0 DEF TypeOK, Signal
        <5>. QED BY <3>1, <5>1, <5>2, SignalSent DEF Told
      <4>2. CASE UNCHANGED signals
        BY <3>1, <4>2 DEF Told
      <4>. QED BY <1>10, <4>1, <4>2 DEF ServeSetProfile, Daemon, SwitchElsewhere, MapPen
    <3>. QED BY <3>1
  <2>. QED BY <2>1, <2>2 DEF GroupFollows, InStack
<1>. QED BY <1>2, <1>3, <1>4, <1>5, <1>6, <1>7, <1>8, <1>9, <1>10 DEF Next, EventLoop

-----------------------------------------------------------------------------
(* As long as no tablet comes or goes.                                     *)

\* The stacks of an opened widget: nothing, a selection, or switches to the profile
\* that the selector shows, below a dialog or not.
Waiting == {<<>>, <<Select>>, <<Dialog, Select>>, <<Follow>>}
Switches(p) == {<<Switch(p)>>, <<Dialog, Switch(p)>>, <<Switch(p), Switch(p)>>,
                <<Dialog, Switch(p), Switch(p)>>}

\* The selector has the tablets of the daemon; ProfileManagement has a device as
\* soon as the configuration is shown.
CalmTablets ==
    /\ signals = <<>> /\ items = controlled
    /\ selected = NoTablet => controlled = {}
    /\ visible <=> group # NoGroup
    /\ visible => controlled # {}

\* Every tablet has profiles.  It runs one of them, or will be told which to run.
CalmFile ==
    \A t \in controlled :
        /\ ProfilesOf(file, GroupOf(t)) # {}
        /\ \/ current[t] \in ProfilesOf(file, GroupOf(t))
           \/ Called(t)
           \/ t = selected /\ stack \in Switches(shown)

CalmStack ==
    /\ stack \in Waiting \/ (visible /\ stack \in Switches(shown))
    /\ stack = <<>> /\ visible => shown = name
    /\ stack = <<Follow>> => visible /\ calls = <<>> /\ ProfilesOf(file, GroupOf(selected)) = options

AllCalm == CalmTablets /\ CalmFile /\ CalmStack
Calm == hotplugs = 0 => AllCalm

LEMMA Shapes ==
    ASSUME NEW p \in Names
    PROVE  /\ \A s \in Switches(p) : s \notin Waiting /\ s # <<>> /\ s # <<Follow>>
           /\ <<Select>> # <<>> /\ <<Follow>> # <<>> /\ <<Dialog, Select>> # <<>>
           /\ <<Select>> # <<Follow>> /\ <<Dialog, Select>> # <<Follow>>
<1>1. /\ Dialog # Switch(p) /\ Select # Switch(p) /\ Follow # Switch(p)
      /\ Dialog # Select /\ Dialog # Follow /\ Select # Follow
  BY FrameTypes DEF Dialog, Select, Follow, Switch
<1>2. \A a, b : <<a>> = <<b>> => a = b
  OBVIOUS
<1>3. \A a, b, c, d : <<a, b>> = <<c, d>> => a = c /\ b = d
  OBVIOUS
<1>4. \A a, b, c, d, e, f :
          /\ <<a>> # <<>> /\ <<a, b>> # <<>> /\ <<a, b, c>> # <<>>
          /\ <<a>> # <<b, c>> /\ <<a>> # <<b, c, d>> /\ <<a, b>> # <<d, e, f>>
  <2>1. \A a, b, c : Len(<<a>>) = 1 /\ Len(<<a, b>>) = 2 /\ Len(<<a, b, c>>) = 3 /\ Len(<<>>) = 0
    OBVIOUS
  <2>. QED BY <2>1
<1>. QED BY <1>1, <1>2, <1>3, <1>4 DEF Waiting, Switches

\* What is left when the innermost slot of such a stack is done.
LEMMA Popped ==
    ASSUME NEW p \in Names, NEW s \in Waiting \cup Switches(p), s # <<>>
    PROVE  /\ Head(s).at = "select" => s = <<Select>> /\ Tail(s) = <<>>
           /\ Head(s).at = "follow" => s = <<Follow>> /\ Tail(s) = <<>>
           /\ Head(s).at = "switch" =>
                  s \in Switches(p) /\ Head(s) = Switch(p) /\ Tail(s) \in {<<>>, <<Switch(p)>>}
           /\ Head(s).at = "dialog" =>
                  \/ s = <<Dialog, Select>> /\ Tail(s) = <<Select>>
                  \/ s \in Switches(p) /\ Tail(s) \in Switches(p)
<1>1. /\ Dialog.at = "dialog" /\ Select.at = "select" /\ Follow.at = "follow"
      /\ Switch(p).at = "switch"
  BY DEF Dialog, Select, Follow, Switch
<1>2. \A a, b, c :
          /\ Head(<<a>>) = a /\ Tail(<<a>>) = <<>>
          /\ Head(<<a, b>>) = a /\ Tail(<<a, b>>) = <<b>>
          /\ Head(<<a, b, c>>) = a /\ Tail(<<a, b, c>>) = <<b, c>>
  OBVIOUS
<1>3. CASE s \in Waiting
  <2>1. CASE s = <<Select>>
    BY <1>1, <1>2, <2>1
  <2>2. CASE s = <<Dialog, Select>>
    BY <1>1, <1>2, <2>2
  <2>3. CASE s = <<Follow>>
    BY <1>1, <1>2, <2>3
  <2>. QED BY <1>3, <2>1, <2>2, <2>3 DEF Waiting
<1>4. CASE s = <<Switch(p)>>
  BY <1>1, <1>2, <1>4 DEF Switches
<1>5. CASE s = <<Dialog, Switch(p)>>
  BY <1>1, <1>2, <1>5 DEF Switches
<1>6. CASE s = <<Switch(p), Switch(p)>>
  BY <1>1, <1>2, <1>6 DEF Switches
<1>7. CASE s = <<Dialog, Switch(p), Switch(p)>>
  BY <1>1, <1>2, <1>7 DEF Switches
<1>. QED BY <1>3, <1>4, <1>5, <1>6, <1>7 DEF Switches

\* What a slot leaves on an empty stack.
LEMMA Asked ==
    ASSUME NEW p \in Names
    PROVE  /\ AskFirst(<<Switch(p)>>) \in Switches(p)
           /\ AskFirst(<<Switch(p), Switch(p)>>) \in Switches(p)
           /\ AskFirst(<<Select>>) \in {<<Select>>, <<Dialog, Select>>}
<1>1. ASSUME NEW frames \in Seq(Frame)
      PROVE  AskFirst(frames) \in {frames, <<Dialog>> \o frames}
  BY <1>1 DEF AskFirst
<1>2. ASSUME NEW a \in Frame PROVE <<a>> \in Seq(Frame) /\ <<Dialog>> \o <<a>> = <<Dialog, a>>
  <2>1. <<Dialog>> \in Seq(Frame) /\ <<a>> \in Seq(Frame) /\ <<Dialog, a>> \in Seq(Frame)
    BY FrameTypes
  <2>2. Len(<<Dialog>> \o <<a>>) = 2 /\ Len(<<Dialog, a>>) = 2
    BY <2>1
  <2>3. \A i \in 1..2 : (<<Dialog>> \o <<a>>)[i] = <<Dialog, a>>[i]
    BY <2>1
  <2>4. <<Dialog>> \o <<a>> \in Seq(Frame)
    BY <2>1
  <2>. QED BY <2>1, <2>2, <2>3, <2>4, SeqEqual
<1>3. ASSUME NEW a \in Frame PROVE <<a, a>> \in Seq(Frame) /\ <<Dialog>> \o <<a, a>> = <<Dialog, a, a>>
  <2>1. <<Dialog>> \in Seq(Frame) /\ <<a, a>> \in Seq(Frame) /\ <<Dialog, a, a>> \in Seq(Frame)
    BY FrameTypes
  <2>2. Len(<<Dialog>> \o <<a, a>>) = 3 /\ Len(<<Dialog, a, a>>) = 3
    BY <2>1
  <2>3. \A i \in 1..3 : (<<Dialog>> \o <<a, a>>)[i] = <<Dialog, a, a>>[i]
    BY <2>1
  <2>4. <<Dialog>> \o <<a, a>> \in Seq(Frame)
    BY <2>1
  <2>. QED BY <2>1, <2>2, <2>3, <2>4, SeqEqual
<1>. QED BY <1>1, <1>2, <1>3, FrameTypes DEF Switches

\* Writing a profile takes none away.
LEMMA WriteKeeps ==
    ASSUME NEW f \in Files, NEW g \in Group, NEW p \in Names, NEW c \in Content, NEW h \in Group
    PROVE  /\ ProfilesOf(f, h) \subseteq ProfilesOf([f EXCEPT ![g][p] = c], h)
           /\ p \in Profile => p \in ProfilesOf([f EXCEPT ![g][p] = c], g)
<1>1. c # NoProfile
  BY NameAssumption DEF Content
<1>2. [f EXCEPT ![g][p] = c] \in Files
  OBVIOUS
<1>3. \A q \in Profile :
          [f EXCEPT ![g][p] = c][h][q] = IF h = g /\ q = p THEN c ELSE f[h][q]
  OBVIOUS
<1>4. p \in Profile => [f EXCEPT ![g][p] = c][g][p] = c
  OBVIOUS
<1>. QED BY <1>1, <1>3, <1>4 DEF ProfilesOf

\* The selected tablet is there when the configuration is shown.
LEMMA CalmSelected ==
    ASSUME IInv, GoneIsTold, CalmTablets
    PROVE  /\ selected \in controlled \cup {NoTablet}
           /\ visible \/ controlled # {} => selected \in controlled /\ selected \in Tablet
BY DEF IInv, TypeOK, GoneIsTold, CalmTablets

\* A call that is added, and the calls there were.
LEMMA CallAdded ==
    ASSUME TypeOK, NEW p \in Names, calls' = CallSetProfile(p)
    PROVE  (\A t : Called(t) => Called(t)') /\ (\E i \in DOMAIN calls' : calls'[i].tablet = selected)
<1>1. /\ Len(calls) + 1 \in DOMAIN calls' /\ calls'[Len(calls) + 1].tablet = selected
      /\ \A i \in DOMAIN calls : i \in DOMAIN calls' /\ calls'[i] = calls[i]
  BY DEF TypeOK, CallSetProfile
<1>2. ASSUME NEW t, Called(t) PROVE Called(t)'
  <2>1. PICK i \in DOMAIN calls : calls[i].tablet = t
    BY ONLY <1>2 DEF Called
  <2>2. i \in DOMAIN calls' /\ calls'[i].tablet = t
    BY ONLY <1>1, <2>1
  <2>. QED BY ONLY <2>2 DEF Called
<1>3. \E i \in DOMAIN calls' : calls'[i].tablet = selected
  BY ONLY <1>1
<1>. QED BY ONLY <1>2, <1>3 DEF Called

\* saveProfile: the profiles are those there were, and maybe one more.
LEMMA CalmSave ==
    ASSUME IInv, SaveProfile
    PROVE  /\ \A h \in Group : ProfilesOf(file, h) \subseteq ProfilesOf(file', h)
           /\ \A t : Called(t) => Called(t)'
<1>1. TypeOK /\ file \in Files /\ form \in Content /\ name \in Names
  BY DEF IInv, TypeOK
<1>2. file' = file \/ (group \in Group /\ file' = [file EXCEPT ![group][name] = form])
  BY <1>1 DEF SaveProfile, TypeOK
<1>3. \A h \in Group : ProfilesOf(file, h) \subseteq ProfilesOf(file', h)
  <2>1. CASE file' = file
    BY <2>1
  <2>2. CASE group \in Group /\ file' = [file EXCEPT ![group][name] = form]
    BY <1>1, <2>2, WriteKeeps
  <2>. QED BY <1>2, <2>1, <2>2
<1>. QED BY <1>1, <1>3, CallAdded DEF SaveProfile

\* The user acts on an idle widget, and what is pushed switches or selects.
LEMMA CalmUser ==
    ASSUME IInv, GoneIsTold, GroupFollows, AllCalm, User
    PROVE  AllCalm'
<1>0. /\ TypeOK /\ file \in Files /\ stack = <<>> /\ name \in Names /\ group \in Group \cup {NoGroup}
      /\ CalmTablets /\ CalmFile /\ CalmStack /\ controlled \subseteq Tablet
  BY DEF IInv, TypeOK, AllCalm, User, EditPages, Save, Load, SelectProfile, AddProfile, DelProfile, SelectTablet,
     UserActs
<1>1. UNCHANGED <<controlled, current, signals, items, visible, group>>
  BY DEF User, EditPages, Save, SaveProfile, Load, SelectProfile, AddProfile, DelProfile, SelectTablet, daemonVars,
     selectorVars, profileVars
<1>2. <<>> \notin Switches(shown) /\ \A t \in controlled :
          /\ ProfilesOf(file, GroupOf(t)) # {}
          /\ current[t] \in ProfilesOf(file, GroupOf(t)) \/ Called(t)
  BY <1>0, Shapes DEF CalmFile, TypeOK
<1>3. \A t \in controlled : GroupOf(t) \in Group
  BY <1>0, GroupTyped
<1>4. visible => selected \in controlled /\ group = GroupOf(selected)
  <2>1. ~InStack("select") /\ \A u : ~Told(u)
    BY <1>0 DEF InStack, Has, CalmTablets, Told
  <2>. QED BY <1>0, <2>1, CalmSelected DEF GroupFollows
\* What has to be shown of a step that keeps or adds profiles and calls.
<1>a. ASSUME \A t \in controlled : ProfilesOf(file, GroupOf(t)) \subseteq ProfilesOf(file', GroupOf(t)),
             \A t : Called(t) => Called(t)'
      PROVE  CalmFile'
  BY <1>1, <1>2, <1>a DEF CalmFile
<1>b. ASSUME UNCHANGED <<selected>> PROVE CalmTablets'
  BY <1>0, <1>1, <1>b DEF CalmTablets
<1>5. ASSUME NEW e \in Edit, EditPages(e) PROVE AllCalm'
  <2>1. UNCHANGED <<file, calls, selected, options, shown, name, stack>>
    BY <1>5 DEF EditPages, selectorVars, profileVars
  <2>2. CalmFile' /\ CalmTablets' /\ CalmStack'
    BY <1>0, <1>1, <2>1 DEF CalmFile, CalmTablets, CalmStack, Called
  <2>. QED BY <2>2 DEF AllCalm
<1>6. ASSUME Save PROVE AllCalm'
  <2>1. UNCHANGED <<selected, options, shown, name, stack>> /\ SaveProfile
    BY <1>6 DEF Save, SaveProfile, selectorVars, profileVars
  <2>2. CalmFile'
    BY <1>3, <1>a, <2>1, CalmSave
  <2>3. CalmStack'
    BY <1>0, <1>1, <2>1, Shapes DEF CalmStack, TypeOK
  <2>. QED BY <1>b, <2>1, <2>2, <2>3 DEF AllCalm
<1>7. ASSUME Load PROVE AllCalm'
  <2>1. UNCHANGED <<file, calls, selected, options, shown, name, stack>>
    BY <1>7 DEF Load, selectorVars, profileVars
  <2>2. CalmFile' /\ CalmTablets' /\ CalmStack'
    BY <1>0, <1>1, <2>1 DEF CalmFile, CalmTablets, CalmStack, Called
  <2>. QED BY <2>2 DEF AllCalm
<1>8. ASSUME NEW p \in Profile, SelectProfile(p) PROVE AllCalm'
  <2>1. /\ UNCHANGED <<file, calls, selected>> /\ shown' = p /\ visible
        /\ stack' = AskFirst(<<Switch(p)>>)
    BY <1>8 DEF SelectProfile, selectorVars
  <2>2. stack' \in Switches(shown') /\ shown' \in Names
    BY <2>1, Asked
  <2>3. CalmFile'
    BY <1>a, <2>1 DEF Called
  <2>4. CalmStack'
    BY <1>1, <2>1, <2>2, Shapes DEF CalmStack
  <2>. QED BY <1>b, <2>1, <2>3, <2>4 DEF AllCalm
<1>9. ASSUME NEW p \in Profile, AddProfile(p) PROVE AllCalm'
  <2>1. /\ UNCHANGED <<calls, selected>> /\ stack' = AskFirst(<<Switch(p)>>)
        /\ group # NoGroup /\ file' = [file EXCEPT ![group][p] = Standard]
    BY <1>9 DEF AddProfile, selectorVars
  <2>2. shown' = p
    BY <1>9, NameAssumption DEF AddProfile, RefreshProfileSelector
  <2>3. stack' \in Switches(shown') /\ shown' \in Names /\ visible
    BY <1>0, <2>1, <2>2, Asked DEF CalmTablets
  <2>4. CalmFile'
    <3>1. Standard \in Content /\ group \in Group /\ p \in Names
      BY <1>0, <2>1 DEF Content
    <3>2. \A t \in controlled : ProfilesOf(file, GroupOf(t)) \subseteq ProfilesOf(file', GroupOf(t))
      BY <1>0, <1>3, <2>1, <3>1, WriteKeeps
    <3>. QED BY <1>a, <2>1, <3>2 DEF Called
  <2>5. CalmStack'
    BY <1>1, <2>3, Shapes DEF CalmStack
  <2>. QED BY <1>b, <2>1, <2>4, <2>5 DEF AllCalm
<1>10. ASSUME DelProfile PROVE AllCalm'
  <2>. DEFINE left == IF name = NoName THEN file ELSE [file EXCEPT ![group][name] = NoProfile]
              none == ProfilesOf(left, group) = {}
  <2>1. /\ UNCHANGED <<calls, selected>> /\ stack' = AskFirst(<<Switch(shown')>>) /\ visible
        /\ group \in Group
        /\ none => file' = [left EXCEPT ![group][Default] = Standard]
        /\ ~none => file' = left
    BY <1>0, <1>10 DEF DelProfile, selectorVars
  <2>2. shown' \in Profile
    BY <1>10, SelectorTyped DEF DelProfile
  <2>3. stack' \in Switches(shown') /\ shown' \in Names
    BY <2>1, <2>2, Asked
  <2>4. left \in Files /\ Standard \in Content /\ Default \in Profile
    <3>1. name # NoName => name \in Profile
      BY <1>0
    <3>2. ASSUME name \in Profile PROVE [file EXCEPT ![group][name] = NoProfile] \in Files
      BY <1>0, <2>1, <3>2
    <3>. QED BY <1>0, <3>1, <3>2, NameAssumption DEF Content
  <2>5. \A h \in Group : h # group => left[h] = file[h]
    BY <1>0, <2>1
  <2>. HIDE DEF left
  <2>6. \A h \in Group : h # group => file'[h] = file[h]
    <3>1. CASE none
      <4>1. file' = [left EXCEPT ![group][Default] = Standard]
        BY <2>1, <3>1
      <4>. QED BY <2>1, <2>4, <2>5, <4>1
    <3>2. CASE ~none
      BY <2>1, <2>5, <3>2
    <3>. QED BY <3>1, <3>2
  <2>7. ProfilesOf(file', group) # {}
    <3>1. CASE none
      <4>1. file' = [left EXCEPT ![group][Default] = Standard] /\ Default \in Names
        BY <2>1, <2>4, <3>1
      <4>2. Default \in ProfilesOf([left EXCEPT ![group][Default] = Standard], group)
        BY <2>1, <2>4, <4>1, WriteKeeps
      <4>. QED BY <4>1, <4>2
    <3>2. CASE ~none
      BY <2>1, <3>2
    <3>. QED BY <3>1, <3>2
  <2>8. ASSUME NEW t \in controlled
        PROVE  /\ ProfilesOf(file', GroupOf(t)) # {}
               /\ current[t] \in ProfilesOf(file', GroupOf(t)) \/ Called(t) \/ t = selected
    <3>1. CASE t = selected
      BY <1>4, <2>1, <2>7, <3>1
    <3>2. CASE t # selected
      <4>1. GroupOf(t) # group /\ GroupOf(t) \in Group
        BY <1>0, <1>3, <1>4, <2>1, <3>2, GroupsDiffer
      <4>2. ProfilesOf(file', GroupOf(t)) = ProfilesOf(file, GroupOf(t))
        BY <2>6, <4>1 DEF ProfilesOf
      <4>. QED BY <1>2, <4>2
    <3>. QED BY <3>1, <3>2
  <2>9. CalmFile'
    BY <1>1, <2>1, <2>3, <2>8 DEF CalmFile, Called
  <2>10. CalmStack'
    BY <1>1, <2>1, <2>3, Shapes DEF CalmStack
  <2>. QED BY <1>b, <2>1, <2>9, <2>10 DEF AllCalm
<1>11. ASSUME NEW t \in Tablet, SelectTablet(t) PROVE AllCalm'
  <2>1. /\ UNCHANGED <<file, calls, options, shown, name>> /\ selected' = t
        /\ stack' = AskFirst(<<Select>>)
    BY <1>11 DEF SelectTablet, profileVars
  <2>2. stack' \in {<<Select>>, <<Dialog, Select>>}
    BY <2>1, Asked, NamesNotEmpty
  <2>3. CalmFile'
    BY <1>a, <2>1 DEF Called
  <2>4. CalmStack'
    BY <2>2, Shapes, NamesNotEmpty DEF CalmStack, Waiting
  <2>5. CalmTablets'
    BY <1>0, <1>1, <2>1, NameAssumption DEF CalmTablets
  <2>. QED BY <2>3, <2>4, <2>5 DEF AllCalm
<1>. QED BY <1>5, <1>6, <1>7, <1>8, <1>9, <1>10, <1>11 DEF User

LEMMA CalmAnswer ==
    ASSUME IInv, AllCalm, Answer
    PROVE  AllCalm'
<1>0. /\ TypeOK /\ CalmTablets /\ CalmFile /\ CalmStack /\ controlled \subseteq Tablet
      /\ stack # <<>> /\ Head(stack).at = "dialog" /\ stack' = Tail(stack) /\ shown \in Names
  BY DEF IInv, TypeOK, AllCalm, Answer, AnswerSave, AnswerDiscard, At
<1>1. UNCHANGED <<controlled, current, signals, items, selected, visible, group, options, shown, name>>
  BY DEF Answer, AnswerSave, AnswerDiscard, SaveProfile, daemonVars, selectorVars, profileVars
<1>2. stack \in Waiting \cup Switches(shown)
  BY <1>0 DEF CalmStack
<1>3. \/ stack = <<Dialog, Select>> /\ stack' = <<Select>>
      \/ stack \in Switches(shown) /\ stack' \in Switches(shown)
  BY <1>0, <1>2, Popped
<1>4. stack \in Switches(shown) => stack' \in Switches(shown)
  BY <1>0, <1>3, Shapes DEF Waiting
<1>5. CalmStack'
  BY <1>0, <1>1, <1>3, Shapes DEF CalmStack, Waiting
<1>6. /\ \A h \in Group : ProfilesOf(file, h) \subseteq ProfilesOf(file', h)
      /\ \A t : Called(t) => Called(t)'
  BY CalmSave DEF Answer, AnswerSave, AnswerDiscard, Called
<1>7. \A t \in controlled : GroupOf(t) \in Group
  BY <1>0, GroupTyped
<1>8. CalmFile'
  BY <1>0, <1>1, <1>4, <1>6, <1>7 DEF CalmFile
<1>. QED BY <1>0, <1>1, <1>5, <1>8 DEF AllCalm, CalmTablets

LEMMA CalmEventLoop ==
    ASSUME IInv, GoneIsTold, GroupFollows, AllCalm, EventLoop
    PROVE  AllCalm'
<1>0. /\ TypeOK /\ CalmTablets /\ CalmFile /\ CalmStack /\ controlled \subseteq Tablet
      /\ shown \in Names /\ stack \in Waiting \cup Switches(shown)
      /\ \A t \in controlled : current[t] \in Names
  BY DEF IInv, TypeOK, AllCalm, CalmStack
<1>1. UNCHANGED <<controlled, current>>
  BY DEF EventLoop, SwitchProfile, OnTabletAdded, OnTabletRemoved, ShowError, ShowConfig, FollowProfile, daemonVars
<1>2. CASE SwitchProfile
  <2>1. /\ stack # <<>> /\ Head(stack).at = "switch" /\ stack' = Tail(stack)
        /\ UNCHANGED <<file, signals, items, selected, options, shown, visible, group>>
        /\ name' = Head(stack).profile /\ calls' = CallSetProfile(Head(stack).profile)
    BY <1>2 DEF SwitchProfile, At, selectorVars
  <2>2. /\ stack \in Switches(shown) /\ Head(stack) = Switch(shown)
        /\ stack' \in {<<>>, <<Switch(shown)>>}
    BY <1>0, <2>1, Popped
  <2>3. visible /\ name' = shown'
    <3>1. Switch(shown).profile = shown
      BY DEF Switch
    <3>. QED BY <1>0, <2>1, <2>2, <3>1, Shapes DEF CalmStack
  <2>4. stack' # <<Follow>> /\ (stack' \in Waiting \/ stack' \in Switches(shown'))
    BY <1>0, <2>1, <2>2, Shapes DEF Waiting, Switches
  <2>5. CalmStack'
    BY <2>1, <2>3, <2>4 DEF CalmStack
  <2>6. (\A t : Called(t) => Called(t)') /\ Called(selected)'
    <3>1. Head(stack).profile \in Names
      BY <1>0, <2>2 DEF Switch
    <3>. QED BY <1>0, <2>1, <3>1, CallAdded DEF Called
  <2>7. CalmFile'
    <3>1. ASSUME NEW t \in controlled
          PROVE  /\ ProfilesOf(file', GroupOf(t)) # {}
                 /\ current'[t] \in ProfilesOf(file', GroupOf(t)) \/ Called(t)'
      <4>1. CASE t = selected
        <5>1. Called(t)'
          BY <2>1, <2>6, <4>1 DEF Called
        <5>. QED BY <1>0, <2>1, <5>1 DEF CalmFile
      <4>2. CASE t # selected
        BY <1>0, <1>1, <2>1, <2>6, <4>2 DEF CalmFile
      <4>. QED BY <4>1, <4>2
    <3>. QED BY <1>1, <3>1 DEF CalmFile
  <2>. QED BY <1>0, <1>1, <2>1, <2>5, <2>7 DEF AllCalm, CalmTablets
<1>3. CASE OnTabletAdded \/ OnTabletRemoved
  BY <1>0, <1>3 DEF OnTabletAdded, OnTabletRemoved, Delivers, CalmTablets
<1>4. CASE ShowError
  <2>1. /\ stack # <<>> /\ Head(stack).at = "select" /\ stack' = Tail(stack) /\ controlled = {} /\ visible' = FALSE
        /\ UNCHANGED <<file, calls, signals, items, selected, options, shown, group, name>>
    BY <1>4 DEF ShowError, At, selectorVars
  <2>2. stack' = <<>>
    BY <1>0, <2>1, Popped
  <2>3. CalmStack'
    BY <2>1, <2>2, Shapes, NamesNotEmpty DEF CalmStack, Waiting
  <2>4. CalmFile' /\ CalmTablets'
    BY <1>0, <1>1, <2>1 DEF CalmFile, CalmTablets
  <2>. QED BY <2>3, <2>4 DEF AllCalm
<1>5. CASE ShowConfig
  <2>. DEFINE g == <<selected, selected \in controlled>>
  <2>1. /\ stack # <<>> /\ Head(stack).at = "select" /\ stack' = <<Follow>> \o Tail(stack)
        /\ controlled # {} /\ calls = <<>> /\ visible' = TRUE /\ group' = g
        /\ UNCHANGED <<signals, items, selected>>
    BY <1>5 DEF ShowConfig, At, selectorVars
  <2>2. stack = <<Select>> /\ Tail(stack) = <<>>
    BY <1>0, <2>1, Popped
  <2>3. selected \in controlled /\ selected \in Tablet
    BY <1>0, <2>1, CalmSelected
  <2>4. g = GroupOf(selected)
    <3>1. (selected \in controlled) = TRUE
      BY <2>3
    <3>. QED BY <3>1 DEF GroupOf
  <2>5. ProfilesOf(file, g) # {}
    BY <1>0, <2>3, <2>4 DEF CalmFile
  <2>6. UNCHANGED <<file, name, calls>> /\ options' = ProfilesOf(file', g)
    BY <1>5, <2>5 DEF ShowConfig, RefreshProfileSelector
  <2>7. group' # NoGroup
    BY <2>1, <2>3, <2>4, GroupTyped, GroupAssumption
  <2>8. stack' = <<Follow>>
    <3>1. <<Follow>> \in Seq(Frame)
      BY FrameTypes
    <3>. QED BY <2>1, <2>2, <3>1
  <2>9. stack \notin Switches(shown)
    BY <1>0, <2>2, Shapes DEF Waiting
  <2>10. CalmStack'
    BY <2>1, <2>4, <2>6, <2>8, Shapes, NamesNotEmpty DEF CalmStack, Waiting
  <2>11. CalmFile'
    BY <1>0, <1>1, <2>1, <2>6, <2>9 DEF CalmFile, Called
  <2>12. CalmTablets'
    BY <1>0, <1>1, <2>1, <2>7 DEF CalmTablets
  <2>. QED BY <2>10, <2>11, <2>12 DEF AllCalm
<1>6. CASE FollowProfile
  <2>. DEFINE p == IF selected \in controlled THEN current[selected] ELSE NoName
              moves == p \in options \ {shown}
  <2>1. /\ stack # <<>> /\ Head(stack).at = "follow" /\ calls = <<>>
        /\ shown' = IF moves THEN p ELSE shown
        /\ stack' = AskFirst(IF moves THEN <<Switch(p), Switch(p)>> ELSE <<Switch(p)>>) \o Tail(stack)
        /\ UNCHANGED <<file, calls, signals, items, selected, options, visible, group, name>>
    BY <1>6 DEF FollowProfile, At, selectorVars
  <2>2. stack = <<Follow>> /\ Tail(stack) = <<>>
    BY <1>0, <2>1, Popped
  <2>3. visible /\ ProfilesOf(file, GroupOf(selected)) = options
    BY <1>0, <2>2 DEF CalmStack
  <2>4. selected \in controlled /\ p = current[selected] /\ p \in Names
    BY <1>0, <2>3, CalmSelected
  <2>5. stack \notin Switches(shown) /\ ~Called(selected)
    BY <1>0, <2>1, <2>2, Shapes DEF Waiting, Called
  <2>6. p \in options
    BY <1>0, <2>3, <2>4, <2>5 DEF CalmFile
  <2>. HIDE DEF p
  <2>7. shown' = p
    BY <2>1, <2>6
  <2>8. stack' \in Switches(p)
    <3>1. ASSUME NEW s \in Seq(Frame) PROVE s \o <<>> = s
      OBVIOUS
    <3>2. <<Switch(p)>> \in Seq(Frame) /\ <<Switch(p), Switch(p)>> \in Seq(Frame)
          /\ AskFirst(<<Switch(p)>>) \in Seq(Frame) /\ AskFirst(<<Switch(p), Switch(p)>>) \in Seq(Frame)
      BY <2>4, Pushed, AskTyped
    <3>3. CASE moves
      <4>1. stack' = AskFirst(<<Switch(p), Switch(p)>>) \o <<>>
        BY <2>1, <2>2, <3>3
      <4>. QED BY <2>4, <3>1, <3>2, <4>1, Asked
    <3>4. CASE ~moves
      <4>1. stack' = AskFirst(<<Switch(p)>>) \o <<>>
        BY <2>1, <2>2, <3>4
      <4>. QED BY <2>4, <3>1, <3>2, <4>1, Asked
    <3>. QED BY <3>3, <3>4
  <2>9. CalmStack'
    BY <2>1, <2>3, <2>4, <2>7, <2>8, Shapes DEF CalmStack
  <2>10. CalmFile'
    BY <1>0, <1>1, <2>1, <2>5 DEF CalmFile, Called
  <2>. QED BY <1>0, <1>1, <2>1, <2>9, <2>10 DEF AllCalm, CalmTablets
<1>. QED BY <1>2, <1>3, <1>4, <1>5, <1>6 DEF EventLoop

\* A tablet with profiles gets one of them, and the file stays as it is.
LEMMA CalmSetProfile ==
    ASSUME IInv, CalmFile, NEW t \in controlled, NEW p \in Names, SetProfile(t, p)
    PROVE  /\ file' = file
           /\ current'[t] \in ProfilesOf(file, GroupOf(t))
           /\ \A u \in controlled : u # t => current'[u] = current[u]
<1>1. DaemonTypes /\ t \in Tablet /\ controlled \subseteq Tablet /\ ProfilesOf(file, GroupOf(t)) # {}
  BY DaemonTypesOfTypeOK DEF IInv, TypeOK, CalmFile
<1>2. PICK q \in Profile :
          /\ current' = [current EXCEPT ![t] = q]
          /\ q \in ProfilesOf(file, GroupOf(t)) /\ file' = file
  BY <1>1, SetProfileCases
<1>. QED BY <1>1, <1>2 DEF DaemonTypes

LEMMA CalmServe ==
    ASSUME IInv, AllCalm, ServeSetProfile
    PROVE  AllCalm'
<1>. DEFINE t == Head(calls).tablet
            p == Head(calls).profile
<1>0. /\ TypeOK /\ CalmTablets /\ CalmFile /\ CalmStack
      /\ calls # <<>> /\ calls \in Seq([tablet : Tablet \cup {NoTablet}, profile : Names])
  BY DEF IInv, TypeOK, AllCalm, ServeSetProfile
<1>1. /\ calls' = Tail(calls)
      /\ UNCHANGED <<controlled, signals, items, selected, visible, group, options, shown, name, stack>>
      /\ t \in controlled => SetProfile(t, p)
      /\ t \notin controlled => UNCHANGED <<file, current>>
  BY DEF ServeSetProfile, kcmVars, selectorVars, profileVars
<1>2. p \in Names
  <2>1. Head(calls) \in [tablet : Tablet \cup {NoTablet}, profile : Names]
    BY <1>0, HeadAndTail
  <2>. QED BY <2>1
<1>3. ASSUME NEW u, Called(u), u # t PROVE Called(u)'
  <2>1. \A i \in DOMAIN calls : i = 1 \/ (i - 1 \in DOMAIN calls' /\ calls'[i - 1] = calls[i])
    BY <1>0, <1>1
  <2>2. Head(calls) = calls[1]
    BY <1>0
  <2>. QED BY <1>3, <2>1, <2>2 DEF Called
<1>. HIDE DEF t, p
<1>4. file' = file
  BY <1>0, <1>1, <1>2, CalmSetProfile
<1>5. \A u \in controlled : u # t => current'[u] = current[u]
  BY <1>0, <1>1, <1>2, CalmSetProfile
<1>6. t \in controlled => current'[t] \in ProfilesOf(file, GroupOf(t))
  BY <1>0, <1>1, <1>2, CalmSetProfile
<1>7. CalmFile'
  <2>1. ASSUME NEW u \in controlled
        PROVE  /\ ProfilesOf(file', GroupOf(u)) # {}
               /\ \/ current'[u] \in ProfilesOf(file', GroupOf(u))
                  \/ Called(u)'
                  \/ u = selected' /\ stack' \in Switches(shown')
    <3>1. CASE u = t
      BY <1>0, <1>4, <1>6, <3>1 DEF CalmFile
    <3>2. CASE u # t
      BY <1>0, <1>1, <1>3, <1>4, <1>5, <3>2 DEF CalmFile
    <3>. QED BY <3>1, <3>2
  <2>. QED BY <1>1, <2>1 DEF CalmFile
<1>8. CalmStack'
  BY <1>0, <1>1 DEF CalmStack
<1>. QED BY <1>0, <1>1, <1>7, <1>8 DEF AllCalm, CalmTablets

LEMMA CalmDaemon ==
    ASSUME IInv, GoneIsTold, AllCalm, Daemon, hotplugs' = 0
    PROVE  AllCalm'
<1>0. /\ TypeOK /\ CalmTablets /\ CalmFile /\ CalmStack /\ file \in Files /\ cache \in Files
      /\ controlled \subseteq Tablet /\ hotplugs \in Nat /\ \A u \in controlled : GroupOf(u) \in Group
      /\ current \in [Tablet -> Names]
  BY GroupTyped DEF IInv, TypeOK, AllCalm
<1>1. \A t \in Tablet : ~Plug(t) /\ ~Unplug(t)
  BY <1>0 DEF Plug, Unplug
<1>2. UNCHANGED <<controlled, signals, items, selected, visible, group, options, shown, name, stack, calls>>
  BY <1>1 DEF Daemon, SwitchElsewhere, MapPen, kcmVars, selectorVars, profileVars
<1>3. ASSUME NEW t \in Tablet, NEW p \in Profile, SwitchElsewhere(t, p) PROVE AllCalm'
  <2>1. t \in controlled /\ p \in Names /\ SetProfile(t, p)
    BY <1>3 DEF SwitchElsewhere
  <2>2. /\ file' = file /\ current'[t] \in ProfilesOf(file, GroupOf(t))
        /\ \A u \in controlled : u # t => current'[u] = current[u]
    BY <1>0, <2>1, CalmSetProfile
  <2>3. CalmFile'
    <3>1. ASSUME NEW u \in controlled
          PROVE  /\ ProfilesOf(file', GroupOf(u)) # {}
                 /\ \/ current'[u] \in ProfilesOf(file', GroupOf(u))
                    \/ Called(u)
                    \/ u = selected /\ stack \in Switches(shown)
      BY <1>0, <2>2, <3>1 DEF CalmFile
    <3>. QED BY <1>2, <3>1 DEF CalmFile, Called
  <2>. QED BY <1>0, <1>2, <2>2, <2>3 DEF AllCalm, CalmTablets, CalmStack
<1>4. ASSUME NEW t \in Tablet, MapPen(t) PROVE AllCalm'
  <2>. DEFINE g == GroupOf(t)
              p == current[t]
  <2>1. t \in controlled /\ g \in Group /\ p \in Names /\ current' = current
    BY <1>0, <1>4 DEF MapPen
  <2>2. PICK c \in Content : file' = [file EXCEPT ![g][p] = c]
    <3>1. LoadProfile(file, g, p) \in Content
      BY <1>0, <2>1, LoadTyped
    <3>2. p \in ProfilesOf(cache, g) => cache[g][p] \in Content
      BY <1>0, <2>1 DEF ProfilesOf
    <3>. QED BY <1>4, <3>1, <3>2 DEF MapPen
  <2>. HIDE DEF g, p
  <2>3. /\ \A h \in Group : ProfilesOf(file, h) \subseteq ProfilesOf(file', h)
        /\ p \in ProfilesOf(file, g) => \A h \in Group : ProfilesOf(file', h) = ProfilesOf(file, h)
    <3>1. \A h \in Group : ProfilesOf(file, h) \subseteq ProfilesOf(file', h)
      BY <1>0, <2>1, <2>2, WriteKeeps
    <3>2. ASSUME p \in ProfilesOf(file, g), NEW h \in Group PROVE ProfilesOf(file', h) = ProfilesOf(file, h)
      <4>1. c # NoProfile /\ p \in Profile /\ file[g][p] # NoProfile
        BY <3>2, NameAssumption DEF Content, ProfilesOf
      <4>2. \A q \in Profile : file'[h][q] = IF h = g /\ q = p THEN c ELSE file[h][q]
        BY <1>0, <2>1, <2>2
      <4>3. \A q \in Profile : file'[h][q] # NoProfile <=> file[h][q] # NoProfile
        BY <4>1, <4>2
      <4>. QED BY <4>3 DEF ProfilesOf
    <3>. QED BY <3>1, <3>2
  <2>4. CalmFile'
    BY <1>0, <1>2, <2>1, <2>3 DEF CalmFile, Called
  <2>5. ASSUME stack = <<Follow>> PROVE ProfilesOf(file', GroupOf(selected)) = options
    <3>1. visible /\ calls = <<>> /\ ProfilesOf(file, GroupOf(selected)) = options
      BY <1>0, <2>5 DEF CalmStack
    <3>2. selected \in controlled
      BY <1>0, <3>1, CalmSelected
    <3>3. shown \in Names /\ <<Follow>> \in Waiting
      BY <1>0 DEF TypeOK, Waiting
    <3>4. stack \notin Switches(shown) /\ ~Called(t)
      BY <2>5, <3>1, <3>3, Shapes DEF Called
    <3>5. p \in ProfilesOf(file, g)
      BY <1>0, <2>1, <3>4 DEF CalmFile, p, g
    <3>. QED BY <1>0, <2>3, <3>1, <3>2, <3>5
  <2>6. CalmStack'
    BY <1>0, <1>2, <2>5 DEF CalmStack
  <2>. QED BY <1>0, <1>2, <2>4, <2>6 DEF AllCalm, CalmTablets
<1>. QED BY <1>1, <1>3, <1>4 DEF Daemon

LEMMA CalmStep ==
    ASSUME IInv, GoneIsTold, GroupFollows, Calm, [Next]_vars
    PROVE  Calm'
<1>. SUFFICES ASSUME hotplugs' = 0 PROVE AllCalm'
  BY DEF Calm
<1>1. hotplugs = 0
  <2>1. User \/ Answer => hotplugs' = hotplugs
    BY DEF User, EditPages, Save, SaveProfile, Load, SelectProfile, AddProfile, DelProfile, SelectTablet,
       Answer, AnswerSave, AnswerDiscard
  <2>2. EventLoop \/ ServeSetProfile => hotplugs' = hotplugs
    BY DEF EventLoop, SwitchProfile, OnTabletAdded, OnTabletRemoved, ShowError, ShowConfig, FollowProfile,
       ServeSetProfile
  <2>3. Daemon => hotplugs' \in {hotplugs, hotplugs + 1}
    BY DEF Daemon, SwitchElsewhere, MapPen, Plug, Unplug
  <2>4. hotplugs \in Nat
    BY DEF IInv, TypeOK
  <2>5. CASE UNCHANGED vars
    BY <2>5 DEF vars
  <2>. QED BY <2>1, <2>2, <2>3, <2>4, <2>5 DEF Next
<1>2. AllCalm
  BY <1>1 DEF Calm
<1>3. CASE UNCHANGED vars
  BY <1>2, <1>3 DEF AllCalm, CalmTablets, CalmFile, CalmStack, Called, vars, daemonVars, kcmVars, selectorVars,
     profileVars
<1>. QED BY <1>2, <1>3, CalmUser, CalmAnswer, CalmEventLoop, CalmServe, CalmDaemon DEF Next

-----------------------------------------------------------------------------
(* What holds of the daemon and the selectors.                             *)

Follows == IInv /\ DaemonFollows /\ GoneIsTold /\ GroupFollows /\ Calm

LEMMA InitFollows == Init => Follows
<1>. SUFFICES ASSUME Init PROVE Follows
  OBVIOUS
<1>1. /\ stack = <<Select>> /\ visible = FALSE /\ signals = <<>> /\ calls = <<>> /\ items = controlled
      /\ group = NoGroup
  BY DEF Init
<1>2. IInv /\ IF items = {} THEN selected = NoTablet ELSE selected \in items
  BY InitEstablishes DEF Init
<1>3. <<Select>> # <<>> /\ <<Select>> # <<Follow>> /\ <<Select>> \in Waiting
  BY Shapes, NamesNotEmpty DEF Waiting
<1>4. DaemonFollows /\ GroupFollows
  BY <1>1 DEF DaemonFollows, GroupFollows
<1>5. GoneIsTold
  BY <1>1, <1>2 DEF GoneIsTold
<1>6. CalmStack
  BY <1>1, <1>3 DEF CalmStack
<1>7. CalmTablets
  BY <1>1, <1>2, NameAssumption DEF CalmTablets, IInv, TypeOK
<1>8. CalmFile
  <2>1. ASSUME NEW t \in controlled PROVE current[t] \in ProfilesOf(file, GroupOf(t))
    <3>1. t \in Tablet /\ current[t] # NoName /\ current[t] \in Profile /\ GroupOf(t) \in Group
      BY GroupTyped DEF Init
    <3>2. file[GroupOf(t)][current[t]] = Standard
      BY <3>1 DEF Init
    <3>. QED BY <3>1, <3>2, NameAssumption DEF ProfilesOf
  <2>. QED BY <2>1 DEF CalmFile
<1>. QED BY <1>2, <1>4, <1>5, <1>6, <1>7, <1>8 DEF Follows, Calm, AllCalm

LEMMA StepFollows == Follows /\ [Next]_vars => Follows'
BY StepPreserves, DaemonFollowsStep, GoneIsToldStep, GroupFollowsStep, CalmStep DEF Follows

\* Slots under way end with the daemon told and the module following the tablet that
\* is selected.
THEOREM FollowsHolds == Spec => []Follows
BY InitFollows, StepFollows, PTL DEF Spec

\* Once nothing is under way the selected tablet runs what the file says and the
\* daemon's cache has it, for any tablets, profiles and contents, however slots,
\* calls, shortcuts and tablets that come and go were interleaved.
THEOREM DaemonHasTheFile == Spec => []DaemonIsCurrent
<1>1. Follows => DaemonIsCurrent
  <2>. SUFFICES ASSUME Follows, Settled PROVE DaemonIsCurrent
    BY DEF DaemonIsCurrent, SelectedRunsFile, CacheIsFresh
  <2>1. stack = <<>> /\ visible /\ calls = <<>> /\ selected \in controlled
    BY DEF Settled, Idle
  <2>2. ~Called(selected)
    BY <2>1 DEF Called
  <2>3. RunsFile(selected)
    BY <2>1, <2>2 DEF Follows, DaemonFollows
  <2>4. <<maker, Default>> # <<GroupOf(selected), current[selected]>> =>
            applied[selected] = file[GroupOf(selected)][current[selected]]
    BY <2>3 DEF RunsFile
  <2>. QED BY <2>3, <2>4 DEF DaemonIsCurrent, SelectedRunsFile, CacheIsFresh, RunsFile
<1>. QED BY <1>1, FollowsHolds, PTL

\* Once nothing is under way the profiles shown are those of the selected tablet, and,
\* as long as no tablet came or went, the profile shown is the one that is edited.
THEOREM SelectorsFollow == Spec => []SelectorsAgree
<1>1. Follows => GroupIsSelected
  <2>. SUFFICES ASSUME Follows, Settled PROVE group = GroupOf(selected)
    BY DEF GroupIsSelected
  <2>1. /\ stack = <<>> /\ visible /\ signals = <<>> /\ selected \in controlled
        /\ GroupFollows /\ controlled \subseteq Tablet
    BY DEF Settled, Idle, Follows, IInv, TypeOK
  <2>2. ~InStack("select") /\ ~Told(selected)
    BY <2>1 DEF InStack, Has, Told
  <2>. QED BY <2>1, <2>2 DEF GroupFollows
<1>2. Follows => SelectorIsProfile
  BY DEF Follows, SelectorIsProfile, Settled, Idle, Calm, AllCalm, CalmStack
<1>. QED BY <1>1, <1>2, FollowsHolds, PTL DEF SelectorsAgree
=============================================================================
