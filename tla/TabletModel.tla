----------------------------- MODULE TabletModel -----------------------------
(***************************************************************************)
(* The applet's TabletModel: a list of the tablets the daemon offers, kept *)
(* up to date over D-Bus without ever blocking.                            *)
(*                                                                         *)
(*   TabletModel --calls (answered in order)--> D-Bus --> the daemon       *)
(*   TabletModel <--inbox (replies, errors, signals, owner changes)--      *)
(*                                                                         *)
(* The bus delivers in order, in both directions; what can be late is the  *)
(* whole conversation.  The daemon may go and come back, a tablet may be   *)
(* unplugged and plugged in again under the same id, while replies to      *)
(* older questions are under way.  The model tells them apart by counting  *)
(* the lifetimes of the service (m_generation) and of each tablet          *)
(* (m_tabletEpochs).                                                       *)
(*                                                                         *)
(* The daemon is here what a client sees of it: DBusTabletService, whose   *)
(* lists TabletHotplug shows to be those of the TabletHandler.             *)
(***************************************************************************)
EXTENDS Naturals, Sequences, SequencesExt, FiniteSets, TLC

CONSTANTS
    Tablet,     \* tablet ids
    Sensor,     \* those for which isTouchSensor is true
    Profile, NoProfile,
    MaxChanges, \* bound: changes on the side of the service
    MaxOps,     \* bound: operations of the user
    MaxTimeouts \* bound: calls that time out

ASSUME SensorAssumption == Sensor \subseteq Tablet
ASSUME NoProfileAssumption == NoProfile \notin Profile
ASSUME LimitAssumption == MaxChanges \in Nat /\ MaxOps \in Nat /\ MaxTimeouts \in Nat

Tool == {"stylus", "eraser", "touch"}
Mode == {"absolute", "relative"}
Switch == {"on", "off"}

\* What a profile sets: Mode of the pens, Touch of touch.
AsInProfile == [tool \in Tool |-> IF tool = "touch" THEN "on" ELSE "absolute"]

\* The operations of the applet, and what each makes a call for.
Targets ==
    [setProfile |-> <<"profile">>,
     setStylusMode |-> <<"stylus", "eraser">>,
     setRotation |-> <<"stylus", "eraser", "touch">>,
     setTouch |-> <<"touch">>]
Operation == DOMAIN Targets

ValuesOf(kind) ==
    CASE kind = "setProfile" -> Profile
      [] kind = "setStylusMode" -> Mode
      [] kind = "setRotation" -> {"half"}
      [] kind = "setTouch" -> Switch

VARIABLES
    up,         \* the daemon owns org.kde.Wacom
    present,    \* DBusTabletService: the ids in tabletInformationList
    profile,    \* DBusTabletService: currentProfileList
    mode,       \* the Mode property of the pens of each tablet, Touch of its touch
    listening,  \* the m_interface whose match rules the bus has, by its generation;
                \* 0 when there are none
    calls,      \* calls on their way to the bus and the daemon, oldest first
    inbox,      \* messages on their way to the applet, oldest first
    generation, \* m_generation
    nextEpoch,  \* m_nextTabletEpoch
    epochs,     \* m_tabletEpochs, 0 for an id that is not in it
    interface,  \* m_interface is there; so is m_serviceAvailable
    rows,       \* m_tablets
    sources,    \* what a listener to sourceAdded, newData and sourceRemoved has
    op,         \* the operation watchOperations follows
    heard,      \* history: tablets that have ever been there
    drifted,    \* history: tablets set since otherwise than by this applet
    changes, ops, timeouts \* what the bounds count

serviceVars == <<up, present, profile, mode, heard, drifted>>
modelVars == <<generation, nextEpoch, epochs, interface, rows, sources>>
countVars == <<changes, ops, timeouts>>
vars == <<serviceVars, listening, calls, inbox, modelVars, op, countVars>>

Row == [id : Tablet, profile : Profile \cup {NoProfile}, mode : Mode, touch : Switch]
NoSource == <<>>
NoOp == [status |-> "none"]
Shown == {rows[i].id : i \in DOMAIN rows}

-----------------------------------------------------------------------------
(* The daemon.  A signal reaches the applet if its match rules are in      *)
(* place.  Qt hands it to the interface object that asked for the rules; a *)
(* signal whose object was deleted in the meantime is dropped.             *)

Signals(list) == inbox' = IF listening = 0 THEN inbox ELSE inbox \o list

ProfileSignal(t, p) ==
    [kind |-> "profileChanged", gen |-> listening, tablet |-> t, profile |-> p]
TabletSignal(kind, t) == [kind |-> kind, gen |-> listening, tablet |-> t]

ServiceChange ==
    /\ changes < MaxChanges
    /\ changes' = changes + 1
    /\ UNCHANGED <<listening, calls, modelVars, op, ops, timeouts>>

\* DBusTabletService is created, or destroyed; the bus tells who watches the name.
ServiceStarts ==
    /\ ~up
    /\ up' = TRUE
    /\ inbox' = Append(inbox, [kind |-> "ownerChanged", owned |-> TRUE])
    /\ ServiceChange
    /\ UNCHANGED <<present, profile, mode, heard, drifted>>

ServiceStops ==
    /\ up
    /\ up' = FALSE
    /\ present' = {}
    /\ profile' = [t \in Tablet |-> NoProfile]
    /\ inbox' = Append(inbox, [kind |-> "ownerChanged", owned |-> FALSE])
    /\ ServiceChange
    /\ UNCHANGED <<mode, heard, drifted>>

\* The handler applies a profile to a new tablet before it announces the tablet.
TabletAppears(t, p) ==
    /\ up
    /\ t \notin present
    /\ present' = present \cup {t}
    /\ profile' = [profile EXCEPT ![t] = p]
    /\ mode' = [mode EXCEPT ![t] = AsInProfile]
    /\ heard' = heard \cup {t}
    /\ drifted' = drifted \ {t}
    /\ Signals(<<ProfileSignal(t, p), TabletSignal("tabletAdded", t)>>)
    /\ ServiceChange
    /\ UNCHANGED up

TabletDisappears(t) ==
    /\ t \in present
    /\ present' = present \ {t}
    /\ profile' = [profile EXCEPT ![t] = NoProfile]
    /\ Signals(<<TabletSignal("tabletRemoved", t)>>)
    /\ ServiceChange
    /\ UNCHANGED <<up, mode, heard, drifted>>

\* TabletHandler::setProfile sets the properties of the profile, and says only that
\* the profile is another.
SetsProfile(t, p) ==
    /\ profile' = [profile EXCEPT ![t] = p]
    /\ mode' = [mode EXCEPT ![t] = AsInProfile]
    /\ drifted' = IF mode[t] = AsInProfile THEN drifted ELSE drifted \cup {t}

\* A shortcut, or the settings module.
ProfileChanges(t, p) ==
    /\ t \in present
    /\ SetsProfile(t, p)
    /\ Signals(<<ProfileSignal(t, p)>>)
    /\ ServiceChange
    /\ UNCHANGED <<up, present, heard>>

-----------------------------------------------------------------------------
(* Calls, answered one at a time.  Of the six calls of a discovery two     *)
(* matter: getProfile, and the rest, which getProperty stands for; the     *)
(* daemon may do something else in between.                                *)

Reply(call, value) ==
    inbox' = Append(inbox, [kind |-> "reply", call |-> call, value |-> value])
Error(call) == inbox' = Append(inbox, [kind |-> "error", call |-> call])

\* The match rules are the bus's business, and so is the question for the owner.
ServeBus ==
    /\ calls # <<>>
    /\ calls' = Tail(calls)
    /\ LET call == Head(calls)
       IN  \/ /\ call.kind \in {"addMatch", "removeMatch"}
              /\ listening' = call.gen
              /\ UNCHANGED inbox
           \/ /\ call.kind = "nameHasOwner"
              /\ Reply(call, up)
              /\ UNCHANGED listening
    /\ UNCHANGED <<serviceVars, modelVars, op, countVars>>

ForDaemon(call) == call.kind \notin {"addMatch", "removeMatch", "nameHasOwner"}

\* getProfile: the value waits for the replies that follow it.
ServeGetProfile ==
    /\ up
    /\ calls # <<>>
    /\ LET call == Head(calls)
       IN  /\ call.kind = "getProfile"
           /\ calls' = <<[kind |-> "getProperty", tablet |-> call.tablet, gen |-> call.gen,
                          epoch |-> call.epoch, profile |-> profile[call.tablet]]>>
                           \o Tail(calls)
    /\ UNCHANGED <<serviceVars, listening, inbox, modelVars, op, countVars>>

\* What the daemon does for a call of an operation.
Obeys(call) ==
    \/ /\ call.operation = "setProfile"
       /\ SetsProfile(call.tablet, call.value)
    \/ /\ call.operation = "setRotation"
       /\ UNCHANGED <<profile, mode, drifted>>
    \/ /\ call.operation \in {"setStylusMode", "setTouch"}
       /\ mode' = [mode EXCEPT ![call.tablet][call.target] = call.value]
       /\ UNCHANGED <<profile, drifted>>

\* setProperty and setProfile for a tablet that is not there do nothing, and are no
\* error.  The signal of setProfile comes before its reply.
ServeOperation ==
    /\ up
    /\ calls # <<>>
    /\ calls' = Tail(calls)
    /\ LET call == Head(calls)
           signal == IF call.kind = "operate" /\ call.target = "profile" /\ call.tablet \in present
                        /\ listening # 0
                     THEN <<ProfileSignal(call.tablet, call.value)>>
                     ELSE <<>>
       IN  /\ call.kind = "operate"
           /\ IF call.tablet \in present
              THEN /\ Obeys(call)
                   /\ op' = [op EXCEPT !.written = @ \cup {call.target}]
              ELSE UNCHANGED <<profile, mode, drifted, op>>
           /\ inbox' = inbox \o signal \o <<[kind |-> "reply", call |-> call, value |-> TRUE]>>
    /\ UNCHANGED <<up, present, heard, listening, modelVars, countVars>>

ServeRead ==
    /\ up
    /\ calls # <<>>
    /\ calls' = Tail(calls)
    /\ LET call == Head(calls)
       IN  \/ /\ call.kind = "getTabletList"
              /\ Reply(call, present)
           \/ /\ call.kind = "isTouchSensor"
              /\ Reply(call, call.tablet \in present \cap Sensor)
           \/ /\ call.kind = "getProperty"
              /\ Reply(call, mode[call.tablet])
    /\ UNCHANGED <<serviceVars, listening, modelVars, op, countVars>>

\* Nobody owns the name: the bus answers with an error.
ServeNobody ==
    /\ ~up
    /\ calls # <<>>
    /\ ForDaemon(Head(calls))
    /\ calls' = Tail(calls)
    /\ Error(Head(calls))
    /\ UNCHANGED <<serviceVars, listening, modelVars, op, countVars>>

\* The daemon is busy for longer than a call waits.  What it was asked to set it may
\* set all the same.
TimesOut ==
    /\ timeouts < MaxTimeouts
    /\ timeouts' = timeouts + 1
    /\ calls # <<>>
    /\ calls' = Tail(calls)
    /\ LET call == Head(calls)
       IN  /\ ForDaemon(call)
           /\ Error(call)
           /\ \/ UNCHANGED <<profile, mode, drifted>>
              \/ /\ call.kind = "operate"
                 /\ call.tablet \in present
                 /\ Obeys(call)
    /\ UNCHANGED <<up, present, heard, listening, modelVars, op, changes, ops>>

-----------------------------------------------------------------------------
(* TabletModel. *)

Ask(list) == calls' = calls \o list

Receive(kind) ==
    /\ inbox # <<>>
    /\ Head(inbox).kind = kind
    /\ inbox' = Tail(inbox)
    /\ UNCHANGED <<serviceVars, listening, countVars>>

\* A signal for the interface object of this lifetime of the service.
ForInterface == interface /\ Head(inbox).gen = generation

\* The reply to, or the failure of, a call of the given kind.
ReceiveAnswer(kind, callKind) == Receive(kind) /\ Head(inbox).call.kind = callKind

\* A call made in this lifetime of the service, and of its tablet.
ThisGeneration(call) == call.gen = generation

\* Mutant of ThisEpoch: a tablet lives as long as the service.
ThisGenerationOnly(call) == ThisGeneration(call)

ThisEpoch(call) == ThisGeneration(call) /\ epochs[call.tablet] = call.epoch

\* Mutant of Discover: the next epoch is handed out without being used up.
ReusesEpoch(ids) ==
    \E new \in SetToSeqs({t \in ids : epochs[t] = 0}) :
        /\ epochs' = [t \in Tablet |->
                          IF t \in ToSet(new)
                          THEN nextEpoch + (CHOOSE i \in DOMAIN new : new[i] = t)
                          ELSE epochs[t]]
        /\ nextEpoch' = nextEpoch
        /\ Ask([i \in DOMAIN new |-> [kind |-> "isTouchSensor", tablet |-> new[i],
                                      gen |-> generation, epoch |-> nextEpoch + i]])

\* onTabletAdded for each of the ids, in whatever order the daemon lists them: an id
\* that has no epoch gets the next one.
Discover(ids) ==
    \E new \in SetToSeqs({t \in ids : epochs[t] = 0}) :
        /\ epochs' = [t \in Tablet |->
                          IF t \in ToSet(new)
                          THEN nextEpoch + (CHOOSE i \in DOMAIN new : new[i] = t)
                          ELSE epochs[t]]
        /\ nextEpoch' = nextEpoch + Len(new)
        /\ Ask([i \in DOMAIN new |-> [kind |-> "isTouchSensor", tablet |-> new[i],
                                      gen |-> generation, epoch |-> nextEpoch + i]])

ClearTablets ==
    /\ rows' = <<>>
    /\ sources' = [t \in Tablet |-> IF t \in Shown THEN NoSource ELSE sources[t]]

\* findRow.
RowsOf(t) == {i \in DOMAIN rows : rows[i].id = t}

\* A row becomes another, and publishTablet says so.
ChangeRow(i, row) ==
    /\ rows' = [rows EXCEPT ![i] = row]
    /\ sources' = [sources EXCEPT ![row.id] = row]

InsertTablet(row) ==
    /\ rows' = Append(rows, row)
    /\ sources' = [sources EXCEPT ![row.id] = row]

RemoveTablet(t) ==
    IF t \in Shown
    THEN /\ \E i \in RowsOf(t) : rows' = RemoveAt(rows, i)
         /\ sources' = [sources EXCEPT ![t] = NoSource]
    ELSE UNCHANGED <<rows, sources>>

OnServiceRegistered ==
    /\ generation' = generation + 1
    /\ epochs' = [t \in Tablet |-> 0]
    /\ interface' = TRUE
    /\ ClearTablets
    /\ Ask((IF interface THEN <<[kind |-> "removeMatch", gen |-> 0]>> ELSE <<>>)
           \o <<[kind |-> "addMatch", gen |-> generation + 1],
                [kind |-> "getTabletList", gen |-> generation + 1]>>)
    /\ UNCHANGED <<nextEpoch, op>>

OnServiceUnregistered ==
    /\ generation' = generation + 1
    /\ epochs' = [t \in Tablet |-> 0]
    /\ interface' = FALSE
    /\ ClearTablets
    /\ Ask(IF interface THEN <<[kind |-> "removeMatch", gen |-> 0]>> ELSE <<>>)
    /\ UNCHANGED <<nextEpoch, op>>

OnOwnerChanged ==
    /\ Receive("ownerChanged")
    /\ IF Head(inbox).owned THEN OnServiceRegistered ELSE OnServiceUnregistered

\* The constructor's question whether the service is running already.
OnNameHasOwner ==
    /\ ReceiveAnswer("reply", "nameHasOwner")
    /\ IF ThisGeneration(Head(inbox).call) /\ Head(inbox).value
       THEN OnServiceRegistered
       ELSE UNCHANGED <<modelVars, calls, op>>

OnTabletList ==
    /\ ReceiveAnswer("reply", "getTabletList")
    /\ IF ThisGeneration(Head(inbox).call)
       THEN Discover(Head(inbox).value)
       ELSE UNCHANGED <<epochs, nextEpoch, calls>>
    /\ UNCHANGED <<generation, interface, rows, sources, op>>

OnTabletAdded ==
    /\ Receive("tabletAdded")
    /\ IF ForInterface
       THEN Discover({Head(inbox).tablet})
       ELSE UNCHANGED <<epochs, nextEpoch, calls>>
    /\ UNCHANGED <<generation, interface, rows, sources, op>>

\* A touch sensor keeps its epoch and gets no row.
OnIsTouchSensor ==
    /\ ReceiveAnswer("reply", "isTouchSensor")
    /\ LET call == Head(inbox).call
       IN  IF ThisEpoch(call) /\ ~Head(inbox).value /\ call.tablet \notin Shown
           THEN Ask(<<[kind |-> "getProfile", tablet |-> call.tablet, gen |-> call.gen,
                       epoch |-> call.epoch]>>)
           ELSE UNCHANGED calls
    /\ UNCHANGED <<modelVars, op>>

\* All replies of a discovery are there.
OnTabletData ==
    /\ ReceiveAnswer("reply", "getProperty")
    /\ LET call == Head(inbox).call
       IN  IF ThisEpoch(call) /\ call.tablet \notin Shown
           THEN InsertTablet([id |-> call.tablet, profile |-> call.profile,
                              mode |-> Head(inbox).value["stylus"],
                              touch |-> Head(inbox).value["touch"]])
           ELSE UNCHANGED <<rows, sources>>
    /\ UNCHANGED <<generation, nextEpoch, epochs, interface, calls, op>>

\* A question about a tablet failed: its epoch ends, a later tabletAdded may start
\* another one.  A failed getTabletList is only logged.
OnError ==
    /\ Receive("error")
    /\ LET call == Head(inbox).call
       IN  /\ call.kind # "operate"
           /\ epochs' =
                  IF call.kind # "getTabletList" /\ ThisEpoch(call)
                  THEN [epochs EXCEPT ![call.tablet] = 0]
                  ELSE epochs
    /\ UNCHANGED <<generation, nextEpoch, interface, rows, sources, calls, op>>

\* Mutant of OnTabletRemoved: the epoch of the tablet stays.
KeepsEpoch ==
    /\ Receive("tabletRemoved")
    /\ IF ForInterface
       THEN RemoveTablet(Head(inbox).tablet)
       ELSE UNCHANGED <<rows, sources>>
    /\ UNCHANGED <<generation, nextEpoch, epochs, interface, calls, op>>

OnTabletRemoved ==
    /\ Receive("tabletRemoved")
    /\ IF ForInterface
       THEN /\ epochs' = [epochs EXCEPT ![Head(inbox).tablet] = 0]
            /\ RemoveTablet(Head(inbox).tablet)
       ELSE UNCHANGED <<epochs, rows, sources>>
    /\ UNCHANGED <<generation, nextEpoch, interface, calls, op>>

OnProfileChanged ==
    /\ Receive("profileChanged")
    /\ LET m == Head(inbox)
       IN  IF ForInterface /\ m.tablet \in Shown
           THEN \E i \in RowsOf(m.tablet) : ChangeRow(i, [rows[i] EXCEPT !.profile = m.profile])
           ELSE UNCHANGED <<rows, sources>>
    /\ UNCHANGED <<generation, nextEpoch, epochs, interface, calls, op>>

\* setProfile, setStylusMode, setRotation and setTouch, for a row that is shown.  The
\* calls of an operation are watched together.  Without the service it fails at once.
Operate(kind, t, v) ==
    /\ interface => t \in Shown
    /\ op.status # "pending"
    /\ ops < MaxOps
    /\ ops' = ops + 1
    /\ LET targets == Targets[kind]
       IN  /\ op' = [kind |-> kind, tablet |-> t, value |-> v, gen |-> generation,
                     epoch |-> epochs[t], remaining |-> Len(targets), failed |-> ~interface,
                     written |-> {}, status |-> IF interface THEN "pending" ELSE "failed"]
           /\ IF interface
              THEN Ask([i \in DOMAIN targets |-> [kind |-> "operate", operation |-> kind,
                                                  tablet |-> t, target |-> targets[i], value |-> v]])
              ELSE UNCHANGED calls
    /\ UNCHANGED <<serviceVars, listening, inbox, modelVars, changes, timeouts>>

\* Mutant of OperationDone: the result of the last call decides.
LastCallDecides(failed) ==
    IF ThisEpoch(op) /\ Head(inbox).kind = "reply" THEN "success" ELSE "failed"

\* How the operation ends, when one of its calls failed or none.
OperationDone(failed) == IF ThisEpoch(op) /\ ~failed THEN "success" ELSE "failed"

\* Mutant of OnOperationReply: a reply from an older lifetime is dropped before it counts.
DropsOldReplies ==
    /\ \E kind \in {"reply", "error"} : ReceiveAnswer(kind, "operate")
    /\ LET failed == op.failed \/ Head(inbox).kind = "error"
           status == IF op.remaining > 1 THEN "pending" ELSE OperationDone(failed)
       IN  op' = IF ThisEpoch(op)
                 THEN [op EXCEPT !.status = status, !.remaining = @ - 1, !.failed = failed]
                 ELSE op
    /\ UNCHANGED <<modelVars, calls>>

\* watchOperations: the last of the calls decides, and an operation that succeeded
\* is shown.
OnOperationReply ==
    /\ \E kind \in {"reply", "error"} : ReceiveAnswer(kind, "operate")
    /\ LET failed == op.failed \/ Head(inbox).kind = "error"
           status == IF op.remaining > 1 THEN "pending" ELSE OperationDone(failed)
       IN  /\ op' = [op EXCEPT !.status = status, !.remaining = @ - 1, !.failed = failed]
           /\ IF status = "success" /\ op.kind \in {"setStylusMode", "setTouch"}
                 /\ op.tablet \in Shown
              THEN \E i \in RowsOf(op.tablet) :
                       ChangeRow(i, IF op.kind = "setTouch"
                                    THEN [rows[i] EXCEPT !.touch = op.value]
                                    ELSE [rows[i] EXCEPT !.mode = op.value])
              ELSE UNCHANGED <<rows, sources>>
    /\ UNCHANGED <<generation, nextEpoch, epochs, interface, calls>>

-----------------------------------------------------------------------------
\* The applet starts beside a daemon that runs or does not, with no tablet yet; the
\* name is watched and the question for its owner asked.
Init ==
    /\ up \in BOOLEAN
    /\ present = {}
    /\ profile = [t \in Tablet |-> NoProfile]
    /\ mode = [t \in Tablet |-> AsInProfile]
    /\ listening = 0
    /\ calls = <<[kind |-> "nameHasOwner", gen |-> 0]>>
    /\ inbox = <<>>
    /\ generation = 0
    /\ nextEpoch = 0
    /\ epochs = [t \in Tablet |-> 0]
    /\ interface = FALSE
    /\ rows = <<>>
    /\ sources = [t \in Tablet |-> NoSource]
    /\ heard = {}
    /\ drifted = {}
    /\ op = NoOp
    /\ changes = 0 /\ ops = 0 /\ timeouts = 0

Service ==
    \/ ServiceStarts
    \/ ServiceStops
    \/ \E t \in Tablet, p \in Profile : TabletAppears(t, p)
    \/ \E t \in Tablet : TabletDisappears(t)
    \/ \E t \in Tablet, p \in Profile : ProfileChanges(t, p)

Serve ==
    \/ ServeBus
    \/ ServeGetProfile
    \/ ServeOperation
    \/ ServeRead
    \/ ServeNobody

Deliver ==
    \/ OnOwnerChanged
    \/ OnNameHasOwner
    \/ OnTabletList
    \/ OnTabletAdded
    \/ OnIsTouchSensor
    \/ OnTabletData
    \/ OnError
    \/ OnTabletRemoved
    \/ OnProfileChanged
    \/ OnOperationReply

Next ==
    \/ Service
    \/ Serve
    \/ TimesOut
    \/ Deliver
    \/ \E kind \in Operation, t \in Tablet : \E v \in ValuesOf(kind) : Operate(kind, t, v)

Spec == Init /\ [][Next]_vars

\* The bus and the daemon answer, the applet's event loop runs.
FairSpec == Spec /\ WF_vars(Serve) /\ WF_vars(Deliver)
-----------------------------------------------------------------------------
(* Properties. *)

\* What a call can be, and what can come back for it.
Question ==
    [kind : {"isTouchSensor", "getProfile"}, tablet : Tablet, gen : Nat, epoch : Nat]
    \cup [kind : {"getProperty"}, tablet : Tablet, gen : Nat, epoch : Nat,
          profile : Profile \cup {NoProfile}]
Order ==
    {c \in [kind : {"operate"}, operation : Operation, tablet : Tablet,
            target : Tool \cup {"profile"}, value : Profile \cup Mode \cup Switch \cup {"half"}] :
        c.target \in ToSet(Targets[c.operation]) /\ c.value \in ValuesOf(c.operation)}
Call ==
    [kind : {"nameHasOwner", "addMatch", "removeMatch", "getTabletList"}, gen : Nat]
    \cup Question \cup Order

Modes == {m \in [Tool -> Mode \cup Switch] : \A tool \in Tool : m[tool] \in Switch <=> tool = "touch"}
Answers(call) ==
    CASE call.kind = "getTabletList" -> SUBSET Tablet
      [] call.kind = "getProperty" -> Modes
      [] OTHER -> BOOLEAN

WellFormed(m) ==
    CASE m.kind = "reply" -> m.call \in Call /\ m.value \in Answers(m.call)
      [] m.kind = "error" -> m.call \in Call
      [] m.kind = "ownerChanged" -> m.owned \in BOOLEAN
      [] m.kind = "profileChanged" ->
             m.gen \in Nat /\ m.tablet \in Tablet /\ m.profile \in Profile
      [] OTHER -> m.kind \in {"tabletAdded", "tabletRemoved"} /\ m.gen \in Nat /\ m.tablet \in Tablet

Op ==
    {o \in [status : {"pending", "success", "failed"}, kind : Operation, tablet : Tablet,
            value : Profile \cup Mode \cup Switch \cup {"half"}, gen : Nat, epoch : Nat,
            remaining : Nat, failed : BOOLEAN, written : SUBSET (Tool \cup {"profile"})] :
        o.written \subseteq ToSet(Targets[o.kind]) /\ o.value \in ValuesOf(o.kind)}

TypeOK ==
    /\ up \in BOOLEAN
    /\ present \subseteq Tablet /\ heard \subseteq Tablet /\ drifted \subseteq Tablet
    /\ profile \in [Tablet -> Profile \cup {NoProfile}]
    /\ mode \in [Tablet -> Modes]
    /\ listening \in 0..generation
    /\ calls \in Seq(Call)
    /\ \A i \in DOMAIN inbox : WellFormed(inbox[i])
    /\ generation \in Nat
    /\ nextEpoch \in Nat
    /\ epochs \in [Tablet -> 0..nextEpoch]
    /\ interface \in BOOLEAN
    /\ rows \in Seq(Row)
    /\ sources \in [Tablet -> Row \cup {NoSource}]
    /\ op \in Op \cup {NoOp}

\* A row belongs to a tablet whose lifetime is known, and no tablet has two: neither
\* signals and replies that cross, nor two discoveries of one tablet, add another.
RowsAreAlive ==
    /\ \A i \in DOMAIN rows : interface /\ epochs[rows[i].id] > 0
    /\ \A i, j \in DOMAIN rows : rows[i].id = rows[j].id => i = j

\* Whatever changes the rows, a listener to the signals has the same.
SourcesAreRows ==
    /\ \A i \in DOMAIN rows : sources[rows[i].id] = rows[i]
    /\ \A t \in Tablet \ Shown : sources[t] = NoSource

\* Nothing is under way, and nothing was lost.
Quiet == up /\ calls = <<>> /\ inbox = <<>> /\ timeouts = 0

\* Then the rows are the tablets of the daemon that are no touch sensors: none was
\* missed, none came back from an old reply, whatever the order in which tablets and
\* the daemon came and went.
ShownArePresent == Quiet => Shown = present \ Sensor

\* Then a row shows the mode of the stylus and the state of touch, also after the tablet
\* was replaced while an operation on it was under way, unless a profile changed them:
\* nothing tells the applet.
SettingsAreShown ==
    Quiet => \A i \in DOMAIN rows : rows[i].id \notin drifted =>
                 /\ rows[i].mode = mode[rows[i].id]["stylus"]
                 /\ rows[i].touch = mode[rows[i].id]["touch"]

\* The rows of the applet are those of tablets that are there, show what is set, and are
\* what its listeners were told.
RowsAreTrue == RowsAreAlive /\ SourcesAreRows /\ ShownArePresent /\ SettingsAreShown

\* An operation is reported to have succeeded only if the daemon has done every part
\* of it.
SuccessIsReal == op.status = "success" => op.written = ToSet(Targets[op.kind])

\* Every operation ends, also when the daemon or the tablet is gone.
OperationEnds == op.status = "pending" ~> op.status # "pending"

Directory == INSTANCE TabletDirectory WITH
    Tablet <- Tablet \ Sensor,
    there <- present \ Sensor,
    heard <- heard \ Sensor,
    shown <- Shown,
    lost <- timeouts > 0

\* The applet keeps a directory of the daemon's tablets: it shows none that was not
\* there, changes by one tablet or is emptied, and once the tablets stay as they are it
\* ends up with exactly those, unless an answer was lost.
ImplementsDirectory == Directory!Spec
=============================================================================
