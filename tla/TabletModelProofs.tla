------------------------- MODULE TabletModelProofs -------------------------
(***************************************************************************)
(* Proofs about TabletModel, for every set of tablets, sensors and         *)
(* profiles and every value of the bounds.                                 *)
(*                                                                         *)
(* What the applet shows is right because of what is under way: the        *)
(* invariant is about the calls and messages between the applet and the    *)
(* daemon, the parts of it are named below.                                *)
(***************************************************************************)
EXTENDS TabletModel, SequenceTheorems, FiniteSetTheorems, TLAPS

Message ==
    [kind : {"ownerChanged"}, owned : BOOLEAN]
    \cup [kind : {"tabletAdded", "tabletRemoved"}, gen : Nat, tablet : Tablet]
    \cup [kind : {"profileChanged"}, gen : Nat, tablet : Tablet, profile : Profile]
    \cup [kind : {"error"}, call : Call]
    \cup {m \in [kind : {"reply"}, call : Call,
                 value : BOOLEAN \cup Modes \cup SUBSET Tablet] : m.value \in Answers(m.call)}

-----------------------------------------------------------------------------
(* Calls and messages, by what they are about.                             *)

IsSignal(m) == m.kind \in {"tabletAdded", "tabletRemoved", "profileChanged"}
IsAnswer(m) == m.kind \in {"reply", "error"}
IsMatch(c) == c.kind \in {"addMatch", "removeMatch"}
IsOrder(c) == c.kind = "operate"

\* A question of a discovery.
Asks(c) == c.kind \in {"isTouchSensor", "getProfile", "getProperty"}

\* A question, or the match rules and the list, of the present lifetime of the service.
Mentions(c) == c.kind \notin {"operate", "nameHasOwner", "removeMatch"} /\ c.gen = generation

Current(m) ==
    \/ IsSignal(m) /\ m.gen = generation
    \/ IsAnswer(m) /\ Mentions(m.call)

Removes(m, t) == m.kind = "tabletRemoved" /\ m.tablet = t /\ m.gen = generation
Brings(m, t) ==
    \/ m.kind = "tabletAdded" /\ m.tablet = t /\ m.gen = generation
    \/ /\ m.kind = "reply" /\ m.call.kind = "getTabletList"
       /\ m.call.gen = generation /\ t \in m.value

Owner(m) == m.kind = "ownerChanged"
Reset == \E i \in DOMAIN inbox : Owner(inbox[i])

\* What lies before message i ends the lifetime of the tablet.
EndsBefore(i, t) == \E j \in 1..(i - 1) : Owner(inbox[j]) \/ Removes(inbox[j], t)

-----------------------------------------------------------------------------
(* The parts of the invariant.                                             *)

\* No call or message is about a lifetime that has not begun.
NumbersOf(c, gens, asked) ==
    /\ ~IsOrder(c) => c.gen <= gens
    /\ c.kind \in {"nameHasOwner", "removeMatch"} => c.gen = 0
    /\ c.kind \notin {"operate", "nameHasOwner", "removeMatch"} => c.gen >= 1
    /\ Asks(c) => c.epoch \in 1..asked

Numbered ==
    /\ \A i \in DOMAIN calls : NumbersOf(calls[i], generation, nextEpoch)
    /\ \A i \in DOMAIN inbox :
           /\ IsSignal(inbox[i]) => inbox[i].gen \in 1..generation
           /\ IsAnswer(inbox[i]) => NumbersOf(inbox[i].call, generation, nextEpoch)
           /\ inbox[i].kind = "error" => ForDaemon(inbox[i].call)
    /\ op.status # "none" => op.gen <= generation /\ op.epoch <= nextEpoch

\* The tablets that are spoken of have been there.
Known ==
    /\ IsFiniteSet(present)
    /\ present \subseteq heard
    /\ \A i \in DOMAIN calls : Asks(calls[i]) => calls[i].tablet \in heard
    /\ \A i \in DOMAIN inbox :
           /\ IsSignal(inbox[i]) => inbox[i].tablet \in heard
           /\ IsAnswer(inbox[i]) /\ Asks(inbox[i].call) => inbox[i].call.tablet \in heard
           /\ inbox[i].kind = "reply" /\ inbox[i].call.kind = "getTabletList" =>
                  IsFiniteSet(inbox[i].value) /\ inbox[i].value \subseteq heard

\* The bus comes to know the match rules of the newest interface object.
Listening ==
    /\ \A i \in DOMAIN calls : IsMatch(calls[i]) =>
           /\ listening < generation
           /\ calls[i].kind = "addMatch" => listening < calls[i].gen
           /\ \A j \in DOMAIN calls :
                  i < j /\ IsMatch(calls[j]) /\ calls[i].kind = "addMatch" =>
                      /\ calls[i].gen < generation
                      /\ calls[j].kind = "addMatch" => calls[i].gen < calls[j].gen
    /\ interface =>
           /\ generation >= 1
           /\ \/ listening = generation
              \/ \E i, j \in DOMAIN calls :
                     /\ i < j
                     /\ calls[i].kind = "addMatch" /\ calls[i].gen = generation
                     /\ calls[j].kind = "getTabletList" /\ calls[j].gen = generation
    /\ \A j \in DOMAIN calls : calls[j].kind = "getTabletList" /\ calls[j].gen = generation =>
           \/ listening = generation
           \/ \E i \in DOMAIN calls :
                  i < j /\ calls[i].kind = "addMatch" /\ calls[i].gen = generation

\* Before it does, nothing is under way about the present lifetime but the list.
Dormant ==
    /\ listening # generation \/ generation = 0 =>
           /\ \A t \in Tablet : epochs[t] = 0
           /\ rows = <<>>
           /\ \A i \in DOMAIN inbox : ~Current(inbox[i])
           /\ \A i \in DOMAIN calls : Asks(calls[i]) => calls[i].gen # generation
           /\ op.status = "pending" => op.gen # generation
    /\ ~interface =>
           /\ listening # generation \/ generation = 0
           /\ \A i \in DOMAIN calls : ~Mentions(calls[i])

\* What the last message about the owner of the name says is so.
Owned ==
    /\ \A i \in DOMAIN inbox :
           (\A j \in DOMAIN inbox : i < j => ~Owner(inbox[j])) =>
               /\ Owner(inbox[i]) => inbox[i].owned = up
               /\ inbox[i].kind = "reply" /\ inbox[i].call.kind = "nameHasOwner" =>
                      inbox[i].value = up
    /\ ~Reset =>
           \/ interface = up
           \/ /\ generation = 0 /\ up
              /\ \/ \E i \in DOMAIN calls : calls[i].kind = "nameHasOwner"
                 \/ \E i \in DOMAIN inbox :
                        inbox[i].kind = "reply" /\ inbox[i].call.kind = "nameHasOwner"

\* A failure that concerns the present lifetime comes from a call that timed out.
ErrorsAreOld ==
    /\ \A i \in DOMAIN inbox :
           /\ inbox[i].kind = "error"
           /\ Mentions(inbox[i].call) \/ (IsOrder(inbox[i].call) /\ op.gen = generation)
           /\ \A j \in 1..(i - 1) : ~Owner(inbox[j])
           => timeouts > 0
    /\ op.status = "pending" /\ op.failed /\ op.gen = generation => timeouts > 0

\* Who is believed to be there is there, or the signal that it is not is under way.
GoneIsTold ==
    interface /\ ~Reset => \A t \in Tablet \ present :
        /\ epochs[t] > 0 => \E i \in DOMAIN inbox : Removes(inbox[i], t)
        /\ \A i \in DOMAIN inbox : Brings(inbox[i], t) =>
               \E j \in DOMAIN inbox : i < j /\ Removes(inbox[j], t)

\* Who is there is known, or will be.
PresentIsTold ==
    interface /\ ~Reset /\ timeouts = 0 => \A t \in present :
        \/ epochs[t] > 0 /\ \A i \in DOMAIN inbox : ~Removes(inbox[i], t)
        \/ \E i \in DOMAIN calls : calls[i].kind = "getTabletList" /\ calls[i].gen = generation
        \/ \E i \in DOMAIN inbox :
               /\ Brings(inbox[i], t)
               /\ \A j \in DOMAIN inbox : i < j => ~Removes(inbox[j], t)

\* No two questions under way belong to one discovery, and none to one that is over.
AskedOnce ==
    /\ \A i, j \in DOMAIN calls :
           Asks(calls[i]) /\ Asks(calls[j]) /\ calls[i].epoch = calls[j].epoch => i = j
    /\ \A i, j \in DOMAIN inbox :
           /\ IsAnswer(inbox[i]) /\ Asks(inbox[i].call)
           /\ IsAnswer(inbox[j]) /\ Asks(inbox[j].call)
           /\ inbox[i].call.epoch = inbox[j].call.epoch
           => i = j
    /\ \A i \in DOMAIN inbox, j \in DOMAIN calls :
           IsAnswer(inbox[i]) /\ Asks(inbox[i].call) /\ Asks(calls[j]) =>
               inbox[i].call.epoch # calls[j].epoch
    /\ \A i \in DOMAIN calls : Asks(calls[i]) =>
           ~(calls[i].tablet \in Shown /\ calls[i].epoch = epochs[calls[i].tablet])
    /\ \A i \in DOMAIN inbox : IsAnswer(inbox[i]) /\ Asks(inbox[i].call) =>
           ~(inbox[i].call.tablet \in Shown
             /\ inbox[i].call.epoch = epochs[inbox[i].call.tablet])

\* A discovery goes on until its tablet is shown.
DiscoveryGoesOn ==
    /\ \A i \in DOMAIN inbox :
           inbox[i].kind = "reply" /\ inbox[i].call.kind = "isTouchSensor" /\ inbox[i].value =>
               inbox[i].call.tablet \in Sensor
    /\ \A t \in Tablet \ Sensor : epochs[t] > 0 =>
           \/ t \in Shown
           \/ \E i \in DOMAIN calls : Asks(calls[i]) /\ calls[i].tablet = t /\ ThisEpoch(calls[i])
           \/ \E i \in DOMAIN inbox :
                  IsAnswer(inbox[i]) /\ Asks(inbox[i].call) /\ inbox[i].call.tablet = t
                  /\ ThisEpoch(inbox[i].call)

\* A touch sensor that is gone when it is asked about is no touch sensor to the daemon,
\* but the signal that it is gone comes before the answer.
NoSensors ==
    /\ Shown \cap Sensor = {}
    /\ \A i \in DOMAIN calls :
           calls[i].kind \in {"getProfile", "getProperty"} /\ calls[i].tablet \in Sensor =>
               ~ThisEpoch(calls[i])
    /\ \A i \in DOMAIN inbox :
           IsAnswer(inbox[i]) /\ Asks(inbox[i].call) /\ inbox[i].call.tablet \in Sensor =>
               /\ inbox[i].call.kind # "isTouchSensor" => ~ThisEpoch(inbox[i].call)
               /\ inbox[i].call.kind = "isTouchSensor" /\ inbox[i].kind = "reply"
                  /\ ~inbox[i].value /\ ThisEpoch(inbox[i].call) =>
                      EndsBefore(i, inbox[i].call.tablet)

\* The calls under way are those of the operation that is watched.
OrderOf(c) ==
    /\ op.status = "pending"
    /\ c.operation = op.kind /\ c.tablet = op.tablet /\ c.value = op.value

Outstanding ==
    {calls[i].target : i \in {k \in DOMAIN calls : IsOrder(calls[k])}}
    \cup {inbox[i].call.target : i \in {k \in DOMAIN inbox :
                                           IsAnswer(inbox[k]) /\ IsOrder(inbox[k].call)}}

OrdersAreWatched ==
    /\ \A i \in DOMAIN calls : IsOrder(calls[i]) => OrderOf(calls[i])
    /\ \A i \in DOMAIN inbox : IsAnswer(inbox[i]) /\ IsOrder(inbox[i].call) => OrderOf(inbox[i].call)
    /\ \A i, j \in DOMAIN calls :
           IsOrder(calls[i]) /\ IsOrder(calls[j]) /\ calls[i].target = calls[j].target => i = j
    /\ \A i, j \in DOMAIN inbox :
           /\ IsAnswer(inbox[i]) /\ IsOrder(inbox[i].call)
           /\ IsAnswer(inbox[j]) /\ IsOrder(inbox[j].call)
           /\ inbox[i].call.target = inbox[j].call.target
           => i = j
    /\ \A i \in DOMAIN inbox, j \in DOMAIN calls :
           IsAnswer(inbox[i]) /\ IsOrder(inbox[i].call) /\ IsOrder(calls[j]) =>
               inbox[i].call.target # calls[j].target
    /\ op.status = "pending" => 
           op.remaining = Cardinality(Outstanding) /\ op.remaining > 0 /\ op.epoch > 0

\* What is done of it is written, if the tablet still lives.
DoneIsWritten ==
    /\ op.status = "pending" /\ ThisEpoch(op) /\ ~op.failed =>
           ToSet(Targets[op.kind]) \subseteq op.written \cup Outstanding
    /\ \A i \in DOMAIN inbox :
           inbox[i].kind = "reply" /\ IsOrder(inbox[i].call) /\ ThisEpoch(op) =>
               inbox[i].call.target \in op.written \/ EndsBefore(i, op.tablet)

\* The calls of an operation come before the questions of a discovery that follows it.
OrdersComeFirst ==
    /\ \A i, j \in DOMAIN calls :
           Asks(calls[i]) /\ ThisEpoch(calls[i]) /\ IsOrder(calls[j]) /\ i < j =>
               calls[j].tablet # calls[i].tablet
    /\ \A i \in DOMAIN inbox, j \in DOMAIN calls :
           IsAnswer(inbox[i]) /\ Asks(inbox[i].call) /\ ThisEpoch(inbox[i].call)
           /\ IsOrder(calls[j]) =>
               calls[j].tablet # inbox[i].call.tablet
    /\ \A j \in DOMAIN calls : IsOrder(calls[j]) /\ calls[j].tablet \in Shown => ThisEpoch(op)

\* Nothing that is under way contradicts what is known of the tablet.
Sound(t) ==
    /\ ~Reset /\ timeouts = 0 /\ t \notin drifted
    /\ \A i \in DOMAIN inbox : ~Removes(inbox[i], t)

\* The operation has set this of the tablet, and will show it.
IsSet(kind, t, tool) ==
    /\ op.status = "pending" /\ op.kind = kind /\ op.tablet = t
    /\ ThisEpoch(op) /\ tool \in op.written

SettingsFollow ==
    /\ \A i \in DOMAIN rows : Sound(rows[i].id) =>
           /\ \/ rows[i].mode = mode[rows[i].id]["stylus"]
              \/ IsSet("setStylusMode", rows[i].id, "stylus")
           /\ \/ rows[i].touch = mode[rows[i].id]["touch"]
              \/ IsSet("setTouch", rows[i].id, "touch")
    /\ \A t \in Tablet : Sound(t) =>
           /\ IsSet("setStylusMode", t, "stylus") => op.value = mode[t]["stylus"]
           /\ IsSet("setTouch", t, "touch") => op.value = mode[t]["touch"]
    /\ \A i \in DOMAIN inbox :
           inbox[i].kind = "reply" /\ inbox[i].call.kind = "getProperty"
           /\ ThisEpoch(inbox[i].call) /\ Sound(inbox[i].call.tablet) =>
               /\ inbox[i].value["stylus"] = mode[inbox[i].call.tablet]["stylus"]
               /\ inbox[i].value["touch"] = mode[inbox[i].call.tablet]["touch"]

Typed == TypeOK /\ inbox \in Seq(Message)

IInv ==
    /\ Typed /\ timeouts \in Nat
    /\ Numbered /\ Known /\ Listening /\ Dormant /\ Owned /\ ErrorsAreOld
    /\ GoneIsTold /\ PresentIsTold
    /\ AskedOnce /\ DiscoveryGoesOn /\ NoSensors
    /\ OrdersAreWatched /\ DoneIsWritten /\ OrdersComeFirst /\ SettingsFollow
    /\ RowsAreAlive /\ SourcesAreRows /\ SuccessIsReal
-----------------------------------------------------------------------------
(* Sequences: what is left of one, what is added to one.                   *)

\* r is s without its first element.
TailOf(r, s) ==
    /\ 1 \in DOMAIN s
    /\ \A i \in DOMAIN s : i \in Nat /\ i >= 1 /\ (i = 1 \/ (i - 1 \in DOMAIN r /\ r[i - 1] = s[i]))
    /\ \A i \in DOMAIN r : i \in Nat /\ i >= 1 /\ i + 1 \in DOMAIN s /\ r[i] = s[i + 1]

\* r is s and then e, of which s has n elements.
LongerBy(r, s, n, e) ==
    /\ n \in Nat
    /\ \A i \in DOMAIN s : i \in DOMAIN r /\ r[i] = s[i] /\ i \in Nat /\ i >= 1 /\ i <= n
    /\ \A i \in DOMAIN r : i \in Nat /\ i >= 1 /\ (i \in DOMAIN s \/ i > n)
    /\ \A i \in DOMAIN r : i > n => i - n \in DOMAIN e /\ r[i] = e[i - n]
    /\ \A k \in DOMAIN e : n + k \in DOMAIN r /\ r[n + k] = e[k]

LEMMA TailFacts ==
    ASSUME NEW S, NEW s \in Seq(S), s # <<>>
    PROVE  /\ Tail(s) \in Seq(S) /\ Head(s) \in S
           /\ Head(s) = s[1]
           /\ TailOf(Tail(s), s)
BY HeadTailProperties DEF TailOf

LEMMA ConcatFacts ==
    ASSUME NEW S, NEW s \in Seq(S), NEW e \in Seq(S)
    PROVE  s \o e \in Seq(S) /\ LongerBy(s \o e, s, Len(s), e)
<1>1. /\ s \o e \in Seq(S) /\ Len(s \o e) = Len(s) + Len(e)
      /\ \A i \in 1..(Len(s) + Len(e)) :
             (s \o e)[i] = IF i <= Len(s) THEN s[i] ELSE e[i - Len(s)]
  BY ConcatProperties
<1> DEFINE r == s \o e
           n == Len(s)
           l == Len(e)
<1>2. /\ n \in Nat /\ l \in Nat /\ DOMAIN s = 1..n /\ DOMAIN e = 1..l /\ DOMAIN r = 1..(n + l)
  BY <1>1
<1>3. \A i \in 1..(n + l) : r[i] = IF i <= n THEN s[i] ELSE e[i - n]
  BY <1>1
<1> HIDE DEF r, n, l
<1>4. LongerBy(r, s, n, e)
  BY <1>2, <1>3 DEF LongerBy
<1> QED BY <1>1, <1>4 DEF r, n

LEMMA TwoJoined == \A a, b : <<a>> \o <<b>> = <<a, b>>
<1> SUFFICES ASSUME NEW a, NEW b
             PROVE  <<a>> \o <<b>> = <<a, b>>
  OBVIOUS
<1> DEFINE S == {a, b}
           s == <<a>>
           t == <<b>>
<1>1. s \in Seq(S) /\ t \in Seq(S) /\ Len(s) = 1 /\ Len(t) = 1 /\ s[1] = a /\ t[1] = b
  OBVIOUS
<1>2. <<a, b>> \in Seq(S) /\ Len(<<a, b>>) = 2 /\ <<a, b>>[1] = a /\ <<a, b>>[2] = b
  OBVIOUS
<1> HIDE DEF S, s, t
<1>3. /\ s \o t \in Seq(S) /\ Len(s \o t) = Len(s) + Len(t)
      /\ \A i \in 1..(Len(s) + Len(t)) :
             (s \o t)[i] = IF i <= Len(s) THEN s[i] ELSE t[i - Len(s)]
  BY <1>1, ConcatProperties
<1>4. Len(s \o t) = 2 /\ (s \o t)[1] = a /\ (s \o t)[2] = b
  BY <1>1, <1>3
<1>5. s \o t = <<a, b>>
  <2> DEFINE u == s \o t
             v == <<a, b>>
  <2>1. /\ u \in Seq(S) /\ v \in Seq(S) /\ Len(u) = Len(v)
        /\ \A i \in 1..Len(u) : u[i] = v[i]
    BY <1>2, <1>3, <1>4
  <2> HIDE DEF u, v
  <2>2. u = v
    BY <2>1, SeqEqual
  <2> QED BY <2>2 DEF u, v
<1> QED BY <1>5 DEF s, t

LEMMA AppendFacts ==
    ASSUME NEW S, NEW s \in Seq(S), NEW m \in S
    PROVE  Append(s, m) \in Seq(S) /\ LongerBy(Append(s, m), s, Len(s), <<m>>)
<1>1. <<m>> \in Seq(S)
  OBVIOUS
<1>2. Append(s, m) = s \o <<m>>
  BY AppendIsConcat
<1> QED BY <1>1, <1>2, ConcatFacts

LEMMA RemoveAtFacts ==
    ASSUME NEW S, NEW s \in Seq(S), NEW k \in DOMAIN s
    PROVE  /\ RemoveAt(s, k) \in Seq(S)
           /\ \A i \in DOMAIN s : i < k => i \in DOMAIN RemoveAt(s, k) /\ RemoveAt(s, k)[i] = s[i]
           /\ \A i \in DOMAIN s : i > k =>
                  i - 1 \in DOMAIN RemoveAt(s, k) /\ RemoveAt(s, k)[i - 1] = s[i]
           /\ \A i \in DOMAIN RemoveAt(s, k) :
                  \/ i < k /\ i \in DOMAIN s /\ RemoveAt(s, k)[i] = s[i]
                  \/ i >= k /\ i + 1 \in DOMAIN s /\ RemoveAt(s, k)[i] = s[i + 1]
<1> DEFINE a == SubSeq(s, 1, k - 1)
           b == SubSeq(s, k + 1, Len(s))
           n == Len(s)
<1>1. k \in 1..n /\ n \in Nat /\ DOMAIN s = 1..n /\ \A i \in 1..n : s[i] \in S
  OBVIOUS
<1>2. /\ a \in Seq(S) /\ Len(a) = k - 1 /\ DOMAIN a = 1..(k - 1)
      /\ \A i \in 1..(k - 1) : a[i] = s[i]
  <2>1. \A i \in 1..(k - 1) : s[i] \in S
    BY <1>1
  <2> QED BY <1>1, <2>1, SubSeqProperties
<1>3. /\ b \in Seq(S) /\ Len(b) = n - k /\ DOMAIN b = 1..(n - k)
      /\ \A i \in 1..(n - k) : b[i] = s[k + i]
  <2>1. \A i \in (k + 1)..n : s[i] \in S
    BY <1>1
  <2>2. /\ b \in Seq(S) /\ Len(b) = n - k
        /\ \A i \in 1..(n - k) : b[i] = s[(k + 1) + i - 1]
    BY <1>1, <2>1, SubSeqProperties
  <2> HIDE DEF b
  <2>3. \A i \in 1..(n - k) : (k + 1) + i - 1 = k + i
    BY <1>1
  <2> QED BY <2>2, <2>3
<1>4. RemoveAt(s, k) = a \o b
  BY DEF RemoveAt
<1> HIDE DEF a, b, n
<1>5. a \o b \in Seq(S) /\ LongerBy(a \o b, a, Len(a), b)
  BY <1>2, <1>3, ConcatFacts
<1> DEFINE r == a \o b
<1>6. r \in Seq(S) /\ LongerBy(r, a, k - 1, b)
  BY <1>2, <1>5
<1>7. RemoveAt(s, k) = r
  BY <1>4
<1> HIDE DEF r
<1>8. /\ \A i \in DOMAIN s : i < k => i \in DOMAIN r /\ r[i] = s[i]
      /\ \A i \in DOMAIN s : i > k => i - 1 \in DOMAIN r /\ r[i - 1] = s[i]
  <2>1. ASSUME NEW i \in DOMAIN s, i > k
        PROVE  i - 1 \in DOMAIN r /\ r[i - 1] = s[i]
    <3>1. i - k \in DOMAIN b /\ b[i - k] = s[k + (i - k)] /\ k + (i - k) = i
      BY <1>1, <1>3, <2>1
    <3>2. (k - 1) + (i - k) = i - 1
      BY <1>1, <2>1
    <3> QED BY <1>6, <3>1, <3>2 DEF LongerBy
  <2> QED BY <1>1, <1>2, <1>6, <2>1 DEF LongerBy
<1>9. ASSUME NEW i \in DOMAIN r
      PROVE  \/ i < k /\ i \in DOMAIN s /\ r[i] = s[i]
             \/ i >= k /\ i + 1 \in DOMAIN s /\ r[i] = s[i + 1]
  <2>1. i \in Nat /\ (i \in DOMAIN a \/ i > k - 1)
    BY <1>6 DEF LongerBy
  <2>2. CASE i < k
    <3>1. i \in DOMAIN a /\ r[i] = a[i]
      BY <1>1, <1>6, <2>1, <2>2 DEF LongerBy
    <3> QED BY <1>1, <1>2, <2>2, <3>1
  <2>3. CASE ~(i < k)
    <3>1. i > k - 1
      BY <1>1, <2>1, <2>3
    <3>2. i - (k - 1) \in 1..(n - k) /\ r[i] = b[i - (k - 1)]
      BY <1>3, <1>6, <3>1 DEF LongerBy
    <3>3. k + (i - (k - 1)) = i + 1
      BY <1>1, <2>1
    <3> QED BY <1>1, <1>3, <2>1, <2>3, <3>2, <3>3
  <2> QED BY <2>2, <2>3
<1> QED BY <1>6, <1>7, <1>8, <1>9

-----------------------------------------------------------------------------
(* Types.                                                                  *)

\* What a call has, by its kind.
LEMMA CallFields ==
    ASSUME NEW c \in Call
    PROVE  /\ ~IsOrder(c) => c.gen \in Nat
           /\ Asks(c) => c.tablet \in Tablet /\ c.epoch \in Nat /\ c \in Question
           /\ c.kind = "getProperty" => c.profile \in Profile \cup {NoProfile}
           /\ IsOrder(c) => /\ c \in Order
                            /\ c.operation \in Operation /\ c.tablet \in Tablet
                            /\ c.target \in ToSet(Targets[c.operation])
                            /\ c.value \in ValuesOf(c.operation)
           /\ c.kind \in {"nameHasOwner", "addMatch", "removeMatch", "getTabletList",
                          "isTouchSensor", "getProfile", "getProperty", "operate"}
BY DEF Call, Question, Order, IsOrder, Asks

LEMMA MessageFields ==
    ASSUME NEW m \in Message
    PROVE  /\ WellFormed(m)
           /\ IsSignal(m) => m.gen \in Nat /\ m.tablet \in Tablet
           /\ IsAnswer(m) => m.call \in Call
           /\ m.kind = "profileChanged" => m.profile \in Profile
           /\ m.kind = "reply" => m.value \in Answers(m.call)
           /\ Owner(m) => m.owned \in BOOLEAN
           /\ m.kind \in {"ownerChanged", "tabletAdded", "tabletRemoved", "profileChanged",
                          "reply", "error"}
<1>1. CASE m \in [kind : {"ownerChanged"}, owned : BOOLEAN]
  BY <1>1 DEF WellFormed, IsSignal, IsAnswer, Owner
<1>2. CASE m \in [kind : {"tabletAdded", "tabletRemoved"}, gen : Nat, tablet : Tablet]
  BY <1>2 DEF WellFormed, IsSignal, IsAnswer, Owner
<1>3. CASE m \in [kind : {"profileChanged"}, gen : Nat, tablet : Tablet, profile : Profile]
  BY <1>3 DEF WellFormed, IsSignal, IsAnswer, Owner
<1>4. CASE m \in [kind : {"error"}, call : Call]
  BY <1>4 DEF WellFormed, IsSignal, IsAnswer, Owner
<1>5. CASE m \in {n \in [kind : {"reply"}, call : Call,
                         value : BOOLEAN \cup Modes \cup SUBSET Tablet] : n.value \in Answers(n.call)}
  <2>1. m.kind = "reply" /\ m.call \in Call /\ m.value \in Answers(m.call)
    BY <1>5
  <2> QED BY <2>1 DEF WellFormed, IsSignal, IsAnswer, Owner
<1> QED BY <1>1, <1>2, <1>3, <1>4, <1>5 DEF Message

LEMMA SignalTypes ==
    ASSUME TypeOK, NEW t \in Tablet
    PROVE  /\ \A p \in Profile : ProfileSignal(t, p) \in Message
           /\ \A kind \in {"tabletAdded", "tabletRemoved"} : TabletSignal(kind, t) \in Message
<1>1. listening \in Nat
  BY DEF TypeOK
<1> QED BY <1>1 DEF ProfileSignal, TabletSignal, Message

LEMMA OwnerTypes ==
    \A b \in BOOLEAN : [kind |-> "ownerChanged", owned |-> b] \in Message
BY DEF Message

LEMMA AnswerTypes ==
    ASSUME NEW c \in Call
    PROVE  /\ [kind |-> "error", call |-> c] \in Message
           /\ \A v \in Answers(c) : [kind |-> "reply", call |-> c, value |-> v] \in Message
<1>1. Answers(c) \subseteq BOOLEAN \cup Modes \cup SUBSET Tablet
  BY DEF Answers
<1>2. ASSUME NEW v \in Answers(c)
      PROVE  [kind |-> "reply", call |-> c, value |-> v] \in Message
  <2> DEFINE m == [kind |-> "reply", call |-> c, value |-> v]
  <2>1. m \in [kind : {"reply"}, call : Call, value : BOOLEAN \cup Modes \cup SUBSET Tablet]
    BY <1>1
  <2>2. m.value \in Answers(m.call)
    OBVIOUS
  <2>3. m \in {n \in [kind : {"reply"}, call : Call,
                         value : BOOLEAN \cup Modes \cup SUBSET Tablet] : n.value \in Answers(n.call)}
    BY <2>1, <2>2
  <2> HIDE DEF m
  <2>4. m \in Message
    BY <2>3 DEF Message
  <2> QED BY <2>4 DEF m
<1>3. [kind |-> "error", call |-> c] \in Message
  BY DEF Message
<1> QED BY <1>2, <1>3

\* The operations and their targets, written out.
LEMMA TargetsFacts ==
    /\ Operation = {"setProfile", "setStylusMode", "setRotation", "setTouch"}
    /\ Targets["setProfile"] = <<"profile">>
    /\ Targets["setStylusMode"] = <<"stylus", "eraser">>
    /\ Targets["setRotation"] = <<"stylus", "eraser", "touch">>
    /\ Targets["setTouch"] = <<"touch">>
BY DEF Operation, Targets

LEMMA TargetSets ==
    /\ ToSet(Targets["setProfile"]) = {"profile"}
    /\ ToSet(Targets["setStylusMode"]) = {"stylus", "eraser"}
    /\ ToSet(Targets["setRotation"]) = {"stylus", "eraser", "touch"}
    /\ ToSet(Targets["setTouch"]) = {"touch"}
<1>1. \A a : ToSet(<<a>>) = {a}
  BY DEF ToSet
<1>2. \A a, b : ToSet(<<a, b>>) = {a, b}
  BY DEF ToSet
<1>3. \A a, b, c : ToSet(<<a, b, c>>) = {a, b, c}
  BY DEF ToSet
<1> QED BY <1>1, <1>2, <1>3, TargetsFacts

-----------------------------------------------------------------------------
(* Sequences that grow: what was there stays where it was.                 *)

Grows(r, s) ==
    /\ \A i \in DOMAIN s : i \in Nat /\ i >= 1 /\ i \in DOMAIN r /\ r[i] = s[i]
    /\ \A i \in DOMAIN r : i \in Nat /\ i >= 1
    /\ \A i \in DOMAIN s, j \in DOMAIN r \ DOMAIN s : i < j

Added(r, s) == DOMAIN r \ DOMAIN s

LEMMA LongerGrows ==
    ASSUME NEW r, NEW s, NEW n, NEW e, LongerBy(r, s, n, e)
    PROVE  /\ Grows(r, s)
           /\ \A j \in Added(r, s) : j > n /\ j - n \in DOMAIN e /\ r[j] = e[j - n]
           /\ \A k \in DOMAIN e : k \in Nat /\ k >= 1 => n + k \in Added(r, s) /\ r[n + k] = e[k]
<1>1. \A j \in Added(r, s) : j > n /\ j \in Nat
  BY DEF LongerBy, Added
<1>2. \A i \in DOMAIN s, j \in Added(r, s) : i < j
  BY <1>1 DEF LongerBy
<1>3. \A k \in DOMAIN e : k \in Nat /\ k >= 1 => n + k \in Added(r, s) /\ r[n + k] = e[k]
  <2> SUFFICES ASSUME NEW k \in DOMAIN e, k \in Nat, k >= 1
               PROVE  n + k \in Added(r, s) /\ r[n + k] = e[k]
    OBVIOUS
  <2>1. n \in Nat /\ n + k > n /\ n + k \in DOMAIN r /\ r[n + k] = e[k]
    BY DEF LongerBy
  <2>2. n + k \notin DOMAIN s
    BY <2>1 DEF LongerBy
  <2> QED BY <2>1, <2>2 DEF Added
<1> QED BY <1>1, <1>2, <1>3 DEF Grows, LongerBy, Added

\* r is s and then m.
GrowsByOne(r, s, m) ==
    /\ Grows(r, s)
    /\ \A j \in Added(r, s) : r[j] = m
    /\ \E j \in Added(r, s) : r[j] = m
    /\ \A i, j \in Added(r, s) : i = j

LEMMA AppendGrows ==
    ASSUME NEW S, NEW s \in Seq(S), NEW m \in S
    PROVE  Append(s, m) \in Seq(S) /\ GrowsByOne(Append(s, m), s, m)
<1> DEFINE r == Append(s, m)
           n == Len(s)
           e == <<m>>
<1>1. r \in Seq(S) /\ LongerBy(r, s, n, e)
  BY AppendFacts
<1>2. \A k \in DOMAIN e : k \in Nat /\ k >= 1 /\ e[k] = m
  OBVIOUS
<1>3. 1 \in DOMAIN e
  OBVIOUS
<1> HIDE DEF r, n, e
<1>4. /\ Grows(r, s)
      /\ \A j \in Added(r, s) : j > n /\ j - n \in DOMAIN e /\ r[j] = e[j - n]
      /\ \A k \in DOMAIN e : k \in Nat /\ k >= 1 => n + k \in Added(r, s) /\ r[n + k] = e[k]
  BY <1>1, LongerGrows
<1>5. /\ \A j \in Added(r, s) : r[j] = m
      /\ \E j \in Added(r, s) : r[j] = m
  BY <1>2, <1>3, <1>4
<1>6. \A k \in DOMAIN e : k = 1
  BY DEF e
<1>7. \A i, j \in Added(r, s) : i = j
  <2>1. n \in Nat
    BY DEF n
  <2>2. \A j \in Added(r, s) : j \in Nat /\ j - n = 1
    BY <1>4, <1>6 DEF Added, Grows
  <2> QED BY <2>1, <2>2
<1> QED BY <1>1, <1>4, <1>5, <1>7 DEF r, GrowsByOne

\* r is s and then e.
GrowsBy(r, s, e) ==
    /\ Grows(r, s)
    /\ \A j \in Added(r, s) : j > Len(s) /\ j - Len(s) \in DOMAIN e /\ r[j] = e[j - Len(s)]
    /\ \A k \in DOMAIN e : Len(s) + k \in Added(r, s) /\ r[Len(s) + k] = e[k]

LEMMA ConcatGrows ==
    ASSUME NEW S, NEW s \in Seq(S), NEW e \in Seq(S)
    PROVE  s \o e \in Seq(S) /\ GrowsBy(s \o e, s, e)
<1> DEFINE r == s \o e
           n == Len(s)
<1>1. r \in Seq(S) /\ LongerBy(r, s, n, e)
  BY ConcatFacts
<1>2. \A k \in DOMAIN e : k \in Nat /\ k >= 1
  OBVIOUS
<1> HIDE DEF r, n
<1>3. /\ Grows(r, s)
      /\ \A j \in Added(r, s) : j > n /\ j - n \in DOMAIN e /\ r[j] = e[j - n]
      /\ \A k \in DOMAIN e : k \in Nat /\ k >= 1 => n + k \in Added(r, s) /\ r[n + k] = e[k]
  BY <1>1, LongerGrows
<1>4. GrowsBy(r, s, e)
  BY <1>2, <1>3 DEF GrowsBy, n
<1> QED BY <1>1, <1>4 DEF r

\* The signals of the service.
LEMMA SignalsGrow ==
    ASSUME inbox \in Seq(Message), NEW ms \in Seq(Message), Signals(ms)
    PROVE  /\ inbox' \in Seq(Message) /\ Grows(inbox', inbox)
           /\ \A j \in Added(inbox', inbox) : listening # 0 /\ \E k \in DOMAIN ms : inbox'[j] = ms[k]
           /\ listening # 0 => \A k \in DOMAIN ms : \E j \in Added(inbox', inbox) : inbox'[j] = ms[k]
<1>1. CASE listening = 0
  <2>1. inbox' = inbox
    BY <1>1 DEF Signals
  <2>2. Grows(inbox, inbox) /\ Added(inbox, inbox) = {}
    BY DEF Grows, Added
  <2> QED BY <1>1, <2>1, <2>2
<1>2. CASE listening # 0
  <2>1. inbox' = inbox \o ms
    BY <1>2 DEF Signals
  <2>2. inbox \o ms \in Seq(Message) /\ GrowsBy(inbox \o ms, inbox, ms)
    BY ConcatGrows
  <2>3. inbox' \in Seq(Message) /\ GrowsBy(inbox', inbox, ms)
    BY <2>1, <2>2
  <2> QED BY <1>2, <2>3 DEF GrowsBy
<1> QED BY <1>1, <1>2

-----------------------------------------------------------------------------
(* The steps of the daemon, by what they add to the messages under way.    *)

New(j) == j \in Added(inbox', inbox)

\* A signal for whose rules the bus knows, about t.
Signal(m, t) == IsSignal(m) /\ m.gen = listening /\ listening # 0 /\ m.tablet = t

AppletIdle == UNCHANGED <<listening, calls, modelVars, op, timeouts>>

LEMMA AsInProfileType == AsInProfile \in Modes
BY DEF AsInProfile, Modes, Tool, Mode, Switch

LEMMA IdleTyped ==
    ASSUME Typed, AppletIdle,
           up' \in BOOLEAN, present' \subseteq Tablet, heard' \subseteq Tablet,
           drifted' \subseteq Tablet, profile' \in [Tablet -> Profile \cup {NoProfile}],
           mode' \in [Tablet -> Modes], inbox' \in Seq(Message)
    PROVE  Typed'
<1>1. \A i \in DOMAIN inbox' : inbox'[i] \in Message
  OBVIOUS
<1>2. \A i \in DOMAIN inbox' : WellFormed(inbox'[i])
  BY <1>1, MessageFields
<1> QED BY <1>2 DEF Typed, TypeOK, AppletIdle, modelVars, Op

LEMMA OwnerSays ==
    ASSUME Typed, NEW b \in BOOLEAN,
           inbox' = Append(inbox, [kind |-> "ownerChanged", owned |-> b])
    PROVE  /\ inbox' \in Seq(Message) /\ Grows(inbox', inbox)
           /\ \A j : New(j) => Owner(inbox'[j]) /\ inbox'[j].owned = b
           /\ \E j : New(j)
<1> DEFINE m == [kind |-> "ownerChanged", owned |-> b]
<1>1. m \in Message /\ Owner(m) /\ m.owned = b
  BY OwnerTypes DEF Owner
<1>2. inbox' = Append(inbox, m) /\ inbox \in Seq(Message)
  BY DEF Typed
<1> HIDE DEF m
<1>3. inbox' \in Seq(Message) /\ GrowsByOne(inbox', inbox, m)
  BY <1>1, <1>2, AppendGrows
<1> QED BY <1>1, <1>3 DEF New, GrowsByOne

LEMMA StartsEffect ==
    ASSUME Typed, ServiceStarts
    PROVE  /\ Typed' /\ AppletIdle /\ up' = TRUE
           /\ UNCHANGED <<present, profile, mode, heard, drifted>>
           /\ Grows(inbox', inbox)
           /\ \A j : New(j) => Owner(inbox'[j]) /\ inbox'[j].owned = up'
           /\ \E j : New(j)
<1>1. /\ up' = TRUE /\ AppletIdle
      /\ UNCHANGED <<present, profile, mode, heard, drifted>>
      /\ inbox' = Append(inbox, [kind |-> "ownerChanged", owned |-> TRUE])
  BY DEF ServiceStarts, ServiceChange, AppletIdle
<1>2. /\ inbox' \in Seq(Message) /\ Grows(inbox', inbox)
      /\ \A j : New(j) => Owner(inbox'[j]) /\ inbox'[j].owned = TRUE
      /\ \E j : New(j)
  BY <1>1, OwnerSays
<1>3. Typed'
  BY <1>1, <1>2, IdleTyped DEF Typed, TypeOK
<1> QED BY <1>1, <1>2, <1>3

LEMMA StopsEffect ==
    ASSUME Typed, ServiceStops
    PROVE  /\ Typed' /\ AppletIdle /\ up' = FALSE /\ present' = {}
           /\ UNCHANGED <<mode, heard, drifted>>
           /\ Grows(inbox', inbox)
           /\ \A j : New(j) => Owner(inbox'[j]) /\ inbox'[j].owned = up'
           /\ \E j : New(j)
<1>1. /\ up' = FALSE /\ AppletIdle /\ present' = {}
      /\ profile' = [t \in Tablet |-> NoProfile]
      /\ UNCHANGED <<mode, heard, drifted>>
      /\ inbox' = Append(inbox, [kind |-> "ownerChanged", owned |-> FALSE])
  BY DEF ServiceStops, ServiceChange, AppletIdle
<1>2. /\ inbox' \in Seq(Message) /\ Grows(inbox', inbox)
      /\ \A j : New(j) => Owner(inbox'[j]) /\ inbox'[j].owned = FALSE
      /\ \E j : New(j)
  BY <1>1, OwnerSays
<1>3. Typed'
  BY <1>1, <1>2, IdleTyped DEF Typed, TypeOK
<1> QED BY <1>1, <1>2, <1>3

LEMMA AppearsEffect ==
    ASSUME Typed, NEW t \in Tablet, NEW p \in Profile, TabletAppears(t, p)
    PROVE  /\ Typed' /\ AppletIdle /\ UNCHANGED up
           /\ up /\ t \notin present /\ present' = present \cup {t}
           /\ heard' = heard \cup {t} /\ drifted' = drifted \ {t}
           /\ mode' = [mode EXCEPT ![t] = AsInProfile]
           /\ Grows(inbox', inbox)
           /\ \A j : New(j) => Signal(inbox'[j], t) /\ inbox'[j].kind # "tabletRemoved"
           /\ listening # 0 => \E j : New(j) /\ inbox'[j].kind = "tabletAdded"
<1> DEFINE one == ProfileSignal(t, p)
           two == TabletSignal("tabletAdded", t)
<1>1. /\ one \in Message /\ two \in Message
      /\ listening # 0 => Signal(one, t) /\ Signal(two, t)
      /\ one.kind = "profileChanged" /\ two.kind = "tabletAdded"
  BY SignalTypes DEF Typed, Signal, ProfileSignal, TabletSignal, IsSignal
<1>2. /\ AppletIdle /\ UNCHANGED up
      /\ up /\ t \notin present /\ present' = present \cup {t}
      /\ heard' = heard \cup {t} /\ drifted' = drifted \ {t}
      /\ profile' = [profile EXCEPT ![t] = p]
      /\ mode' = [mode EXCEPT ![t] = AsInProfile]
      /\ Signals(<<one, two>>)
  BY DEF TabletAppears, ServiceChange, AppletIdle
<1> HIDE DEF one, two
<1> DEFINE ms == <<one, two>>
<1>3. ms \in Seq(Message) /\ DOMAIN ms = {1, 2} /\ ms[1] = one /\ ms[2] = two /\ Signals(ms)
  BY <1>1, <1>2
<1> HIDE DEF ms
<1>4. /\ inbox' \in Seq(Message) /\ Grows(inbox', inbox)
      /\ \A j \in Added(inbox', inbox) : listening # 0 /\ \E k \in DOMAIN ms : inbox'[j] = ms[k]
      /\ listening # 0 => \A k \in DOMAIN ms : \E j \in Added(inbox', inbox) : inbox'[j] = ms[k]
  BY <1>3, SignalsGrow DEF Typed
<1>5. Typed'
  BY <1>2, <1>4, IdleTyped, AsInProfileType DEF Typed, TypeOK
<1>6. \A j : New(j) => Signal(inbox'[j], t) /\ inbox'[j].kind # "tabletRemoved"
  BY <1>1, <1>3, <1>4 DEF New
<1>7. listening # 0 => \E j : New(j) /\ inbox'[j].kind = "tabletAdded"
  BY <1>1, <1>3, <1>4 DEF New
<1> QED BY <1>2, <1>4, <1>5, <1>6, <1>7

LEMMA OneSignal ==
    ASSUME Typed, NEW m \in Message, NEW t, listening # 0 => Signal(m, t), Signals(<<m>>)
    PROVE  /\ inbox' \in Seq(Message) /\ Grows(inbox', inbox)
           /\ \A j : New(j) => Signal(inbox'[j], t) /\ inbox'[j] = m
           /\ listening # 0 => \E j : New(j)
<1> DEFINE ms == <<m>>
<1>1. ms \in Seq(Message) /\ DOMAIN ms = {1} /\ ms[1] = m /\ Signals(ms)
  OBVIOUS
<1> HIDE DEF ms
<1>2. /\ inbox' \in Seq(Message) /\ Grows(inbox', inbox)
      /\ \A j \in Added(inbox', inbox) : listening # 0 /\ \E k \in DOMAIN ms : inbox'[j] = ms[k]
      /\ listening # 0 => \A k \in DOMAIN ms : \E j \in Added(inbox', inbox) : inbox'[j] = ms[k]
  BY <1>1, SignalsGrow DEF Typed
<1> QED BY <1>1, <1>2 DEF New

LEMMA DisappearsEffect ==
    ASSUME Typed, NEW t \in Tablet, TabletDisappears(t)
    PROVE  /\ Typed' /\ AppletIdle
           /\ t \in present /\ present' = present \ {t}
           /\ UNCHANGED <<up, mode, heard, drifted>>
           /\ Grows(inbox', inbox)
           /\ \A j : New(j) => Signal(inbox'[j], t) /\ inbox'[j].kind = "tabletRemoved"
           /\ listening # 0 => \E j : New(j)
<1> DEFINE m == TabletSignal("tabletRemoved", t)
<1>1. m \in Message /\ (listening # 0 => Signal(m, t)) /\ m.kind = "tabletRemoved"
  BY SignalTypes DEF Typed, Signal, TabletSignal, IsSignal
<1>2. /\ AppletIdle
      /\ t \in present /\ present' = present \ {t}
      /\ UNCHANGED <<up, mode, heard, drifted>>
      /\ profile' = [profile EXCEPT ![t] = NoProfile]
      /\ Signals(<<m>>)
  BY DEF TabletDisappears, ServiceChange, AppletIdle
<1> HIDE DEF m
<1>3. /\ inbox' \in Seq(Message) /\ Grows(inbox', inbox)
      /\ \A j : New(j) => Signal(inbox'[j], t) /\ inbox'[j] = m
      /\ listening # 0 => \E j : New(j)
  BY <1>1, <1>2, OneSignal
<1>4. Typed'
  BY <1>2, <1>3, IdleTyped DEF Typed, TypeOK
<1> QED BY <1>1, <1>2, <1>3, <1>4

LEMMA SetsProfileTypes ==
    ASSUME TypeOK, NEW t \in Tablet, NEW p \in Profile, SetsProfile(t, p)
    PROVE  /\ profile' \in [Tablet -> Profile \cup {NoProfile}]
           /\ mode' \in [Tablet -> Modes] /\ mode' = [mode EXCEPT ![t] = AsInProfile]
           /\ drifted' \subseteq Tablet
           /\ drifted \subseteq drifted' /\ drifted' \subseteq drifted \cup {t}
           /\ t \notin drifted' => mode' = mode
BY AsInProfileType DEF TypeOK, SetsProfile

LEMMA ProfileChangesEffect ==
    ASSUME Typed, NEW t \in Tablet, NEW p \in Profile, ProfileChanges(t, p)
    PROVE  /\ Typed' /\ AppletIdle
           /\ t \in present /\ UNCHANGED <<up, present, heard>>
           /\ drifted \subseteq drifted'
           /\ t \notin drifted' => mode' = mode
           /\ \A u \in Tablet \ {t} : mode'[u] = mode[u]
           /\ Grows(inbox', inbox)
           /\ \A j : New(j) => Signal(inbox'[j], t) /\ inbox'[j].kind = "profileChanged"
<1> DEFINE m == ProfileSignal(t, p)
<1>1. m \in Message /\ (listening # 0 => Signal(m, t)) /\ m.kind = "profileChanged"
  BY SignalTypes DEF Typed, Signal, ProfileSignal, IsSignal
<1>2. /\ AppletIdle
      /\ t \in present /\ UNCHANGED <<up, present, heard>>
      /\ SetsProfile(t, p)
      /\ Signals(<<m>>)
  BY DEF ProfileChanges, ServiceChange, AppletIdle
<1> HIDE DEF m
<1>3. /\ inbox' \in Seq(Message) /\ Grows(inbox', inbox)
      /\ \A j : New(j) => Signal(inbox'[j], t) /\ inbox'[j] = m
  BY <1>1, <1>2, OneSignal
<1>4. /\ profile' \in [Tablet -> Profile \cup {NoProfile}]
      /\ mode' \in [Tablet -> Modes] /\ mode' = [mode EXCEPT ![t] = AsInProfile]
      /\ drifted' \subseteq Tablet /\ drifted \subseteq drifted'
      /\ t \notin drifted' => mode' = mode
  BY <1>2, SetsProfileTypes DEF Typed
<1>5. Typed'
  BY <1>2, <1>3, <1>4, IdleTyped DEF Typed, TypeOK
<1>6. \A u \in Tablet \ {t} : mode'[u] = mode[u]
  BY <1>4 DEF Typed, TypeOK
<1> QED BY <1>1, <1>2, <1>3, <1>4, <1>5, <1>6

-----------------------------------------------------------------------------
(* The steps that take a call: what is left of the calls, what is answered. *)

\* The first call is answered with m.
Answered(m) ==
    /\ TailOf(calls', calls) /\ calls' \in Seq(Call)
    /\ inbox' \in Seq(Message) /\ GrowsByOne(inbox', inbox, m)
    /\ calls[1] \in Call /\ IsAnswer(m) /\ m.call = calls[1]

LEMMA CallTaken ==
    ASSUME Typed, calls # <<>>
    PROVE  /\ Tail(calls) \in Seq(Call) /\ TailOf(Tail(calls), calls)
           /\ Head(calls) = calls[1] /\ calls[1] \in Call
<1>1. calls \in Seq(Call)
  BY DEF Typed, TypeOK
<1> QED BY <1>1, TailFacts

LEMMA ReplyEffect ==
    ASSUME Typed, calls # <<>>, calls' = Tail(calls), NEW v \in Answers(Head(calls)),
           Reply(Head(calls), v)
    PROVE  Answered([kind |-> "reply", call |-> calls[1], value |-> v])
<1> DEFINE m == [kind |-> "reply", call |-> calls[1], value |-> v]
<1>1. m \in Message /\ inbox' = Append(inbox, m) /\ inbox \in Seq(Message)
  BY CallTaken, AnswerTypes DEF Reply, Typed
<1>2. IsAnswer(m) /\ m.call = calls[1]
  BY DEF IsAnswer
<1> HIDE DEF m
<1>3. inbox' \in Seq(Message) /\ GrowsByOne(inbox', inbox, m)
  BY <1>1, AppendGrows
<1>4. Answered(m)
  BY <1>2, <1>3, CallTaken DEF Answered
<1> QED BY <1>4 DEF m

LEMMA ErrorEffect ==
    ASSUME Typed, calls # <<>>, calls' = Tail(calls), Error(Head(calls))
    PROVE  Answered([kind |-> "error", call |-> calls[1]])
<1> DEFINE m == [kind |-> "error", call |-> calls[1]]
<1>1. m \in Message /\ inbox' = Append(inbox, m) /\ inbox \in Seq(Message)
  BY CallTaken, AnswerTypes DEF Error, Typed
<1>2. IsAnswer(m) /\ m.call = calls[1]
  BY DEF IsAnswer
<1> HIDE DEF m
<1>3. inbox' \in Seq(Message) /\ GrowsByOne(inbox', inbox, m)
  BY <1>1, AppendGrows
<1>4. Answered(m)
  BY <1>2, <1>3, CallTaken DEF Answered
<1> QED BY <1>4 DEF m

LEMMA ServedTyped ==
    ASSUME Typed, UNCHANGED <<up, present, heard, modelVars>>,
           listening' \in 0..generation, drifted' \subseteq Tablet,
           profile' \in [Tablet -> Profile \cup {NoProfile}],
           mode' \in [Tablet -> Modes], calls' \in Seq(Call), inbox' \in Seq(Message),
           op' \in Op \cup {NoOp}
    PROVE  Typed'
<1>1. \A i \in DOMAIN inbox' : inbox'[i] \in Message
  OBVIOUS
<1>2. \A i \in DOMAIN inbox' : WellFormed(inbox'[i])
  BY <1>1, MessageFields
<1> QED BY <1>2 DEF Typed, TypeOK, modelVars, Op

BusIdle == UNCHANGED <<serviceVars, modelVars, op, countVars>>

LEMMA MatchEffect ==
    ASSUME Typed, Numbered, ServeBus, IsMatch(Head(calls))
    PROVE  /\ Typed' /\ BusIdle /\ UNCHANGED inbox
           /\ TailOf(calls', calls) /\ IsMatch(calls[1]) /\ listening' = calls[1].gen
<1>1. /\ calls # <<>> /\ calls' = Tail(calls) /\ BusIdle
      /\ listening' = Head(calls).gen /\ UNCHANGED inbox
  BY DEF ServeBus, BusIdle, IsMatch
<1>2. /\ TailOf(calls', calls) /\ Head(calls) = calls[1] /\ 1 \in DOMAIN calls
      /\ calls' \in Seq(Call) /\ calls[1] \in Call
  BY <1>1, CallTaken DEF TailOf
<1>3. calls[1].gen \in 0..generation
  <2>1. calls[1].gen \in Nat
    BY <1>2, CallFields DEF IsMatch, IsOrder
  <2>2. calls[1].gen <= generation
    BY <1>2 DEF IsMatch, IsOrder, Numbered, NumbersOf
  <2> QED BY <2>1, <2>2 DEF Typed, TypeOK
<1>4. Typed'
  BY <1>1, <1>2, <1>3, ServedTyped DEF Typed, TypeOK, BusIdle, serviceVars
<1> QED BY <1>1, <1>2, <1>4

LEMMA NameEffect ==
    ASSUME Typed, ServeBus, ~IsMatch(Head(calls))
    PROVE  /\ Typed' /\ BusIdle /\ UNCHANGED listening
           /\ calls[1].kind = "nameHasOwner"
           /\ Answered([kind |-> "reply", call |-> calls[1], value |-> up])
<1>1. /\ calls # <<>> /\ calls' = Tail(calls) /\ BusIdle
      /\ Head(calls).kind = "nameHasOwner" /\ Reply(Head(calls), up) /\ UNCHANGED listening
  BY DEF ServeBus, BusIdle, IsMatch
<1>2. up \in Answers(Head(calls))
  BY <1>1 DEF Answers, Typed, TypeOK
<1>3. Answered([kind |-> "reply", call |-> calls[1], value |-> up])
  BY <1>1, <1>2, ReplyEffect
<1>4. Typed'
  BY <1>1, <1>3, ServedTyped DEF Typed, TypeOK, BusIdle, serviceVars, Answered
<1> QED BY <1>1, <1>3, <1>4, CallTaken

\* getProfile becomes getProperty, at its place.
LEMMA GetProfileEffect ==
    ASSUME Typed, ServeGetProfile
    PROVE  /\ Typed' /\ BusIdle /\ UNCHANGED <<listening, inbox>>
           /\ DOMAIN calls' = DOMAIN calls /\ 1 \in DOMAIN calls
           /\ \A i \in DOMAIN calls : i # 1 => calls'[i] = calls[i]
           /\ calls[1].kind = "getProfile"
           /\ calls'[1].kind = "getProperty" /\ calls'[1].tablet = calls[1].tablet
           /\ calls'[1].gen = calls[1].gen /\ calls'[1].epoch = calls[1].epoch
<1> DEFINE c == Head(calls)
           d == [kind |-> "getProperty", tablet |-> c.tablet, gen |-> c.gen,
                 epoch |-> c.epoch, profile |-> profile[c.tablet]]
<1>1. /\ calls # <<>> /\ BusIdle /\ UNCHANGED <<listening, inbox>>
      /\ c.kind = "getProfile" /\ calls' = <<d>> \o Tail(calls)
  BY DEF ServeGetProfile, BusIdle
<1>2. /\ Tail(calls) \in Seq(Call) /\ TailOf(Tail(calls), calls)
      /\ c = calls[1] /\ c \in Call /\ 1 \in DOMAIN calls
  BY <1>1, CallTaken DEF TailOf
<1>3. d \in Call
  <2>1. c.gen \in Nat /\ c.tablet \in Tablet /\ c.epoch \in Nat
    BY <1>1, <1>2, CallFields DEF IsOrder, Asks
  <2>2. profile[c.tablet] \in Profile \cup {NoProfile}
    BY <2>1 DEF Typed, TypeOK
  <2>3. d \in Question
    BY <2>1, <2>2 DEF Question
  <2> QED BY <2>3 DEF Call
<1>4. /\ d.kind = "getProperty" /\ d.tablet = c.tablet /\ d.gen = c.gen /\ d.epoch = c.epoch
  OBVIOUS
<1> HIDE DEF c, d
<1>5. <<d>> \in Seq(Call) /\ Len(<<d>>) = 1 /\ <<d>>[1] = d /\ DOMAIN <<d>> = {1}
  BY <1>3
<1> DEFINE one == <<d>>
           rest == Tail(calls)
<1>6. /\ calls \in Seq(Call) /\ Len(rest) = Len(calls) - 1 /\ Len(calls) \in Nat
      /\ \A i \in 1..Len(rest) : rest[i] = calls[i + 1]
      /\ DOMAIN calls = 1..Len(calls) /\ DOMAIN rest = 1..Len(rest) /\ Len(calls) >= 1
  <2>1. calls \in Seq(Call)
    BY DEF Typed, TypeOK
  <2>2. Len(calls) \in Nat /\ DOMAIN calls = 1..Len(calls)
    BY <2>1
  <2> QED BY <1>1, <1>2, <2>1, <2>2, HeadTailProperties
<1>7. /\ one \in Seq(Call) /\ rest \in Seq(Call) /\ calls' = one \o rest
      /\ Len(one) = 1 /\ one[1] = d /\ DOMAIN one = {1}
  BY <1>1, <1>2, <1>5
<1> HIDE DEF one, rest
<1>8. /\ calls' \in Seq(Call) /\ Len(calls') = Len(one) + Len(rest)
      /\ \A i \in 1..(Len(one) + Len(rest)) :
             calls'[i] = IF i <= Len(one) THEN one[i] ELSE rest[i - Len(one)]
  BY <1>7, ConcatProperties
<1>9. DOMAIN calls' = DOMAIN calls
  <2>1. DOMAIN calls' = 1..Len(calls')
    BY <1>8
  <2>2. Len(calls') = Len(calls)
    BY <1>6, <1>7, <1>8
  <2> QED BY <1>6, <2>1, <2>2
<1>10. calls'[1] = d /\ \A i \in DOMAIN calls : i # 1 => calls'[i] = calls[i]
  <2>1. calls'[1] = d
    BY <1>6, <1>7, <1>8
  <2>2. ASSUME NEW i \in DOMAIN calls, i # 1
        PROVE  calls'[i] = calls[i]
    <3>1. i \in 1..(Len(one) + Len(rest)) /\ ~(i <= Len(one))
      BY <1>6, <1>7, <2>2
    <3>2. i - 1 \in 1..Len(rest) /\ (i - 1) + 1 = i
      BY <1>6, <2>2
    <3>3. calls'[i] = rest[i - 1]
      BY <1>7, <1>8, <3>1
    <3> QED BY <1>6, <3>2, <3>3
  <2> QED BY <2>1, <2>2
<1>11. Typed'
  BY <1>1, <1>8, ServedTyped DEF Typed, TypeOK, BusIdle, serviceVars
<1> QED BY <1>1, <1>2, <1>4, <1>9, <1>10, <1>11

\* isTouchSensor, getTabletList and getProperty.
LEMMA ReadEffect ==
    ASSUME Typed, ServeRead
    PROVE  /\ Typed' /\ BusIdle /\ UNCHANGED listening /\ up
           /\ \E v \in Answers(calls[1]) :
                  /\ Answered([kind |-> "reply", call |-> calls[1], value |-> v])
                  /\ \/ calls[1].kind = "getTabletList" /\ v = present
                     \/ /\ calls[1].kind = "isTouchSensor" /\ v \in BOOLEAN
                        /\ v <=> calls[1].tablet \in present \cap Sensor
                     \/ calls[1].kind = "getProperty" /\ v = mode[calls[1].tablet]
<1>1. calls # <<>> /\ calls' = Tail(calls) /\ BusIdle /\ UNCHANGED listening /\ up
  BY DEF ServeRead, BusIdle
<1>2. Head(calls) = calls[1] /\ calls[1] \in Call
  BY <1>1, CallTaken
<1>3. \E v : /\ Reply(Head(calls), v) /\ v \in Answers(Head(calls))
             /\ \/ calls[1].kind = "getTabletList" /\ v = present
                \/ /\ calls[1].kind = "isTouchSensor" /\ v \in BOOLEAN
                   /\ v <=> calls[1].tablet \in present \cap Sensor
                \/ calls[1].kind = "getProperty" /\ v = mode[calls[1].tablet]
  <2>1. CASE Head(calls).kind = "getTabletList" /\ Reply(Head(calls), present)
    BY <1>2, <2>1 DEF Answers, Typed, TypeOK
  <2>2. CASE /\ Head(calls).kind = "isTouchSensor"
             /\ Reply(Head(calls), Head(calls).tablet \in present \cap Sensor)
    <3> DEFINE b == Head(calls).tablet \in present \cap Sensor
    <3>1. Answers(Head(calls)) = BOOLEAN
      BY <2>2 DEF Answers
    <3>2. b \in BOOLEAN
      OBVIOUS
    <3>3. Head(calls).kind = "isTouchSensor" /\ Reply(Head(calls), b)
      BY <2>2
    <3>4. b <=> calls[1].tablet \in present \cap Sensor
      BY <1>2
    <3> HIDE DEF b
    <3> QED BY <1>2, <3>1, <3>2, <3>3, <3>4
  <2>3. CASE Head(calls).kind = "getProperty" /\ Reply(Head(calls), mode[Head(calls).tablet])
    <3>1. calls[1].tablet \in Tablet
      BY <1>2, <2>3, CallFields DEF Asks
    <3>2. mode[calls[1].tablet] \in Modes
      BY <3>1 DEF Typed, TypeOK
    <3> QED BY <1>2, <2>3, <3>2 DEF Answers
  <2> QED BY <2>1, <2>2, <2>3 DEF ServeRead
<1>4. PICK v : /\ Reply(Head(calls), v) /\ v \in Answers(Head(calls))
               /\ \/ calls[1].kind = "getTabletList" /\ v = present
                  \/ /\ calls[1].kind = "isTouchSensor" /\ v \in BOOLEAN
                     /\ v <=> calls[1].tablet \in present \cap Sensor
                  \/ calls[1].kind = "getProperty" /\ v = mode[calls[1].tablet]
  BY <1>3
<1>5. Answered([kind |-> "reply", call |-> calls[1], value |-> v])
  BY <1>1, <1>4, ReplyEffect
<1>6. Typed'
  BY <1>1, <1>5, ServedTyped DEF Typed, TypeOK, BusIdle, serviceVars, Answered
<1> QED BY <1>1, <1>2, <1>4, <1>5, <1>6

LEMMA NobodyEffect ==
    ASSUME Typed, ServeNobody
    PROVE  /\ Typed' /\ BusIdle /\ UNCHANGED listening /\ ~up
           /\ ForDaemon(calls[1])
           /\ Answered([kind |-> "error", call |-> calls[1]])
<1>1. /\ calls # <<>> /\ calls' = Tail(calls) /\ BusIdle /\ UNCHANGED listening /\ ~up
      /\ ForDaemon(Head(calls)) /\ Error(Head(calls))
  BY DEF ServeNobody, BusIdle
<1>2. Answered([kind |-> "error", call |-> calls[1]])
  BY <1>1, ErrorEffect
<1>3. Typed'
  BY <1>1, <1>2, ServedTyped DEF Typed, TypeOK, BusIdle, serviceVars, Answered
<1> QED BY <1>1, <1>2, <1>3, CallTaken

\* What an order does to its tablet.
LEMMA ObeysTypes ==
    ASSUME TypeOK, NEW c \in Order, Obeys(c)
    PROVE  /\ profile' \in [Tablet -> Profile \cup {NoProfile}]
           /\ mode' \in [Tablet -> Modes]
           /\ drifted' \subseteq Tablet /\ drifted \subseteq drifted'
           /\ \A u \in Tablet : u # c.tablet => mode'[u] = mode[u]
           /\ c.operation \in {"setProfile", "setRotation"} =>
                  (c.tablet \notin drifted' => mode' = mode)
           /\ c.operation \in {"setStylusMode", "setTouch"} =>
                  /\ c.target \in Tool
                  /\ mode'[c.tablet] = [mode[c.tablet] EXCEPT ![c.target] = c.value]
<1>1. /\ c.tablet \in Tablet /\ c.operation \in Operation
      /\ c.target \in ToSet(Targets[c.operation]) /\ c.value \in ValuesOf(c.operation)
  BY DEF Order
<1>2. c.operation \in {"setProfile", "setStylusMode", "setRotation", "setTouch"}
  BY <1>1, TargetsFacts
<1>3. CASE c.operation = "setProfile"
  <2>1. c.target = "profile" /\ c.value \in Profile
    BY <1>1, <1>3, TargetSets DEF ValuesOf
  <2>2. SetsProfile(c.tablet, c.value)
    BY <1>3 DEF Obeys
  <2>3. /\ profile' \in [Tablet -> Profile \cup {NoProfile}]
        /\ mode' \in [Tablet -> Modes] /\ mode' = [mode EXCEPT ![c.tablet] = AsInProfile]
        /\ drifted' \subseteq Tablet
        /\ drifted \subseteq drifted' /\ drifted' \subseteq drifted \cup {c.tablet}
        /\ c.tablet \notin drifted' => mode' = mode
    BY <1>1, <2>1, <2>2, SetsProfileTypes
  <2> QED BY <1>3, <2>3 DEF TypeOK
<1>4. CASE c.operation = "setRotation"
  <2>2. UNCHANGED <<profile, mode, drifted>>
    BY <1>4 DEF Obeys
  <2> QED BY <1>4, <2>2 DEF TypeOK
<1>5. CASE c.operation \in {"setStylusMode", "setTouch"}
  <2>1. /\ c.target \in Tool /\ c.target # "profile"
        /\ c.value \in Mode \cup Switch
        /\ c.value \in Switch <=> c.target = "touch"
    BY <1>1, <1>5, TargetSets DEF ValuesOf, Tool, Mode, Switch
  <2>2. /\ mode' = [mode EXCEPT ![c.tablet][c.target] = c.value]
        /\ UNCHANGED <<profile, drifted>>
    BY <1>5, <2>1 DEF Obeys
  <2>3. mode[c.tablet] \in Modes /\ mode \in [Tablet -> Modes]
    BY <1>1 DEF TypeOK
  <2> DEFINE m == [mode[c.tablet] EXCEPT ![c.target] = c.value]
  <2>4. m \in Modes
    BY <2>1, <2>3 DEF Modes
  <2>5. mode' = [mode EXCEPT ![c.tablet] = m]
    BY <2>2, <2>3, <1>1
  <2>6. mode'[c.tablet] = m
    BY <1>1, <2>3, <2>5
  <2> HIDE DEF m
  <2>7. mode' \in [Tablet -> Modes] /\ \A u \in Tablet : u # c.tablet => mode'[u] = mode[u]
    BY <1>1, <2>3, <2>4, <2>5
  <2> QED BY <1>5, <2>1, <2>2, <2>6, <2>7 DEF m, TypeOK
<1> QED BY <1>2, <1>3, <1>4, <1>5

\* The first call is answered, and op says what was done for it.
LEMMA OperationEffect ==
    ASSUME Typed, OrdersAreWatched, ServeOperation
    PROVE  /\ Typed' /\ UNCHANGED <<up, present, heard, listening, modelVars, countVars>>
           /\ TailOf(calls', calls) /\ calls[1] \in Order /\ IsOrder(calls[1]) /\ OrderOf(calls[1])
           /\ Grows(inbox', inbox)
           /\ \E k : /\ New(k) /\ inbox'[k] = [kind |-> "reply", call |-> calls[1], value |-> TRUE]
                     /\ \A j : New(j) /\ j # k =>
                            /\ Signal(inbox'[j], calls[1].tablet) /\ inbox'[j].kind = "profileChanged"
                            /\ calls[1].tablet \in present
           /\ calls[1].tablet \in present =>
                  Obeys(calls[1]) /\ op' = [op EXCEPT !.written = @ \cup {calls[1].target}]
           /\ calls[1].tablet \notin present => UNCHANGED <<mode, drifted, op>>
<1> DEFINE c == Head(calls)
           reply == [kind |-> "reply", call |-> c, value |-> TRUE]
           says == c.kind = "operate" /\ c.target = "profile" /\ c.tablet \in present /\ listening # 0
           signal == ProfileSignal(c.tablet, c.value)
           ms == IF says THEN <<signal, reply>> ELSE <<reply>>
<1>1. /\ calls # <<>> /\ calls' = Tail(calls) /\ c.kind = "operate"
      /\ UNCHANGED <<up, present, heard, listening, modelVars, countVars>>
      /\ IF c.tablet \in present
         THEN Obeys(c) /\ op' = [op EXCEPT !.written = @ \cup {c.target}]
         ELSE UNCHANGED <<profile, mode, drifted, op>>
  BY DEF ServeOperation
<1>2. /\ calls' \in Seq(Call) /\ TailOf(calls', calls)
      /\ c = calls[1] /\ c \in Call /\ 1 \in DOMAIN calls
  BY <1>1, CallTaken DEF TailOf
<1>3. /\ c \in Order /\ IsOrder(c) /\ c.operation \in Operation /\ c.tablet \in Tablet
      /\ c.target \in ToSet(Targets[c.operation]) /\ c.value \in ValuesOf(c.operation)
  BY <1>1, <1>2, CallFields DEF IsOrder
<1>4. OrderOf(c)
  BY <1>2, <1>3 DEF OrdersAreWatched
<1>5. says => c.value \in Profile
  <2>1. c.operation \in {"setProfile", "setStylusMode", "setRotation", "setTouch"}
    BY <1>3, TargetsFacts
  <2>2. c.target = "profile" => c.operation = "setProfile"
    BY <1>3, <2>1, TargetSets
  <2> QED BY <1>3, <2>2 DEF ValuesOf
<1>6. reply \in Message
  <2>1. TRUE \in Answers(c)
    BY <1>1 DEF Answers
  <2> QED BY <1>2, <2>1, AnswerTypes
<1>7. says => /\ signal \in Message /\ Signal(signal, c.tablet) /\ signal.kind = "profileChanged"
              /\ c.tablet \in present
  BY <1>3, <1>5, SignalTypes DEF Typed, Signal, IsSignal, ProfileSignal
<1>8. inbox' = inbox \o ms
  <2>1. inbox' = inbox \o (IF says THEN <<signal>> ELSE <<>>) \o <<reply>>
    BY DEF ServeOperation
  <2>2. CASE says
    <3>1. inbox' = (inbox \o <<signal>>) \o <<reply>>
      BY <2>1, <2>2
    <3>2. <<signal>> \in Seq(Message) /\ <<reply>> \in Seq(Message) /\ inbox \in Seq(Message)
      BY <1>6, <1>7, <2>2 DEF Typed
    <3> HIDE DEF signal, reply, says
    <3>3. inbox' = inbox \o (<<signal>> \o <<reply>>)
      BY <3>1, <3>2, ConcatAssociative
    <3>4. <<signal>> \o <<reply>> = <<signal, reply>>
      BY TwoJoined
    <3> QED BY <2>2, <3>3, <3>4
  <2>3. CASE ~says
    <3>1. inbox' = (inbox \o <<>>) \o <<reply>> /\ inbox \in Seq(Message)
      BY <2>1, <2>3 DEF Typed
    <3> HIDE DEF reply, says
    <3>2. inbox \o <<>> = inbox
      BY <3>1, ConcatEmptySeq
    <3> QED BY <2>3, <3>1, <3>2
  <2> QED BY <2>2, <2>3
<1>9. /\ inbox' \in Seq(Message) /\ Grows(inbox', inbox)
      /\ \E k : /\ New(k) /\ inbox'[k] = reply
                /\ \A j : New(j) /\ j # k =>
                       /\ Signal(inbox'[j], c.tablet) /\ inbox'[j].kind = "profileChanged"
                       /\ c.tablet \in present
  <2>1. /\ ms \in Seq(Message)
        /\ \E k \in DOMAIN ms : /\ ms[k] = reply
                                /\ \A i \in DOMAIN ms : i # k => says /\ ms[i] = signal
    <3> HIDE DEF signal, reply, says
    <3>1. CASE says
      <4>1. ms = <<signal, reply>> /\ signal \in Message
        BY <1>7, <3>1
      <4> QED BY <1>6, <3>1, <4>1
    <3>2. CASE ~says
      <4>1. ms = <<reply>>
        BY <3>2
      <4> QED BY <1>6, <3>2, <4>1
    <3> QED BY <3>1, <3>2
  <2> HIDE DEF ms, signal, reply, says
  <2>2. inbox \o ms \in Seq(Message) /\ GrowsBy(inbox \o ms, inbox, ms)
    BY <2>1, ConcatGrows DEF Typed
  <2>3. inbox' \in Seq(Message) /\ GrowsBy(inbox', inbox, ms)
    BY <1>8, <2>2
  <2>4. PICK k \in DOMAIN ms : /\ ms[k] = reply
                               /\ \A i \in DOMAIN ms : i # k => says /\ ms[i] = signal
    BY <2>1
  <2>5. Len(inbox) \in Nat /\ k \in Nat
    BY <2>1, <2>4 DEF Typed
  <2>6. New(Len(inbox) + k) /\ inbox'[Len(inbox) + k] = reply
    BY <2>3, <2>4 DEF GrowsBy, New
  <2>7. ASSUME NEW j, New(j), j # Len(inbox) + k
        PROVE  /\ Signal(inbox'[j], c.tablet) /\ inbox'[j].kind = "profileChanged"
               /\ c.tablet \in present
    <3>1. j - Len(inbox) \in DOMAIN ms /\ inbox'[j] = ms[j - Len(inbox)] /\ j \in Nat
      BY <2>3, <2>7 DEF GrowsBy, New, Grows, Added
    <3>2. j - Len(inbox) # k
      BY <2>5, <2>7, <3>1
    <3>3. says /\ inbox'[j] = signal
      BY <2>4, <3>1, <3>2
    <3> QED BY <1>7, <3>3
  <2> QED BY <2>3, <2>6, <2>7 DEF GrowsBy
<1> HIDE DEF ms, signal, says
<1>10. op' \in Op \cup {NoOp}
  <2>1. CASE c.tablet \in present
    <3>1. op \in Op /\ c.target \in ToSet(Targets[op.kind]) /\ op.kind \in Operation
      BY <1>3, <1>4 DEF OrderOf, Typed, TypeOK, NoOp, Op
    <3>2. ToSet(Targets[op.kind]) \subseteq Tool \cup {"profile"}
      BY <3>1, TargetsFacts, TargetSets DEF Tool
    <3>3. op' = [op EXCEPT !.written = @ \cup {c.target}]
      BY <1>1, <2>1
    <3> HIDE DEF c
    <3>4. op' \in Op
      BY <3>1, <3>2, <3>3 DEF Op
    <3> QED BY <3>4
  <2>2. CASE c.tablet \notin present
    BY <1>1, <2>2 DEF Typed, TypeOK
  <2> QED BY <2>1, <2>2
<1>11. /\ profile' \in [Tablet -> Profile \cup {NoProfile}] /\ mode' \in [Tablet -> Modes]
       /\ drifted' \subseteq Tablet
  <2>1. CASE c.tablet \in present
    BY <1>1, <1>3, <2>1, ObeysTypes DEF Typed
  <2>2. CASE c.tablet \notin present
    BY <1>1, <2>2 DEF Typed, TypeOK
  <2> QED BY <2>1, <2>2
<1>12. Typed'
  BY <1>1, <1>2, <1>9, <1>10, <1>11, ServedTyped DEF Typed, TypeOK
<1> QED BY <1>1, <1>2, <1>3, <1>4, <1>9, <1>12

LEMMA TimesOutEffect ==
    ASSUME Typed, TimesOut
    PROVE  /\ Typed' /\ UNCHANGED <<up, present, heard, listening, modelVars, op>>
           /\ timeouts' = timeouts + 1 /\ ForDaemon(calls[1])
           /\ Answered([kind |-> "error", call |-> calls[1]])
<1>1. /\ calls # <<>> /\ calls' = Tail(calls) /\ ForDaemon(Head(calls)) /\ Error(Head(calls))
      /\ UNCHANGED <<up, present, heard, listening, modelVars, op>>
      /\ timeouts' = timeouts + 1
      /\ \/ UNCHANGED <<profile, mode, drifted>>
         \/ Head(calls).kind = "operate" /\ Obeys(Head(calls))
  BY DEF TimesOut
<1>2. Answered([kind |-> "error", call |-> calls[1]])
  BY <1>1, ErrorEffect
<1>3. Head(calls) = calls[1] /\ Head(calls) \in Call
  BY <1>1, CallTaken
<1>4. /\ profile' \in [Tablet -> Profile \cup {NoProfile}] /\ mode' \in [Tablet -> Modes]
      /\ drifted' \subseteq Tablet
  <2>1. CASE UNCHANGED <<profile, mode, drifted>>
    BY <2>1 DEF Typed, TypeOK
  <2>2. CASE Head(calls).kind = "operate" /\ Obeys(Head(calls))
    <3>1. Head(calls) \in Order
      BY <1>3, <2>2, CallFields DEF IsOrder
    <3> QED BY <2>2, <3>1, ObeysTypes DEF Typed
  <2> QED BY <1>1, <2>1, <2>2
<1>5. Typed'
  BY <1>1, <1>2, <1>4, ServedTyped DEF Typed, TypeOK, Answered
<1> QED BY <1>1, <1>2, <1>3, <1>5

-----------------------------------------------------------------------------
(* Steps of the applet, and what they tell.  Each takes the first message, *)
(* and may ask something.                                                  *)

LEMMA Enumerations ==
    ASSUME NEW S, IsFiniteSet(S), NEW new \in SetToSeqs(S)
    PROVE  /\ new \in Seq(S) /\ Len(new) \in Nat
           /\ ToSet(new) = S
           /\ \A i, j \in DOMAIN new : new[i] = new[j] => i = j
<1> DEFINE n == Cardinality(S)
<1>1. n \in Nat
  BY FS_CardinalityType
<1>2. new \in [1..n -> S] /\ \A i, j \in 1..n : i # j => new[i] # new[j]
  BY DEF SetToSeqs
<1>3. IsFiniteSet(1..n) /\ Cardinality(1..n) = n
  BY <1>1, FS_Interval
<1> HIDE DEF n
<1>4. new \in Seq(S) /\ Len(new) = n /\ DOMAIN new = 1..n
  BY <1>1, <1>2
<1>5. new \in Injection(1..n, S)
  BY <1>2 DEF Injection, IsInjective
<1>6. Cardinality(1..n) = Cardinality(S)
  BY <1>3 DEF n
<1>7. new \in Surjection(1..n, S)
  BY <1>5, <1>6, FS_Injection
<1>8. \A t \in S : \E i \in 1..n : new[i] = t
  BY <1>7 DEF Surjection
<1>9. ToSet(new) = S
  BY <1>2, <1>4, <1>8 DEF ToSet
<1> QED BY <1>1, <1>2, <1>4, <1>9

\* The first message is taken.
Received ==
    /\ inbox # <<>> /\ inbox[1] \in Message
    /\ TailOf(inbox', inbox) /\ inbox' \in Seq(Message)
    /\ UNCHANGED <<serviceVars, listening, countVars>>

LEMMA ReceiveEffect ==
    ASSUME Typed, NEW kind, Receive(kind)
    PROVE  Received /\ Head(inbox) = inbox[1] /\ inbox[1].kind = kind
<1>1. /\ inbox # <<>> /\ inbox' = Tail(inbox) /\ Head(inbox).kind = kind
      /\ UNCHANGED <<serviceVars, listening, countVars>>
  BY DEF Receive
<1>2. /\ Tail(inbox) \in Seq(Message) /\ Head(inbox) \in Message /\ Head(inbox) = inbox[1]
      /\ TailOf(Tail(inbox), inbox)
  BY <1>1, TailFacts DEF Typed
<1> QED BY <1>1, <1>2 DEF Received

LEMMA ReceivedTyped ==
    ASSUME Typed, Received,
           generation' \in Nat, generation' >= generation, nextEpoch' \in Nat,
           epochs' \in [Tablet -> 0..nextEpoch'], interface' \in BOOLEAN, rows' \in Seq(Row),
           sources' \in [Tablet -> Row \cup {NoSource}], calls' \in Seq(Call),
           op' \in Op \cup {NoOp}
    PROVE  Typed'
<1>1. \A i \in DOMAIN inbox' : inbox'[i] \in Message
  BY DEF Received
<1>2. \A i \in DOMAIN inbox' : WellFormed(inbox'[i])
  BY <1>1, MessageFields
<1>4. listening \in 0..generation'
  BY DEF Typed, TypeOK
<1> QED BY <1>2, <1>4 DEF Typed, TypeOK, Received, serviceVars

\* What is asked when the service appears, or goes.
NewCall(j) == j \in Added(calls', calls)

LEMMA AskEffect ==
    ASSUME Typed, NEW e \in Seq(Call), Ask(e)
    PROVE  calls' \in Seq(Call) /\ GrowsBy(calls', calls, e)
<1>1. calls \in Seq(Call) /\ calls' = calls \o e
  BY DEF Ask, Typed, TypeOK
<1>2. calls \o e \in Seq(Call) /\ GrowsBy(calls \o e, calls, e)
  BY <1>1, ConcatGrows
<1> QED BY <1>1, <1>2

\* Rows and sources are emptied.
Cleared ==
    /\ rows' = <<>>
    /\ \A t \in Tablet : epochs'[t] = 0 /\ sources'[t] = IF t \in Shown THEN NoSource ELSE sources[t]
    /\ generation' = generation + 1
    /\ UNCHANGED <<nextEpoch, op>>

LEMMA RegisteredEffect ==
    ASSUME Typed, Received, OnServiceRegistered
    PROVE  /\ Typed' /\ Cleared /\ interface' = TRUE
           /\ Grows(calls', calls)
           /\ \A j : NewCall(j) => calls'[j].kind \in {"removeMatch", "addMatch", "getTabletList"}
           /\ \A j : NewCall(j) => calls'[j].gen = IF calls'[j].kind = "removeMatch" THEN 0 ELSE generation'
           /\ \A i, j : NewCall(i) /\ NewCall(j) /\ IsMatch(calls'[i]) /\ IsMatch(calls'[j]) /\ i < j =>
                  calls'[i].kind = "removeMatch"
           /\ \E i, j : /\ NewCall(i) /\ NewCall(j) /\ i < j
                        /\ calls'[i].kind = "addMatch" /\ calls'[j].kind = "getTabletList"
           /\ \A j : NewCall(j) /\ calls'[j].kind = "getTabletList" =>
                  \E i : NewCall(i) /\ i < j /\ calls'[i].kind = "addMatch"
<1> DEFINE a == [kind |-> "removeMatch", gen |-> 0]
           b == [kind |-> "addMatch", gen |-> generation + 1]
           c == [kind |-> "getTabletList", gen |-> generation + 1]
           e == IF interface THEN <<a, b, c>> ELSE <<b, c>>
           n == Len(calls)
<1>1. /\ generation' = generation + 1 /\ epochs' = [t \in Tablet |-> 0] /\ interface' = TRUE
      /\ rows' = <<>> /\ sources' = [t \in Tablet |-> IF t \in Shown THEN NoSource ELSE sources[t]]
      /\ Ask((IF interface THEN <<a>> ELSE <<>>) \o <<b, c>>)
      /\ UNCHANGED <<nextEpoch, op>>
  BY DEF OnServiceRegistered, ClearTablets
<1>2. /\ a \in Call /\ b \in Call /\ c \in Call /\ generation \in Nat
      /\ a.kind = "removeMatch" /\ a.gen = 0
      /\ b.kind = "addMatch" /\ b.gen = generation + 1
      /\ c.kind = "getTabletList" /\ c.gen = generation + 1
  BY DEF Call, Typed, TypeOK
<1> HIDE DEF a, b, c
<1>3. (IF interface THEN <<a>> ELSE <<>>) \o <<b, c>> = e
  <2>1. <<>> \o <<b, c>> = <<b, c>>
    <3>1. <<b, c>> \in Seq(Call)
      BY <1>2
    <3> QED BY <3>1, ConcatEmptySeq
  <2>2. <<a>> \o <<b, c>> = <<a, b, c>>
    <3> DEFINE u == <<a>>
               v == <<b, c>>
               w == <<a, b, c>>
    <3>1. /\ u \in Seq(Call) /\ v \in Seq(Call) /\ w \in Seq(Call)
          /\ Len(u) = 1 /\ Len(v) = 2 /\ Len(w) = 3
          /\ u[1] = w[1] /\ v[1] = w[2] /\ v[2] = w[3]
      BY <1>2
    <3> HIDE DEF u, v, w
    <3>2. /\ u \o v \in Seq(Call) /\ Len(u \o v) = Len(u) + Len(v)
          /\ \A i \in 1..(Len(u) + Len(v)) :
                 (u \o v)[i] = IF i <= Len(u) THEN u[i] ELSE v[i - Len(u)]
      BY <3>1, ConcatProperties
    <3>3. Len(u \o v) = 3 /\ \A i \in 1..3 : (u \o v)[i] = w[i]
      BY <3>1, <3>2
    <3>4. u \o v = w
      BY <3>1, <3>2, <3>3, SeqEqual
    <3> QED BY <3>4 DEF u, v, w
  <2> QED BY <2>1, <2>2
<1>4. /\ e \in Seq(Call)
      /\ \A k \in DOMAIN e : k \in Nat /\ e[k] \in {a, b, c}
      /\ \A k, l \in DOMAIN e : k < l /\ e[l] \in {a, b} => e[k] = a
      /\ \E k, l \in DOMAIN e : k < l /\ e[k] = b /\ e[l] = c
      /\ \A l \in DOMAIN e : e[l] = c => \E k \in DOMAIN e : k < l /\ e[k] = b
  <2>1. CASE interface
    <3>1. /\ e = <<a, b, c>> /\ a # b /\ a # c /\ b # c
      BY <1>2, <2>1
    <3>2. <<a, b, c>> \in Seq(Call) /\ DOMAIN <<a, b, c>> = 1..3
      BY <1>2
    <3>3. <<a, b, c>>[1] = a /\ <<a, b, c>>[2] = b /\ <<a, b, c>>[3] = c
      OBVIOUS
    <3> DEFINE w == <<a, b, c>>
    <3> HIDE DEF e, w
    <3>4. w \in Seq(Call) /\ DOMAIN w = 1..3 /\ w[1] = a /\ w[2] = b /\ w[3] = c /\ e = w
      BY <3>1, <3>2, <3>3 DEF w
    <3> QED BY <3>1, <3>4
  <2>2. CASE ~interface
    <3>1. /\ e = <<b, c>> /\ a # b /\ a # c /\ b # c
      BY <1>2, <2>2
    <3> DEFINE w == <<b, c>>
    <3>2. w \in Seq(Call) /\ DOMAIN w = 1..2 /\ w[1] = b /\ w[2] = c /\ e = w
      BY <1>2, <3>1
    <3> HIDE DEF e, w
    <3> QED BY <3>1, <3>2
  <2> QED BY <2>1, <2>2
<1> HIDE DEF e
<1>5. Ask(e)
  BY <1>1, <1>3
<1>6. calls' \in Seq(Call) /\ GrowsBy(calls', calls, e)
  BY <1>4, <1>5, AskEffect
<1>7. n \in Nat
  BY DEF Typed, TypeOK
<1> HIDE DEF n
<1>8. /\ Grows(calls', calls)
      /\ \A j : NewCall(j) => j \in Nat /\ j - n \in DOMAIN e /\ calls'[j] = e[j - n]
      /\ \A k \in DOMAIN e : NewCall(n + k) /\ calls'[n + k] = e[k]
  BY <1>6 DEF GrowsBy, NewCall, n, Grows, Added
<1>9. \A j : NewCall(j) => calls'[j] \in {a, b, c}
  BY <1>4, <1>8
<1>10. ASSUME NEW i, NEW j, NewCall(i), NewCall(j), IsMatch(calls'[i]), IsMatch(calls'[j]), i < j
       PROVE  calls'[i].kind = "removeMatch"
  <2>1. i - n < j - n /\ calls'[j] \in {a, b}
    BY <1>2, <1>7, <1>8, <1>9, <1>10 DEF IsMatch
  <2>2. calls'[i] = a
    BY <1>4, <1>8, <1>10, <2>1
  <2> QED BY <1>2, <2>2
<1>11. \E i, j : /\ NewCall(i) /\ NewCall(j) /\ i < j
                 /\ calls'[i].kind = "addMatch" /\ calls'[j].kind = "getTabletList"
  <2>1. PICK k \in DOMAIN e, l \in DOMAIN e : k < l /\ e[k] = b /\ e[l] = c
    BY <1>4
  <2>2. n + k < n + l
    BY <1>4, <1>7, <2>1
  <2> QED BY <1>2, <1>8, <2>1, <2>2
<1>14. ASSUME NEW j, NewCall(j), calls'[j].kind = "getTabletList"
       PROVE  \E i : NewCall(i) /\ i < j /\ calls'[i].kind = "addMatch"
  <2>1. j - n \in DOMAIN e /\ e[j - n] = c
    BY <1>2, <1>8, <1>9, <1>14
  <2>2. PICK k \in DOMAIN e : k < j - n /\ e[k] = b
    BY <1>4, <2>1
  <2>3. j \in Nat /\ k \in Nat
    BY <1>4, <1>8, <1>14
  <2>4. n + k < j
    BY <1>7, <2>2, <2>3
  <2> QED BY <1>2, <1>8, <2>2, <2>4
<1>12. Cleared /\ epochs' \in [Tablet -> 0..nextEpoch'] /\ rows' \in Seq(Row)
       /\ sources' \in [Tablet -> Row \cup {NoSource}]
  BY <1>1 DEF Cleared, Typed, TypeOK
<1>13. Typed'
  BY <1>1, <1>2, <1>6, <1>12, ReceivedTyped DEF Typed, TypeOK
<1> QED BY <1>1, <1>2, <1>8, <1>9, <1>10, <1>11, <1>12, <1>13, <1>14

LEMMA UnregisteredEffect ==
    ASSUME Typed, Received, OnServiceUnregistered
    PROVE  /\ Typed' /\ Cleared /\ interface' = FALSE
           /\ Grows(calls', calls)
           /\ \A j : NewCall(j) => calls'[j].kind = "removeMatch" /\ calls'[j].gen = 0
<1> DEFINE a == [kind |-> "removeMatch", gen |-> 0]
           e == IF interface THEN <<a>> ELSE <<>>
<1>1. /\ generation' = generation + 1 /\ epochs' = [t \in Tablet |-> 0] /\ interface' = FALSE
      /\ rows' = <<>> /\ sources' = [t \in Tablet |-> IF t \in Shown THEN NoSource ELSE sources[t]]
      /\ Ask(e)
      /\ UNCHANGED <<nextEpoch, op>>
  BY DEF OnServiceUnregistered, ClearTablets
<1>2. a \in Call /\ a.kind = "removeMatch" /\ a.gen = 0
  BY DEF Call
<1> HIDE DEF a
<1>3. e \in Seq(Call) /\ \A k \in DOMAIN e : e[k] = a
  BY <1>2
<1> HIDE DEF e
<1>4. calls' \in Seq(Call) /\ GrowsBy(calls', calls, e)
  BY <1>1, <1>3, AskEffect
<1>5. Grows(calls', calls) /\ \A j : NewCall(j) => calls'[j] = a
  BY <1>3, <1>4 DEF GrowsBy, NewCall
<1>6. Cleared /\ epochs' \in [Tablet -> 0..nextEpoch'] /\ rows' \in Seq(Row)
      /\ sources' \in [Tablet -> Row \cup {NoSource}]
      /\ generation' \in Nat /\ generation' >= generation /\ nextEpoch' \in Nat
      /\ op' \in Op \cup {NoOp}
  BY <1>1 DEF Cleared, Typed, TypeOK
<1>7. Typed'
  BY <1>1, <1>4, <1>6, ReceivedTyped
<1> QED BY <1>1, <1>2, <1>5, <1>6, <1>7

\* What a discovery of ids does: those without an epoch get one, and are asked about.
Discovered(ids) ==
    /\ nextEpoch' \in Nat /\ nextEpoch' >= nextEpoch
    /\ epochs' \in [Tablet -> 0..nextEpoch']
    /\ \A t \in Tablet :
           IF t \in ids /\ epochs[t] = 0
           THEN /\ epochs'[t] > nextEpoch
                /\ \E j : NewCall(j) /\ calls'[j].tablet = t
           ELSE epochs'[t] = epochs[t]
    /\ Grows(calls', calls) /\ calls' \in Seq(Call)
    /\ \A j : NewCall(j) =>
           /\ calls'[j].kind = "isTouchSensor" /\ calls'[j].gen = generation
           /\ calls'[j].tablet \in ids /\ calls'[j].tablet \in Tablet
           /\ epochs[calls'[j].tablet] = 0
           /\ calls'[j].epoch = epochs'[calls'[j].tablet]
           /\ calls'[j].epoch > nextEpoch
    /\ \A i, j : NewCall(i) /\ NewCall(j) /\ calls'[i].epoch = calls'[j].epoch => i = j

LEMMA DiscoverEffect ==
    ASSUME Typed, NEW ids, ids \subseteq Tablet, IsFiniteSet(ids), Discover(ids)
    PROVE  Discovered(ids)
<1> DEFINE S == {t \in ids : epochs[t] = 0}
           n == Len(calls)
<1>1. S \subseteq Tablet /\ IsFiniteSet(S)
  BY FS_Subset
<1> DEFINE E(new) == [i \in DOMAIN new |-> [kind |-> "isTouchSensor", tablet |-> new[i],
                                            gen |-> generation, epoch |-> nextEpoch + i]]
           At(new, t) == CHOOSE i \in DOMAIN new : new[i] = t
<1>2. PICK new \in SetToSeqs(S) :
          /\ epochs' = [t \in Tablet |-> IF t \in ToSet(new) THEN nextEpoch + At(new, t) ELSE epochs[t]]
          /\ nextEpoch' = nextEpoch + Len(new)
          /\ Ask(E(new))
  BY DEF Discover
<1>3. /\ new \in Seq(S) /\ Len(new) \in Nat /\ ToSet(new) = S
      /\ \A i, j \in DOMAIN new : new[i] = new[j] => i = j
  BY <1>1, Enumerations
<1>4. /\ DOMAIN new = 1..Len(new)
      /\ \A i \in DOMAIN new : new[i] \in S /\ i \in Nat /\ i >= 1 /\ i <= Len(new)
      /\ \A t \in S : \E i \in DOMAIN new : new[i] = t
  BY <1>3 DEF ToSet
<1>5. ASSUME NEW t \in S
      PROVE  At(new, t) \in DOMAIN new /\ new[At(new, t)] = t
  BY <1>4
<1>6. \A i \in DOMAIN new : At(new, new[i]) = i
  BY <1>3, <1>4, <1>5
<1>7. /\ generation \in Nat /\ nextEpoch \in Nat /\ n \in Nat
      /\ epochs \in [Tablet -> 0..nextEpoch]
  BY DEF Typed, TypeOK
<1> DEFINE e == E(new)
<1>8. /\ DOMAIN e = DOMAIN new
      /\ \A i \in DOMAIN new : /\ e[i].kind = "isTouchSensor" /\ e[i].tablet = new[i]
                               /\ e[i].gen = generation /\ e[i].epoch = nextEpoch + i
  OBVIOUS
<1>9. e \in Seq(Call)
  <2>1. \A i \in DOMAIN new : e[i] \in Call
    BY <1>1, <1>4, <1>7 DEF Call, Question
  <2>2. e \in [1..Len(new) -> Call]
    BY <1>4, <2>1
  <2> QED BY <1>3, <2>2
<1>10. Ask(e)
  BY <1>2
<1> HIDE DEF e, E
<1>11. calls' \in Seq(Call) /\ GrowsBy(calls', calls, e)
  BY <1>9, <1>10, AskEffect
<1> HIDE DEF n
<1>12. /\ Grows(calls', calls)
       /\ \A j : NewCall(j) => j \in Nat /\ j - n \in DOMAIN e /\ calls'[j] = e[j - n]
       /\ \A k \in DOMAIN e : NewCall(n + k) /\ calls'[n + k] = e[k]
  BY <1>11 DEF GrowsBy, NewCall, n, Grows, Added
<1>13. \A t \in Tablet : epochs'[t] = IF t \in S THEN nextEpoch + At(new, t) ELSE epochs[t]
  BY <1>2, <1>3
<1> HIDE DEF At
<1>14. \A i \in DOMAIN new : epochs'[new[i]] = nextEpoch + i
  BY <1>1, <1>4, <1>6, <1>13
<1>15. nextEpoch' \in Nat /\ nextEpoch' >= nextEpoch
  BY <1>2, <1>3, <1>7
<1>16. epochs' \in [Tablet -> 0..nextEpoch']
  <2>1. \A t \in Tablet : epochs'[t] \in 0..nextEpoch'
    BY <1>2, <1>3, <1>4, <1>5, <1>7, <1>13, <1>15
  <2> QED BY <1>2, <2>1
<1>17. ASSUME NEW t \in Tablet
       PROVE  IF t \in S
              THEN /\ epochs'[t] > nextEpoch
                   /\ \E j : NewCall(j) /\ calls'[j].tablet = t
              ELSE epochs'[t] = epochs[t]
  <2>1. CASE t \in S
    <3>1. PICK i \in DOMAIN new : new[i] = t
      BY <1>4, <2>1
    <3>2. NewCall(n + i) /\ calls'[n + i].tablet = t
      BY <1>8, <1>12, <3>1
    <3> QED BY <1>4, <1>7, <1>14, <2>1, <3>1, <3>2
  <2>2. CASE t \notin S
    BY <1>13, <2>2
  <2> QED BY <2>1, <2>2
<1>18. ASSUME NEW j, NewCall(j)
       PROVE  /\ calls'[j].kind = "isTouchSensor" /\ calls'[j].gen = generation
              /\ calls'[j].tablet \in S
              /\ calls'[j].epoch = epochs'[calls'[j].tablet]
              /\ calls'[j].epoch = nextEpoch + (j - n)
              /\ calls'[j].epoch > nextEpoch
  <2> DEFINE i == j - n
  <2>1. i \in DOMAIN new /\ calls'[j] = e[i] /\ j \in Nat
    BY <1>8, <1>12, <1>18
  <2>2. i \in Nat /\ i >= 1 /\ new[i] \in S /\ epochs'[new[i]] = nextEpoch + i
    BY <1>4, <1>14, <2>1
  <2> HIDE DEF i
  <2>3. /\ e[i].kind = "isTouchSensor" /\ e[i].tablet = new[i]
        /\ e[i].gen = generation /\ e[i].epoch = nextEpoch + i
    BY <1>8, <2>1
  <2>4. nextEpoch + i > nextEpoch
    BY <1>7, <2>2
  <2> QED BY <2>1, <2>2, <2>3, <2>4 DEF i
<1>19. ASSUME NEW i, NEW j, NewCall(i), NewCall(j), calls'[i].epoch = calls'[j].epoch
       PROVE  i = j
  <2>1. nextEpoch + (i - n) = nextEpoch + (j - n) /\ i \in Nat /\ j \in Nat
    BY <1>12, <1>18, <1>19
  <2> QED BY <1>7, <2>1
<1> QED BY <1>1, <1>11, <1>12, <1>15, <1>16, <1>17, <1>18, <1>19 DEF Discovered

\* What else a discovery leaves as it is.
DiscoverIdle == UNCHANGED <<generation, interface, rows, sources, op>>

LEMMA DiscoveredTyped ==
    ASSUME Typed, Received, DiscoverIdle, NEW ids, Discovered(ids)
    PROVE  Typed'
BY ReceivedTyped DEF Discovered, DiscoverIdle, Typed, TypeOK

LEMMA TabletListEffect ==
    ASSUME Typed, Known, OnTabletList
    PROVE  /\ Typed' /\ Received /\ DiscoverIdle
           /\ inbox[1].kind = "reply" /\ inbox[1].call.kind = "getTabletList"
           /\ IF inbox[1].call.gen = generation
              THEN Discovered(inbox[1].value)
              ELSE UNCHANGED <<epochs, nextEpoch, calls>>
<1>1. /\ Receive("reply") /\ Head(inbox).call.kind = "getTabletList" /\ DiscoverIdle
      /\ IF Head(inbox).call.gen = generation
         THEN Discover(Head(inbox).value)
         ELSE UNCHANGED <<epochs, nextEpoch, calls>>
  BY DEF OnTabletList, ReceiveAnswer, ThisGeneration, DiscoverIdle
<1>2. Received /\ Head(inbox) = inbox[1] /\ inbox[1].kind = "reply"
  BY <1>1, ReceiveEffect
<1>3. CASE inbox[1].call.gen = generation
  <2>1. inbox[1] \in Message /\ 1 \in DOMAIN inbox
    BY <1>2 DEF Received, TailOf
  <2>2. inbox[1].value \in SUBSET Tablet
    BY <1>1, <1>2, <2>1, MessageFields DEF Answers
  <2>3. IsFiniteSet(inbox[1].value)
    BY <1>1, <1>2, <2>1 DEF Known
  <2>4. Discovered(inbox[1].value)
    BY <1>1, <1>2, <1>3, <2>2, <2>3, DiscoverEffect
  <2> QED BY <1>1, <1>2, <1>3, <2>4, DiscoveredTyped
<1>4. CASE inbox[1].call.gen # generation
  <2>1. UNCHANGED <<epochs, nextEpoch, calls>>
    BY <1>1, <1>2, <1>4
  <2>2. Typed'
    BY <1>1, <1>2, <2>1, ReceivedTyped DEF DiscoverIdle, Typed, TypeOK
  <2> QED BY <1>1, <1>2, <1>4, <2>1, <2>2
<1> QED BY <1>3, <1>4

LEMMA TabletAddedEffect ==
    ASSUME Typed, OnTabletAdded
    PROVE  /\ Typed' /\ Received /\ DiscoverIdle
           /\ inbox[1].kind = "tabletAdded" /\ inbox[1].tablet \in Tablet
           /\ IF interface /\ inbox[1].gen = generation
              THEN Discovered({inbox[1].tablet})
              ELSE UNCHANGED <<epochs, nextEpoch, calls>>
<1>1. /\ Receive("tabletAdded") /\ DiscoverIdle
      /\ IF interface /\ Head(inbox).gen = generation
         THEN Discover({Head(inbox).tablet})
         ELSE UNCHANGED <<epochs, nextEpoch, calls>>
  BY DEF OnTabletAdded, ForInterface, DiscoverIdle
<1>2. Received /\ Head(inbox) = inbox[1] /\ inbox[1].kind = "tabletAdded"
  BY <1>1, ReceiveEffect
<1>3. inbox[1].tablet \in Tablet
  BY <1>2, MessageFields DEF Received, IsSignal
<1>4. CASE interface /\ inbox[1].gen = generation
  <2>1. Discovered({inbox[1].tablet})
    BY <1>1, <1>2, <1>3, <1>4, FS_Singleton, DiscoverEffect
  <2> QED BY <1>1, <1>2, <1>3, <1>4, <2>1, DiscoveredTyped
<1>5. CASE ~(interface /\ inbox[1].gen = generation)
  <2>1. UNCHANGED <<epochs, nextEpoch, calls>>
    BY <1>1, <1>2, <1>5
  <2>2. Typed'
    BY <1>1, <1>2, <2>1, ReceivedTyped DEF DiscoverIdle, Typed, TypeOK
  <2> QED BY <1>1, <1>2, <1>3, <1>5, <2>1, <2>2
<1> QED BY <1>4, <1>5

\* The calls are as they were, or getProfile is asked.
LEMMA IsTouchSensorEffect ==
    ASSUME Typed, OnIsTouchSensor
    PROVE  /\ Typed' /\ Received /\ UNCHANGED <<modelVars, op>>
           /\ inbox[1].kind = "reply" /\ inbox[1].call.kind = "isTouchSensor"
           /\ Grows(calls', calls)
           /\ \A j : NewCall(j) =>
                  /\ ThisEpoch(inbox[1].call) /\ ~inbox[1].value
                  /\ inbox[1].call.tablet \notin Shown
                  /\ calls'[j].kind = "getProfile" /\ calls'[j].tablet = inbox[1].call.tablet
                  /\ calls'[j].gen = inbox[1].call.gen /\ calls'[j].epoch = inbox[1].call.epoch
           /\ \A i, j : NewCall(i) /\ NewCall(j) => i = j
           /\ ThisEpoch(inbox[1].call) /\ ~inbox[1].value /\ inbox[1].call.tablet \notin Shown =>
                  \E j : NewCall(j)
<1> DEFINE c == inbox[1].call
           d == [kind |-> "getProfile", tablet |-> c.tablet, gen |-> c.gen, epoch |-> c.epoch]
           goes == ThisEpoch(c) /\ ~inbox[1].value /\ c.tablet \notin Shown
<1>1. Receive("reply") /\ Head(inbox).call.kind = "isTouchSensor" /\ UNCHANGED <<modelVars, op>>
  BY DEF OnIsTouchSensor, ReceiveAnswer
<1>2. Received /\ Head(inbox) = inbox[1] /\ inbox[1].kind = "reply"
  BY <1>1, ReceiveEffect
<1>3. IF goes THEN Ask(<<d>>) ELSE UNCHANGED calls
  BY <1>2 DEF OnIsTouchSensor
<1>4. d \in Call
  <2>1. c \in Call /\ c.kind = "isTouchSensor"
    BY <1>1, <1>2, MessageFields DEF Received, IsAnswer
  <2>2. c.tablet \in Tablet /\ c.gen \in Nat /\ c.epoch \in Nat
    BY <2>1, CallFields DEF Asks, IsOrder
  <2> QED BY <2>2 DEF Call, Question
<1>5. CASE goes
  <2> DEFINE e == <<d>>
  <2>1. e \in Seq(Call) /\ DOMAIN e = {1} /\ e[1] = d /\ Ask(e)
    BY <1>3, <1>4, <1>5
  <2>2. /\ d.kind = "getProfile" /\ d.tablet = c.tablet
        /\ d.gen = c.gen /\ d.epoch = c.epoch
    OBVIOUS
  <2> HIDE DEF e, d
  <2>3. calls' \in Seq(Call) /\ GrowsBy(calls', calls, e)
    BY <2>1, AskEffect
  <2>4. Len(calls) \in Nat
    BY DEF Typed, TypeOK
  <2>5. /\ Grows(calls', calls)
        /\ \A j : NewCall(j) => j = Len(calls) + 1 /\ calls'[j] = d
        /\ \E j : NewCall(j)
    <3>1. \A j : NewCall(j) => j \in Nat /\ j - Len(calls) = 1 /\ calls'[j] = e[1]
      BY <2>1, <2>3 DEF GrowsBy, NewCall, Grows, Added
    <3> QED BY <2>1, <2>3, <2>4, <3>1 DEF GrowsBy, NewCall
  <2>6. Typed'
    BY <1>1, <1>2, <2>3, ReceivedTyped DEF modelVars, Typed, TypeOK
  <2> QED BY <1>1, <1>2, <1>5, <2>2, <2>5, <2>6
<1>6. CASE ~goes
  <2>1. UNCHANGED calls
    BY <1>3, <1>6
  <2>2. Grows(calls', calls) /\ ~\E j : NewCall(j)
    BY <2>1 DEF Grows, NewCall, Added, Typed, TypeOK
  <2>3. Typed'
    BY <1>1, <1>2, <2>1, ReceivedTyped DEF modelVars, Typed, TypeOK
  <2> QED BY <1>1, <1>2, <1>6, <2>2, <2>3
<1> QED BY <1>5, <1>6

LEMMA NameHasOwnerEffect ==
    ASSUME Typed, OnNameHasOwner
    PROVE  /\ Received /\ inbox[1].kind = "reply" /\ inbox[1].call.kind = "nameHasOwner"
           /\ IF inbox[1].call.gen = generation /\ inbox[1].value
              THEN OnServiceRegistered
              ELSE UNCHANGED <<modelVars, calls, op>> /\ Typed'
<1>1. /\ Receive("reply") /\ Head(inbox).call.kind = "nameHasOwner"
      /\ IF Head(inbox).call.gen = generation /\ Head(inbox).value
         THEN OnServiceRegistered
         ELSE UNCHANGED <<modelVars, calls, op>>
  BY DEF OnNameHasOwner, ReceiveAnswer, ThisGeneration
<1>2. Received /\ Head(inbox) = inbox[1] /\ inbox[1].kind = "reply"
  BY <1>1, ReceiveEffect
<1>3. UNCHANGED <<modelVars, calls, op>> => Typed'
  BY <1>2, ReceivedTyped DEF modelVars, Typed, TypeOK
<1> QED BY <1>1, <1>2, <1>3

LEMMA OwnerChangedEffect ==
    ASSUME Typed, OnOwnerChanged
    PROVE  /\ Received /\ Owner(inbox[1])
           /\ IF inbox[1].owned THEN OnServiceRegistered ELSE OnServiceUnregistered
<1>1. /\ Receive("ownerChanged")
      /\ IF Head(inbox).owned THEN OnServiceRegistered ELSE OnServiceUnregistered
  BY DEF OnOwnerChanged
<1> QED BY <1>1, ReceiveEffect DEF Owner

\* A row is added, or none.
Inserted(row) ==
    /\ GrowsByOne(rows', rows, row)
    /\ sources' = [sources EXCEPT ![row.id] = row]

LEMMA TabletDataEffect ==
    ASSUME Typed, OnTabletData
    PROVE  /\ Typed' /\ Received
           /\ UNCHANGED <<generation, nextEpoch, epochs, interface, calls, op>>
           /\ inbox[1].kind = "reply" /\ inbox[1].call.kind = "getProperty"
           /\ inbox[1].value \in Modes
           /\ IF ThisEpoch(inbox[1].call) /\ inbox[1].call.tablet \notin Shown
              THEN \E row \in Row :
                       /\ Inserted(row)
                       /\ row.id = inbox[1].call.tablet
                       /\ row.mode = inbox[1].value["stylus"]
                       /\ row.touch = inbox[1].value["touch"]
              ELSE UNCHANGED <<rows, sources>>
<1> DEFINE m == inbox[1]
           c == m.call
           row == [id |-> c.tablet, profile |-> c.profile,
                   mode |-> m.value["stylus"], touch |-> m.value["touch"]]
<1>1. /\ Receive("reply") /\ Head(inbox).call.kind = "getProperty"
      /\ UNCHANGED <<generation, nextEpoch, epochs, interface, calls, op>>
  BY DEF OnTabletData, ReceiveAnswer
<1>2. Received /\ Head(inbox) = m /\ m.kind = "reply" /\ m \in Message
  BY <1>1, ReceiveEffect DEF Received
<1>3. IF ThisEpoch(c) /\ c.tablet \notin Shown THEN InsertTablet(row) ELSE UNCHANGED <<rows, sources>>
  BY <1>2 DEF OnTabletData
<1>4. c \in Call /\ c.kind = "getProperty" /\ m.value \in Answers(c)
  BY <1>1, <1>2, MessageFields DEF IsAnswer
<1>5. m.value \in Modes
  BY <1>4 DEF Answers
<1>6. row \in Row
  <2>1. c.tablet \in Tablet /\ c.profile \in Profile \cup {NoProfile}
    BY <1>4, CallFields DEF Asks
  <2>2. m.value["stylus"] \in Mode /\ m.value["touch"] \in Switch
    BY <1>5 DEF Modes, Tool, Mode, Switch
  <2> QED BY <2>1, <2>2 DEF Row
<1>7. /\ row.id = c.tablet /\ row.mode = m.value["stylus"] /\ row.touch = m.value["touch"]
  OBVIOUS
<1> HIDE DEF row
<1>8. CASE ThisEpoch(c) /\ c.tablet \notin Shown
  <2>1. /\ rows' = Append(rows, row) /\ rows \in Seq(Row)
        /\ sources' = [sources EXCEPT ![row.id] = row]
    BY <1>3, <1>8 DEF InsertTablet, Typed, TypeOK
  <2>2. Append(rows, row) \in Seq(Row) /\ GrowsByOne(Append(rows, row), rows, row)
    BY <1>6, <2>1, AppendGrows
  <2>3. rows' \in Seq(Row) /\ Inserted(row)
    BY <2>1, <2>2 DEF Inserted
  <2>4. sources' \in [Tablet -> Row \cup {NoSource}]
    BY <1>6, <2>1 DEF Typed, TypeOK
  <2>5. Typed'
    BY <1>1, <1>2, <2>3, <2>4, ReceivedTyped DEF Typed, TypeOK
  <2> QED BY <1>1, <1>2, <1>5, <1>6, <1>7, <1>8, <2>3, <2>5
<1>9. CASE ~(ThisEpoch(c) /\ c.tablet \notin Shown)
  <2>1. UNCHANGED <<rows, sources>>
    BY <1>3, <1>9
  <2>2. Typed'
    BY <1>1, <1>2, <2>1, ReceivedTyped DEF Typed, TypeOK
  <2> QED BY <1>1, <1>2, <1>5, <1>9, <2>1, <2>2
<1> QED BY <1>8, <1>9

LEMMA OnErrorEffect ==
    ASSUME Typed, Numbered, OnError
    PROVE  /\ Typed' /\ Received
           /\ UNCHANGED <<generation, nextEpoch, interface, rows, sources, calls, op>>
           /\ inbox[1].kind = "error" /\ ~IsOrder(inbox[1].call)
           /\ IF Asks(inbox[1].call) /\ ThisEpoch(inbox[1].call)
              THEN epochs' = [epochs EXCEPT ![inbox[1].call.tablet] = 0]
              ELSE epochs' = epochs
<1> DEFINE c == inbox[1].call
<1>1. /\ Receive("error") /\ Head(inbox).call.kind # "operate"
      /\ UNCHANGED <<generation, nextEpoch, interface, rows, sources, calls, op>>
      /\ epochs' = IF Head(inbox).call.kind # "getTabletList" /\ ThisEpoch(Head(inbox).call)
                   THEN [epochs EXCEPT ![Head(inbox).call.tablet] = 0]
                   ELSE epochs
  BY DEF OnError
<1>2. Received /\ Head(inbox) = inbox[1] /\ inbox[1].kind = "error"
  BY <1>1, ReceiveEffect
<1>3. ForDaemon(c) /\ c \in Call
  BY <1>2, MessageFields DEF Numbered, Received, TailOf, IsAnswer
<1>4. c.kind # "operate" /\ (Asks(c) <=> c.kind # "getTabletList")
  BY <1>1, <1>2, <1>3, CallFields DEF ForDaemon, Asks
<1>5. IF Asks(c) /\ ThisEpoch(c)
      THEN epochs' = [epochs EXCEPT ![c.tablet] = 0]
      ELSE epochs' = epochs
  BY <1>1, <1>2, <1>4
<1>6. Asks(c) => c.tablet \in Tablet
  BY <1>3, CallFields
<1>7. epochs' \in [Tablet -> 0..nextEpoch]
  BY <1>5, <1>6 DEF Typed, TypeOK
<1>8. Typed'
  BY <1>1, <1>2, <1>7, ReceivedTyped DEF Typed, TypeOK
<1> QED BY <1>1, <1>2, <1>4, <1>5, <1>8 DEF IsOrder

\* The row of a tablet is taken away, if it has one; the others keep their order.
Dropped(t) ==
    /\ \A i \in DOMAIN rows' : \E k \in DOMAIN rows : rows'[i] = rows[k] /\ rows[k].id # t
    /\ \A k \in DOMAIN rows : rows[k].id # t => \E i \in DOMAIN rows' : rows'[i] = rows[k]
    /\ \A i, j \in DOMAIN rows' : rows'[i].id = rows'[j].id => i = j
    /\ sources' = [sources EXCEPT ![t] = NoSource]

LEMMA RemoveTabletEffect ==
    ASSUME Typed, RowsAreAlive, SourcesAreRows, NEW t \in Tablet, RemoveTablet(t)
    PROVE  rows' \in Seq(Row) /\ Dropped(t) /\ sources' \in [Tablet -> Row \cup {NoSource}]
<1>1. rows \in Seq(Row) /\ sources \in [Tablet -> Row \cup {NoSource}]
  BY DEF Typed, TypeOK
<1>2. \A i, j \in DOMAIN rows : rows[i].id = rows[j].id => i = j
  BY DEF RowsAreAlive
<1>3. CASE t \in Shown
  <2>1. sources' = [sources EXCEPT ![t] = NoSource] /\ \E i \in RowsOf(t) : rows' = RemoveAt(rows, i)
    BY <1>3 DEF RemoveTablet
  <2>2. PICK k \in DOMAIN rows : rows[k].id = t /\ rows' = RemoveAt(rows, k)
    BY <2>1 DEF RowsOf
  <2>3. /\ RemoveAt(rows, k) \in Seq(Row)
        /\ \A i \in DOMAIN rows : i < k => i \in DOMAIN RemoveAt(rows, k) /\ RemoveAt(rows, k)[i] = rows[i]
        /\ \A i \in DOMAIN rows : i > k =>
               i - 1 \in DOMAIN RemoveAt(rows, k) /\ RemoveAt(rows, k)[i - 1] = rows[i]
        /\ \A i \in DOMAIN RemoveAt(rows, k) :
               \/ i < k /\ i \in DOMAIN rows /\ RemoveAt(rows, k)[i] = rows[i]
               \/ i >= k /\ i + 1 \in DOMAIN rows /\ RemoveAt(rows, k)[i] = rows[i + 1]
    BY <1>1, RemoveAtFacts
  <2>4. /\ rows' \in Seq(Row)
        /\ \A i \in DOMAIN rows : i < k => i \in DOMAIN rows' /\ rows'[i] = rows[i]
        /\ \A i \in DOMAIN rows : i > k => i - 1 \in DOMAIN rows' /\ rows'[i - 1] = rows[i]
        /\ \A i \in DOMAIN rows' :
               \/ i < k /\ i \in DOMAIN rows /\ rows'[i] = rows[i]
               \/ i >= k /\ i + 1 \in DOMAIN rows /\ rows'[i] = rows[i + 1]
    BY <2>2, <2>3
  <2>5. k \in Nat /\ DOMAIN rows \subseteq Nat /\ DOMAIN rows' \subseteq Nat
    BY <1>1, <2>4
  <2>6. \A i \in DOMAIN rows' : \E l \in DOMAIN rows : rows'[i] = rows[l] /\ rows[l].id # t
    <3> SUFFICES ASSUME NEW i \in DOMAIN rows'
                 PROVE  \E l \in DOMAIN rows : rows'[i] = rows[l] /\ rows[l].id # t
      OBVIOUS
    <3>1. CASE i < k /\ i \in DOMAIN rows /\ rows'[i] = rows[i]
      <4>1. i # k
        BY <2>5, <3>1
      <4> QED BY <1>2, <2>2, <3>1, <4>1
    <3>2. CASE i >= k /\ i + 1 \in DOMAIN rows /\ rows'[i] = rows[i + 1]
      <4>1. i + 1 # k
        BY <2>5, <3>2
      <4> QED BY <1>2, <2>2, <3>2, <4>1
    <3> QED BY <2>4, <3>1, <3>2
  <2>7. \A l \in DOMAIN rows : rows[l].id # t => \E i \in DOMAIN rows' : rows'[i] = rows[l]
    <3> SUFFICES ASSUME NEW l \in DOMAIN rows, rows[l].id # t
                 PROVE  \E i \in DOMAIN rows' : rows'[i] = rows[l]
      OBVIOUS
    <3>1. l < k \/ l > k
      BY <2>2, <2>5
    <3> QED BY <2>4, <3>1
  <2>8. ASSUME NEW i \in DOMAIN rows', NEW j \in DOMAIN rows', rows'[i].id = rows'[j].id
        PROVE  i = j
    <3>1. i \in Nat /\ j \in Nat
      BY <2>5
    <3>2. CASE i < k /\ j < k
      BY <1>2, <2>4, <2>5, <2>8, <3>1, <3>2
    <3>3. CASE i >= k /\ j >= k
      <4>1. i + 1 \in DOMAIN rows /\ j + 1 \in DOMAIN rows /\ rows'[i] = rows[i + 1] /\ rows'[j] = rows[j + 1]
        BY <2>4, <2>5, <3>1, <3>3
      <4>2. i + 1 = j + 1
        BY <1>2, <2>8, <4>1
      <4> QED BY <3>1, <4>2
    <3>4. CASE i < k /\ j >= k
      <4>1. i \in DOMAIN rows /\ j + 1 \in DOMAIN rows /\ rows'[i] = rows[i] /\ rows'[j] = rows[j + 1]
        BY <2>4, <2>5, <3>1, <3>4
      <4>2. i = j + 1
        BY <1>2, <2>8, <4>1
      <4> QED BY <2>5, <3>1, <3>4, <4>2
    <3>5. CASE i >= k /\ j < k
      <4>1. i + 1 \in DOMAIN rows /\ j \in DOMAIN rows /\ rows'[i] = rows[i + 1] /\ rows'[j] = rows[j]
        BY <2>4, <2>5, <3>1, <3>5
      <4>2. i + 1 = j
        BY <1>2, <2>8, <4>1
      <4> QED BY <2>5, <3>1, <3>5, <4>2
    <3> QED BY <2>5, <3>1, <3>2, <3>3, <3>4, <3>5
  <2>9. sources' \in [Tablet -> Row \cup {NoSource}]
    BY <1>1, <2>1
  <2> QED BY <2>1, <2>4, <2>6, <2>7, <2>8, <2>9 DEF Dropped
<1>4. CASE t \notin Shown
  <2>1. UNCHANGED <<rows, sources>>
    BY <1>4 DEF RemoveTablet
  <2>2. sources' = [sources EXCEPT ![t] = NoSource]
    BY <1>1, <1>4, <2>1 DEF SourcesAreRows
  <2>3. \A k \in DOMAIN rows : rows[k].id # t
    BY <1>4 DEF Shown
  <2> QED BY <1>1, <1>2, <2>1, <2>2, <2>3 DEF Dropped
<1> QED BY <1>3, <1>4

LEMMA TabletRemovedEffect ==
    ASSUME Typed, RowsAreAlive, SourcesAreRows, OnTabletRemoved
    PROVE  /\ Typed' /\ Received
           /\ UNCHANGED <<generation, nextEpoch, interface, calls, op>>
           /\ inbox[1].kind = "tabletRemoved" /\ inbox[1].tablet \in Tablet
           /\ IF interface /\ inbox[1].gen = generation
              THEN Dropped(inbox[1].tablet) /\ epochs' = [epochs EXCEPT ![inbox[1].tablet] = 0]
              ELSE UNCHANGED <<epochs, rows, sources>>
<1>1. /\ Receive("tabletRemoved")
      /\ UNCHANGED <<generation, nextEpoch, interface, calls, op>>
      /\ IF interface /\ Head(inbox).gen = generation
         THEN /\ epochs' = [epochs EXCEPT ![Head(inbox).tablet] = 0]
              /\ RemoveTablet(Head(inbox).tablet)
         ELSE UNCHANGED <<epochs, rows, sources>>
  BY DEF OnTabletRemoved, ForInterface
<1>2. Received /\ Head(inbox) = inbox[1] /\ inbox[1].kind = "tabletRemoved"
  BY <1>1, ReceiveEffect
<1>3. inbox[1].tablet \in Tablet
  BY <1>2, MessageFields DEF Received, IsSignal
<1>4. CASE interface /\ inbox[1].gen = generation
  <2>1. epochs' = [epochs EXCEPT ![inbox[1].tablet] = 0] /\ RemoveTablet(inbox[1].tablet)
    BY <1>1, <1>2, <1>4
  <2>2. /\ rows' \in Seq(Row) /\ Dropped(inbox[1].tablet)
        /\ sources' \in [Tablet -> Row \cup {NoSource}]
    BY <1>3, <2>1, RemoveTabletEffect
  <2>3. epochs' \in [Tablet -> 0..nextEpoch]
    BY <1>3, <2>1 DEF Typed, TypeOK
  <2>4. Typed'
    BY <1>1, <1>2, <2>2, <2>3, ReceivedTyped DEF Typed, TypeOK
  <2> QED BY <1>1, <1>2, <1>3, <1>4, <2>1, <2>2, <2>4
<1>5. CASE ~(interface /\ inbox[1].gen = generation)
  <2>1. UNCHANGED <<epochs, rows, sources>>
    BY <1>1, <1>2, <1>5
  <2>2. Typed'
    BY <1>1, <1>2, <2>1, ReceivedTyped DEF Typed, TypeOK
  <2> QED BY <1>1, <1>2, <1>3, <1>5, <2>1, <2>2
<1> QED BY <1>4, <1>5

\* One row is another, about the same tablet; its source says so.
RowChanged(k, row) ==
    /\ k \in DOMAIN rows /\ row \in Row /\ row.id = rows[k].id
    /\ DOMAIN rows' = DOMAIN rows /\ rows'[k] = row
    /\ \A i \in DOMAIN rows : i # k => rows'[i] = rows[i]
    /\ sources' = [sources EXCEPT ![row.id] = row]

LEMMA ChangeRowEffect ==
    ASSUME Typed, NEW k \in DOMAIN rows, NEW row \in Row, row.id = rows[k].id, ChangeRow(k, row)
    PROVE  RowChanged(k, row) /\ rows' \in Seq(Row) /\ sources' \in [Tablet -> Row \cup {NoSource}]
<1>1. /\ rows \in Seq(Row) /\ rows' = [rows EXCEPT ![k] = row]
      /\ sources' = [sources EXCEPT ![row.id] = row] /\ sources \in [Tablet -> Row \cup {NoSource}]
  BY DEF Typed, TypeOK, ChangeRow
<1>2. rows' \in Seq(Row)
  BY <1>1
<1>3. row.id \in Tablet
  BY DEF Row
<1> QED BY <1>1, <1>2, <1>3 DEF RowChanged

LEMMA ProfileChangedEffect ==
    ASSUME Typed, OnProfileChanged
    PROVE  /\ Typed' /\ Received
           /\ UNCHANGED <<generation, nextEpoch, epochs, interface, calls, op>>
           /\ inbox[1].kind = "profileChanged"
           /\ \/ \E k, row : /\ RowChanged(k, row)
                             /\ row.mode = rows[k].mode /\ row.touch = rows[k].touch
              \/ UNCHANGED <<rows, sources>>
<1> DEFINE m == inbox[1]
           row(i) == [rows[i] EXCEPT !.profile = m.profile]
<1>1. /\ Receive("profileChanged")
      /\ UNCHANGED <<generation, nextEpoch, epochs, interface, calls, op>>
  BY DEF OnProfileChanged
<1>2. Received /\ Head(inbox) = m /\ m.kind = "profileChanged" /\ m.profile \in Profile
  BY <1>1, ReceiveEffect, MessageFields DEF Received
<1>3. \/ \E i \in RowsOf(m.tablet) : ChangeRow(i, row(i))
      \/ UNCHANGED <<rows, sources>>
  BY <1>2 DEF OnProfileChanged
<1>4. CASE \E i \in RowsOf(m.tablet) : ChangeRow(i, row(i))
  <2>1. PICK k \in DOMAIN rows : ChangeRow(k, row(k))
    BY <1>4 DEF RowsOf
  <2>2. rows[k] \in Row
    BY DEF Typed, TypeOK
  <2>3. /\ row(k) \in Row /\ row(k).id = rows[k].id
        /\ row(k).mode = rows[k].mode /\ row(k).touch = rows[k].touch
    BY <1>2, <2>2 DEF Row
  <2> HIDE DEF row
  <2>4. /\ RowChanged(k, row(k)) /\ rows' \in Seq(Row)
        /\ sources' \in [Tablet -> Row \cup {NoSource}]
    BY <2>1, <2>3, ChangeRowEffect
  <2>5. Typed'
    BY <1>1, <1>2, <2>4, ReceivedTyped DEF Typed, TypeOK
  <2> QED BY <1>1, <1>2, <2>3, <2>4, <2>5
<1>5. CASE UNCHANGED <<rows, sources>>
  <2>1. Typed'
    BY <1>1, <1>2, <1>5, ReceivedTyped DEF Typed, TypeOK
  <2> QED BY <1>1, <1>2, <1>5, <2>1
<1> QED BY <1>3, <1>4, <1>5

\* The result of a call is counted, and the operation ends with the last.
LEMMA OperationReplyEffect ==
    ASSUME Typed, OrdersAreWatched, OnOperationReply
    PROVE  /\ Typed' /\ Received
           /\ UNCHANGED <<generation, nextEpoch, epochs, interface, calls>>
           /\ IsAnswer(inbox[1]) /\ IsOrder(inbox[1].call) /\ op.status = "pending"
           /\ op \in Op /\ op' \in Op /\ op'.status # "none"
           /\ op'.kind = op.kind /\ op'.tablet = op.tablet /\ op'.value = op.value
           /\ op'.gen = op.gen /\ op'.epoch = op.epoch /\ op'.written = op.written
           /\ op'.remaining = op.remaining - 1
           /\ op'.failed <=> op.failed \/ inbox[1].kind = "error"
           /\ op'.status = "pending" <=> op.remaining > 1
           /\ op'.status = "success" =>
                  op.remaining = 1 /\ ThisEpoch(op) /\ ~op.failed /\ inbox[1].kind = "reply"
           /\ op.remaining = 1 /\ ThisEpoch(op) /\ ~op.failed /\ inbox[1].kind = "reply" =>
                  op'.status = "success"
           /\ IF /\ op'.status = "success" /\ op.kind \in {"setStylusMode", "setTouch"}
                 /\ op.tablet \in Shown
              THEN \E k, row :
                       /\ RowChanged(k, row) /\ row.id = op.tablet
                       /\ row.touch = IF op.kind = "setTouch" THEN op.value ELSE rows[k].touch
                       /\ row.mode = IF op.kind = "setTouch" THEN rows[k].mode ELSE op.value
              ELSE UNCHANGED <<rows, sources>>
<1> DEFINE m == inbox[1]
           failed == op.failed \/ m.kind = "error"
           status == IF op.remaining > 1 THEN "pending" ELSE OperationDone(failed)
           row(i) == IF op.kind = "setTouch"
                     THEN [rows[i] EXCEPT !.touch = op.value]
                     ELSE [rows[i] EXCEPT !.mode = op.value]
           shows == /\ status = "success" /\ op.kind \in {"setStylusMode", "setTouch"}
                    /\ op.tablet \in Shown
<1>1. \E kind \in {"reply", "error"} : Receive(kind) /\ Head(inbox).call.kind = "operate"
  BY DEF OnOperationReply, ReceiveAnswer
<1>2. Received /\ Head(inbox) = m /\ m.kind \in {"reply", "error"} /\ m.call.kind = "operate"
  BY <1>1, ReceiveEffect
<1>3. /\ op' = [op EXCEPT !.status = status, !.remaining = @ - 1, !.failed = failed]
      /\ IF shows THEN \E i \in RowsOf(op.tablet) : ChangeRow(i, row(i)) ELSE UNCHANGED <<rows, sources>>
      /\ UNCHANGED <<generation, nextEpoch, epochs, interface, calls>>
  BY <1>2 DEF OnOperationReply
<1>4. IsAnswer(m) /\ IsOrder(m.call) /\ 1 \in DOMAIN inbox
  BY <1>2 DEF IsAnswer, IsOrder, Received, TailOf
<1>5. op.status = "pending" /\ op.remaining > 0
  BY <1>4 DEF OrdersAreWatched, OrderOf
<1>6. op \in Op
  BY <1>5 DEF Typed, TypeOK, NoOp
<1>7. op.remaining \in Nat
  BY <1>6 DEF Op
<1>8. /\ status \in {"pending", "success", "failed"} /\ failed \in BOOLEAN
      /\ status = "pending" <=> op.remaining > 1
      /\ status = "success" <=> op.remaining <= 1 /\ ThisEpoch(op) /\ ~failed
  BY <1>7 DEF OperationDone
<1> DEFINE f == failed
           s == status
<1>9. op' = [op EXCEPT !.status = s, !.remaining = @ - 1, !.failed = f]
  BY <1>3
<1>10. s \in {"pending", "success", "failed"} /\ f \in BOOLEAN
  BY <1>8
<1> HIDE DEF f, s
<1>11. /\ op' \in Op /\ op'.status = s /\ (op'.failed = f) /\ op'.remaining = op.remaining - 1
       /\ op'.kind = op.kind /\ op'.tablet = op.tablet /\ op'.value = op.value
       /\ op'.gen = op.gen /\ op'.epoch = op.epoch /\ op'.written = op.written
  <2> DEFINE R == [status : {"pending", "success", "failed"}, kind : Operation, tablet : Tablet,
                   value : Profile \cup Mode \cup Switch \cup {"half"}, gen : Nat, epoch : Nat,
                   remaining : Nat, failed : BOOLEAN, written : SUBSET (Tool \cup {"profile"})]
  <2>1. /\ op \in R /\ op.written \subseteq ToSet(Targets[op.kind]) /\ op.value \in ValuesOf(op.kind)
    BY <1>6 DEF Op
  <2>2. op.remaining - 1 \in Nat
    BY <1>5, <1>7
  <2> DEFINE n == op.remaining - 1
  <2>3. op' = [op EXCEPT !.status = s, !.remaining = n, !.failed = f] /\ n \in Nat
    BY <1>9, <2>1, <2>2
  <2> HIDE DEF n
  <2>4. /\ op' \in R /\ op'.status = s /\ op'.failed = f /\ op'.remaining = n
        /\ op'.kind = op.kind /\ op'.tablet = op.tablet /\ op'.value = op.value
        /\ op'.gen = op.gen /\ op'.epoch = op.epoch /\ op'.written = op.written
    BY <1>10, <2>1, <2>3
  <2>5. op' \in Op
    BY <2>1, <2>4 DEF Op
  <2> QED BY <2>4, <2>5 DEF n
<1>12. op'.status = status /\ (op'.failed <=> failed)
  BY <1>11 DEF f, s
<1>13. CASE shows
  <2>1. PICK k \in DOMAIN rows : ChangeRow(k, row(k)) /\ rows[k].id = op.tablet
    BY <1>3, <1>13 DEF RowsOf
  <2>2. rows[k] \in Row
    BY DEF Typed, TypeOK
  <2>3. op.value \in ValuesOf(op.kind)
    BY <1>6 DEF Op
  <2>6. /\ row(k) \in Row /\ row(k).id = rows[k].id
        /\ row(k).touch = IF op.kind = "setTouch" THEN op.value ELSE rows[k].touch
        /\ row(k).mode = IF op.kind = "setTouch" THEN rows[k].mode ELSE op.value
    <3>1. CASE op.kind = "setTouch"
      <4>1. op.value \in Switch
        BY <2>3, <3>1 DEF ValuesOf
      <4>2. row(k) = [rows[k] EXCEPT !.touch = op.value]
        BY <3>1
      <4> HIDE DEF row
      <4>3. /\ row(k) \in Row /\ row(k).id = rows[k].id
            /\ row(k).touch = op.value /\ row(k).mode = rows[k].mode
        BY <2>2, <4>1, <4>2 DEF Row
      <4> QED BY <3>1, <4>3
    <3>2. CASE op.kind # "setTouch"
      <4>1. op.value \in Mode
        BY <1>13, <2>3, <3>2 DEF ValuesOf
      <4>2. row(k) = [rows[k] EXCEPT !.mode = op.value]
        BY <3>2
      <4> HIDE DEF row
      <4>3. /\ row(k) \in Row /\ row(k).id = rows[k].id
            /\ row(k).mode = op.value /\ row(k).touch = rows[k].touch
        BY <2>2, <4>1, <4>2 DEF Row
      <4> QED BY <3>2, <4>3
    <3> QED BY <3>1, <3>2
  <2> HIDE DEF row, status, failed
  <2>7. /\ RowChanged(k, row(k)) /\ rows' \in Seq(Row)
        /\ sources' \in [Tablet -> Row \cup {NoSource}]
    BY <2>1, <2>6, ChangeRowEffect
  <2>8. Typed'
    BY <1>2, <1>3, <1>11, <2>7, ReceivedTyped DEF Typed, TypeOK
  <2>9. \E k1, row1 :
            /\ RowChanged(k1, row1) /\ row1.id = op.tablet
            /\ row1.touch = IF op.kind = "setTouch" THEN op.value ELSE rows[k1].touch
            /\ row1.mode = IF op.kind = "setTouch" THEN rows[k1].mode ELSE op.value
    BY <2>1, <2>6, <2>7
  <2>10. op'.status # "none"
    BY <1>10, <1>11
  <2>11. /\ op'.failed <=> op.failed \/ inbox[1].kind = "error"
         /\ op'.status = "pending" <=> op.remaining > 1
         /\ op'.status = "success" <=>
               op.remaining = 1 /\ ThisEpoch(op) /\ ~op.failed /\ inbox[1].kind = "reply"
    BY <1>2, <1>5, <1>7, <1>8, <1>12 DEF failed
  <2> QED BY <1>2, <1>3, <1>4, <1>5, <1>6, <1>11, <1>12, <1>13, <2>8, <2>9, <2>10, <2>11
<1>14. CASE ~shows
  <2>1. UNCHANGED <<rows, sources>>
    BY <1>3, <1>14
  <2> HIDE DEF status, failed
  <2>2. Typed'
    BY <1>2, <1>3, <1>11, <2>1, ReceivedTyped DEF Typed, TypeOK
  <2>10. op'.status # "none"
    BY <1>10, <1>11
  <2>11. /\ op'.failed <=> op.failed \/ inbox[1].kind = "error"
         /\ op'.status = "pending" <=> op.remaining > 1
         /\ op'.status = "success" <=>
               op.remaining = 1 /\ ThisEpoch(op) /\ ~op.failed /\ inbox[1].kind = "reply"
    BY <1>2, <1>5, <1>7, <1>8, <1>12 DEF failed
  <2> QED BY <1>2, <1>3, <1>4, <1>5, <1>6, <1>11, <1>12, <1>14, <2>1, <2>2, <2>10, <2>11
<1> QED BY <1>13, <1>14

\* An operation has as many calls as targets.
LEMMA TargetsCounted ==
    ASSUME NEW kind \in Operation
    PROVE  /\ Targets[kind] \in Seq(Tool \cup {"profile"}) /\ Len(Targets[kind]) \in 1..3
           /\ IsFiniteSet(ToSet(Targets[kind]))
           /\ Cardinality(ToSet(Targets[kind])) = Len(Targets[kind])
           /\ \A i, j \in DOMAIN Targets[kind] : Targets[kind][i] = Targets[kind][j] => i = j
<1>1. kind \in {"setProfile", "setStylusMode", "setRotation", "setTouch"}
  BY TargetsFacts
<1>2. /\ IsFiniteSet({"profile"}) /\ Cardinality({"profile"}) = 1
      /\ IsFiniteSet({"touch"}) /\ Cardinality({"touch"}) = 1
      /\ IsFiniteSet({"stylus"}) /\ Cardinality({"stylus"}) = 1
  BY FS_Singleton
<1>3. /\ IsFiniteSet({"stylus"} \cup {"eraser"}) /\ Cardinality({"stylus"} \cup {"eraser"}) = 2
  BY <1>2, FS_AddElement
<1>4. /\ IsFiniteSet({"stylus", "eraser"}) /\ Cardinality({"stylus", "eraser"}) = 2
  <2>1. {"stylus"} \cup {"eraser"} = {"stylus", "eraser"}
    OBVIOUS
  <2> QED BY <1>3, <2>1
<1>5. /\ IsFiniteSet({"stylus", "eraser"} \cup {"touch"})
      /\ Cardinality({"stylus", "eraser"} \cup {"touch"}) = 3
  BY <1>4, FS_AddElement
<1>6. /\ IsFiniteSet({"stylus", "eraser", "touch"}) /\ Cardinality({"stylus", "eraser", "touch"}) = 3
  <2>1. {"stylus", "eraser"} \cup {"touch"} = {"stylus", "eraser", "touch"}
    OBVIOUS
  <2> QED BY <1>5, <2>1
<1>7. CASE kind = "setProfile"
  <2>1. Targets[kind] = <<"profile">> /\ ToSet(Targets[kind]) = {"profile"}
    BY <1>7, TargetsFacts, TargetSets
  <2> QED BY <1>2, <2>1
<1>8. CASE kind = "setTouch"
  <2>1. Targets[kind] = <<"touch">> /\ ToSet(Targets[kind]) = {"touch"}
    BY <1>8, TargetsFacts, TargetSets
  <2> QED BY <1>2, <2>1 DEF Tool
<1>9. CASE kind = "setStylusMode"
  <2>1. Targets[kind] = <<"stylus", "eraser">> /\ ToSet(Targets[kind]) = {"stylus", "eraser"}
    BY <1>9, TargetsFacts, TargetSets
  <2> QED BY <1>4, <2>1 DEF Tool
<1>10. CASE kind = "setRotation"
  <2>1. /\ Targets[kind] = <<"stylus", "eraser", "touch">>
        /\ ToSet(Targets[kind]) = {"stylus", "eraser", "touch"}
    BY <1>10, TargetsFacts, TargetSets
  <2> QED BY <1>6, <2>1 DEF Tool
<1> QED BY <1>1, <1>7, <1>8, <1>9, <1>10

\* The user asks for something.
LEMMA OperateEffect ==
    ASSUME Typed, NEW kind \in Operation, NEW t \in Tablet, NEW v \in ValuesOf(kind),
           Operate(kind, t, v)
    PROVE  /\ Typed' /\ UNCHANGED <<serviceVars, listening, inbox, modelVars, changes, timeouts>>
           /\ op.status # "pending" /\ (interface => t \in Shown)
           /\ op'.kind = kind /\ op'.tablet = t /\ op'.value = v /\ op'.gen = generation
           /\ op'.epoch = epochs[t] /\ op'.remaining = Cardinality(ToSet(Targets[kind]))
           /\ (op'.failed <=> ~interface) /\ op'.written = {}
           /\ op'.status = (IF interface THEN "pending" ELSE "failed")
           /\ op'.remaining > 0
           /\ Grows(calls', calls)
           /\ \A j : NewCall(j) =>
                  /\ interface /\ IsOrder(calls'[j])
                  /\ calls'[j].operation = kind /\ calls'[j].tablet = t /\ calls'[j].value = v
                  /\ calls'[j].target \in ToSet(Targets[kind])
           /\ \A i, j : NewCall(i) /\ NewCall(j) /\ calls'[i].target = calls'[j].target => i = j
           /\ interface => \A a \in ToSet(Targets[kind]) : \E j : NewCall(j) /\ calls'[j].target = a
<1> DEFINE targets == Targets[kind]
           e == [i \in DOMAIN targets |-> [kind |-> "operate", operation |-> kind,
                                           tablet |-> t, target |-> targets[i], value |-> v]]
           o == [kind |-> kind, tablet |-> t, value |-> v, gen |-> generation,
                 epoch |-> epochs[t], remaining |-> Len(targets), failed |-> ~interface,
                 written |-> {}, status |-> IF interface THEN "pending" ELSE "failed"]
           n == Len(calls)
<1>1. /\ op.status # "pending" /\ (interface => t \in Shown)
      /\ op' = o
      /\ IF interface THEN Ask(e) ELSE UNCHANGED calls
      /\ UNCHANGED <<serviceVars, listening, inbox, modelVars, changes, timeouts>>
  BY DEF Operate
<1>2. /\ targets \in Seq(Tool \cup {"profile"}) /\ Len(targets) \in 1..3
      /\ Cardinality(ToSet(targets)) = Len(targets)
      /\ \A i, j \in DOMAIN targets : targets[i] = targets[j] => i = j
  BY TargetsCounted
<1>3. /\ DOMAIN targets = 1..Len(targets)
      /\ \A i \in DOMAIN targets : targets[i] \in ToSet(targets) /\ targets[i] \in Tool \cup {"profile"}
      /\ \A a \in ToSet(targets) : \E i \in DOMAIN targets : targets[i] = a
  BY <1>2 DEF ToSet
<1>4. v \in Profile \cup Mode \cup Switch \cup {"half"}
  BY TargetsFacts DEF ValuesOf
<1>5. /\ o.kind = kind /\ o.tablet = t /\ o.value = v /\ o.gen = generation
      /\ o.epoch = epochs[t] /\ o.remaining = Len(targets) /\ (o.failed = ~interface) /\ o.written = {}
      /\ o.status = (IF interface THEN "pending" ELSE "failed")
  OBVIOUS
<1>6. o \in Op
  <2> DEFINE failed == ~interface
             status == IF interface THEN "pending" ELSE "failed"
             len == Len(targets)
  <2>1. /\ generation \in Nat /\ epochs[t] \in Nat /\ failed \in BOOLEAN /\ len \in Nat
        /\ status \in {"pending", "success", "failed"}
    BY <1>2 DEF Typed, TypeOK
  <2>2. o = [kind |-> kind, tablet |-> t, value |-> v, gen |-> generation,
             epoch |-> epochs[t], remaining |-> len, failed |-> failed,
             written |-> {}, status |-> status]
    OBVIOUS
  <2> HIDE DEF failed, status, len, o, targets
  <2>3. /\ o \in [status : {"pending", "success", "failed"}, kind : Operation, tablet : Tablet,
                  value : Profile \cup Mode \cup Switch \cup {"half"}, gen : Nat, epoch : Nat,
                  remaining : Nat, failed : BOOLEAN, written : SUBSET (Tool \cup {"profile"})]
        /\ o.written = {} /\ o.value = v /\ o.kind = kind
    BY <1>4, <2>1, <2>2
  <2> QED BY <2>3 DEF Op
<1>7. /\ DOMAIN e = DOMAIN targets
      /\ \A i \in DOMAIN targets :
             /\ IsOrder(e[i]) /\ e[i].operation = kind /\ e[i].tablet = t /\ e[i].value = v
             /\ e[i].target = targets[i]
  BY DEF IsOrder
<1>8. e \in Seq(Call)
  <2>1. ASSUME NEW i \in DOMAIN targets
        PROVE  e[i] \in Call
    <3>1. e[i] \in [kind : {"operate"}, operation : Operation, tablet : Tablet,
                    target : Tool \cup {"profile"}, value : Profile \cup Mode \cup Switch \cup {"half"}]
      BY <1>3, <1>4, <2>1
    <3>2. e[i].target \in ToSet(Targets[e[i].operation]) /\ e[i].value \in ValuesOf(e[i].operation)
      BY <1>3, <1>7, <2>1
    <3> HIDE DEF e
    <3> QED BY <3>1, <3>2 DEF Call, Order
  <2>2. e \in [1..Len(targets) -> Call]
    BY <1>3, <2>1
  <2> HIDE DEF e, targets
  <2>3. Len(targets) \in Nat
    BY <1>2
  <2> QED BY <2>2, <2>3
<1> HIDE DEF e, o
<1>9. Typed' /\ Grows(calls', calls) /\ IF interface THEN GrowsBy(calls', calls, e) ELSE calls' = calls
  <2>1. /\ calls' \in Seq(Call) /\ Grows(calls', calls)
        /\ IF interface THEN GrowsBy(calls', calls, e) ELSE calls' = calls
    <3>1. CASE interface
      BY <1>1, <1>8, <3>1, AskEffect DEF GrowsBy
    <3>2. CASE ~interface
      BY <1>1, <3>2 DEF Grows, Typed, TypeOK
    <3> QED BY <3>1, <3>2
  <2>2. Typed'
    BY <1>1, <1>6, <2>1 DEF Typed, TypeOK, serviceVars, modelVars
  <2> QED BY <2>1, <2>2
<1>10. n \in Nat
  BY DEF Typed, TypeOK
<1> HIDE DEF n
<1>11. \A j : NewCall(j) => interface /\ j \in Nat /\ j - n \in DOMAIN e /\ calls'[j] = e[j - n]
  BY <1>9 DEF GrowsBy, NewCall, n, Grows, Added
<1>12. interface => \A k \in DOMAIN e : NewCall(n + k) /\ calls'[n + k] = e[k]
  BY <1>9 DEF GrowsBy, NewCall, n
<1>13. ASSUME NEW j, NewCall(j)
       PROVE  /\ interface /\ IsOrder(calls'[j])
              /\ calls'[j].operation = kind /\ calls'[j].tablet = t /\ calls'[j].value = v
              /\ calls'[j].target = targets[j - n] /\ j - n \in DOMAIN targets
              /\ calls'[j].target \in ToSet(targets)
  BY <1>3, <1>7, <1>11, <1>13
<1>14. ASSUME NEW i, NEW j, NewCall(i), NewCall(j), calls'[i].target = calls'[j].target
       PROVE  i = j
  <2>1. i - n = j - n
    BY <1>2, <1>13, <1>14
  <2> QED BY <1>10, <1>11, <1>14, <2>1
<1>15. interface => \A a \in ToSet(targets) : \E j : NewCall(j) /\ calls'[j].target = a
  BY <1>3, <1>7, <1>12
<1>16. /\ op'.kind = kind /\ op'.tablet = t /\ op'.value = v /\ op'.gen = generation
       /\ op'.epoch = epochs[t] /\ op'.remaining = Cardinality(ToSet(targets))
       /\ op'.failed = ~interface /\ op'.written = {}
       /\ op'.status = (IF interface THEN "pending" ELSE "failed")
       /\ op'.remaining > 0
  <2>1. Len(targets) > 0
    BY <1>2
  <2> QED BY <1>1, <1>2, <1>5, <2>1
<1> HIDE DEF targets
<1>17. /\ Typed' /\ UNCHANGED <<serviceVars, listening, inbox, modelVars, changes, timeouts>>
       /\ op.status # "pending" /\ (interface => t \in Shown)
       /\ Grows(calls', calls)
  BY <1>1, <1>9
<1>18. /\ \A j : NewCall(j) =>
              /\ interface /\ IsOrder(calls'[j])
              /\ calls'[j].operation = kind /\ calls'[j].tablet = t /\ calls'[j].value = v
              /\ calls'[j].target \in ToSet(targets)
       /\ \A i, j : NewCall(i) /\ NewCall(j) /\ calls'[i].target = calls'[j].target => i = j
  BY <1>13, <1>14
<1> QED BY <1>15, <1>16, <1>17, <1>18 DEF targets

-----------------------------------------------------------------------------
(* The steps, by what they do to what is under way.                        *)

\* The daemon appears or goes, and the bus says so.
Announced ==
    /\ Typed' /\ AppletIdle /\ Grows(inbox', inbox)
    /\ \A j : New(j) => Owner(inbox'[j]) /\ inbox'[j].owned = up'
    /\ \E j : New(j)
    /\ present' \in {{}, present} /\ UNCHANGED <<mode, heard, drifted>>

LEMMA AnnouncedSteps ==
    ASSUME Typed, ServiceStarts \/ ServiceStops
    PROVE  Announced
<1>1. CASE ServiceStarts
  BY <1>1, StartsEffect DEF Announced
<1>2. CASE ServiceStops
  BY <1>2, StopsEffect DEF Announced
<1> QED BY <1>1, <1>2

\* The daemon signals something about t: that its profile is another, that it is there,
\* that it is there no longer.
ProfileSaid(t) ==
    /\ t \in present /\ UNCHANGED <<present, heard>>
    /\ drifted \subseteq drifted' /\ (t \notin drifted' => mode' = mode)
    /\ \A j : New(j) => inbox'[j].kind = "profileChanged"

Plugged(t) ==
    /\ t \notin present /\ present' = present \cup {t} /\ heard' = heard \cup {t}
    /\ \A j : New(j) => inbox'[j].kind # "tabletRemoved"
    /\ listening # 0 => \E j : New(j) /\ inbox'[j].kind = "tabletAdded"

Unplugged(t) ==
    /\ t \in present /\ present' = present \ {t} /\ UNCHANGED <<heard, mode, drifted>>
    /\ \A j : New(j) => inbox'[j].kind = "tabletRemoved"
    /\ listening # 0 => \E j : New(j)

Signalled(t) ==
    /\ Typed' /\ AppletIdle /\ UNCHANGED up /\ Grows(inbox', inbox)
    /\ \A j : New(j) => Signal(inbox'[j], t)
    /\ ProfileSaid(t) \/ Plugged(t) \/ Unplugged(t)
    /\ \A u \in Tablet : u # t => mode'[u] = mode[u] /\ (u \in drifted' <=> u \in drifted)

LEMMA AppearsSignalled ==
    ASSUME Typed, NEW t \in Tablet, NEW p \in Profile, TabletAppears(t, p)
    PROVE  Signalled(t)
<1>1. /\ Typed' /\ AppletIdle /\ UNCHANGED up /\ Grows(inbox', inbox)
      /\ t \notin present /\ present' = present \cup {t}
      /\ heard' = heard \cup {t} /\ drifted' = drifted \ {t}
      /\ mode' = [mode EXCEPT ![t] = AsInProfile]
      /\ \A j : New(j) => Signal(inbox'[j], t) /\ inbox'[j].kind # "tabletRemoved"
      /\ listening # 0 => \E j : New(j) /\ inbox'[j].kind = "tabletAdded"
  BY AppearsEffect
<1>2. mode \in [Tablet -> Modes]
  BY DEF Typed, TypeOK
<1> QED BY <1>1, <1>2 DEF Signalled, Plugged

LEMMA DisappearsSignalled ==
    ASSUME Typed, NEW t \in Tablet, TabletDisappears(t)
    PROVE  Signalled(t)
BY DisappearsEffect DEF Signalled, Unplugged

LEMMA ProfileChangesSignalled ==
    ASSUME Typed, NEW t \in Tablet, NEW p \in Profile, ProfileChanges(t, p)
    PROVE  Signalled(t)
<1>1. /\ Typed' /\ AppletIdle /\ t \in present /\ UNCHANGED <<up, present, heard>>
      /\ drifted \subseteq drifted' /\ (t \notin drifted' => mode' = mode)
      /\ \A u \in Tablet \ {t} : mode'[u] = mode[u]
      /\ Grows(inbox', inbox)
      /\ \A j : New(j) => Signal(inbox'[j], t) /\ inbox'[j].kind = "profileChanged"
  BY ProfileChangesEffect
<1>2. drifted' \in {drifted, drifted \cup {t}}
  BY DEF ProfileChanges, SetsProfile
<1> QED BY <1>1, <1>2 DEF Signalled, ProfileSaid

\* What the answer to call c says.
Says(c, v) ==
    /\ c.kind = "nameHasOwner" => v = up
    /\ c.kind = "getTabletList" => v = present
    /\ c.kind = "isTouchSensor" => v \in BOOLEAN /\ (v <=> c.tablet \in present \cap Sensor)
    /\ c.kind # "getProfile"
    /\ c.kind = "getProperty" => v = mode[c.tablet]

OpKept ==
    /\ op'.status = op.status /\ op'.kind = op.kind /\ op'.tablet = op.tablet
    /\ op'.value = op.value /\ op'.gen = op.gen /\ op'.epoch = op.epoch
    /\ op'.failed = op.failed /\ op'.remaining = op.remaining

\* The first call is answered.  Before the answer there may be the signal of an order.
Served ==
    /\ Typed' /\ TailOf(calls', calls) /\ calls[1] \in Call /\ ~IsMatch(calls[1])
    /\ Grows(inbox', inbox)
    /\ UNCHANGED <<up, present, heard, listening, modelVars>>
    /\ OpKept
    /\ ~IsOrder(calls[1]) => UNCHANGED <<op, mode, drifted>>
    /\ \A j : New(j) =>
           \/ IsAnswer(inbox'[j]) /\ inbox'[j].call = calls[1]
           \/ /\ IsOrder(calls[1]) /\ Signal(inbox'[j], calls[1].tablet)
              /\ inbox'[j].kind = "profileChanged" /\ calls[1].tablet \in present
    /\ \E j : New(j) /\ IsAnswer(inbox'[j])
    /\ \A i, j : New(i) /\ New(j) /\ IsAnswer(inbox'[i]) /\ IsAnswer(inbox'[j]) => i = j
    /\ \A j : New(j) /\ inbox'[j].kind = "error" =>
           ForDaemon(calls[1]) /\ (~up \/ timeouts' > 0)
    /\ \A j : New(j) /\ inbox'[j].kind = "reply" => Says(calls[1], inbox'[j].value)
    /\ timeouts' \in {timeouts, timeouts + 1}
    /\ timeouts' # timeouts => op' = op

LEMMA NameServed ==
    ASSUME Typed, ServeBus, ~IsMatch(Head(calls))
    PROVE  Served
<1> DEFINE m == [kind |-> "reply", call |-> calls[1], value |-> up]
<1>1. /\ Typed' /\ BusIdle /\ UNCHANGED listening /\ calls[1].kind = "nameHasOwner"
      /\ Answered(m)
  BY NameEffect
<1>2. m.kind = "reply" /\ m.call = calls[1] /\ m.value = up
  OBVIOUS
<1> HIDE DEF m
<1>3. /\ Grows(inbox', inbox) /\ \A j : New(j) => inbox'[j] = m
      /\ \E j : New(j)
      /\ \A i, j : New(i) /\ New(j) => i = j
  BY <1>1 DEF Answered, New, GrowsByOne
<1>4. Says(calls[1], up)
  BY <1>1 DEF Says
<1> QED BY <1>1, <1>2, <1>3, <1>4 DEF Served, Answered, OpKept, IsMatch, IsOrder, IsAnswer,
                                        BusIdle, serviceVars, countVars

LEMMA ReadServed ==
    ASSUME Typed, ServeRead
    PROVE  Served
<1>1. /\ Typed' /\ BusIdle /\ UNCHANGED listening /\ up
  BY ReadEffect
<1>2. PICK v \in Answers(calls[1]) :
          /\ Answered([kind |-> "reply", call |-> calls[1], value |-> v])
          /\ \/ calls[1].kind = "getTabletList" /\ v = present
             \/ /\ calls[1].kind = "isTouchSensor" /\ v \in BOOLEAN
                /\ v <=> calls[1].tablet \in present \cap Sensor
             \/ calls[1].kind = "getProperty" /\ v = mode[calls[1].tablet]
  BY ReadEffect
<1> DEFINE m == [kind |-> "reply", call |-> calls[1], value |-> v]
<1>3. Says(calls[1], v) /\ ~IsMatch(calls[1]) /\ ~IsOrder(calls[1])
  BY <1>2 DEF Says, IsMatch, IsOrder
<1>4. m.kind = "reply" /\ m.call = calls[1] /\ m.value = v /\ Answered(m)
  BY <1>2
<1> HIDE DEF m
<1>5. /\ Grows(inbox', inbox) /\ \A j : New(j) => inbox'[j] = m
      /\ \E j : New(j)
      /\ \A i, j : New(i) /\ New(j) => i = j
  BY <1>4 DEF Answered, New, GrowsByOne
<1> QED BY <1>1, <1>3, <1>4, <1>5 DEF Served, Answered, OpKept, IsAnswer,
                                        BusIdle, serviceVars, countVars

LEMMA NobodyServed ==
    ASSUME Typed, ServeNobody
    PROVE  Served
<1> DEFINE m == [kind |-> "error", call |-> calls[1]]
<1>1. /\ Typed' /\ BusIdle /\ UNCHANGED listening /\ ~up /\ ForDaemon(calls[1])
      /\ Answered(m)
  BY NobodyEffect
<1>2. m.kind = "error" /\ m.call = calls[1]
  OBVIOUS
<1> HIDE DEF m
<1>3. /\ Grows(inbox', inbox) /\ \A j : New(j) => inbox'[j] = m
      /\ \E j : New(j)
      /\ \A i, j : New(i) /\ New(j) => i = j
  BY <1>1 DEF Answered, New, GrowsByOne
<1> QED BY <1>1, <1>2, <1>3 DEF Served, Answered, OpKept, IsMatch, ForDaemon, IsAnswer,
                                  BusIdle, serviceVars, countVars

LEMMA TimesOutServed ==
    ASSUME Typed, timeouts \in Nat, TimesOut
    PROVE  Served /\ timeouts' > 0
<1> DEFINE m == [kind |-> "error", call |-> calls[1]]
<1>1. /\ Typed' /\ UNCHANGED <<up, present, heard, listening, modelVars, op>>
      /\ timeouts' = timeouts + 1 /\ ForDaemon(calls[1])
      /\ Answered(m)
  BY TimesOutEffect
<1>2. m.kind = "error" /\ m.call = calls[1]
  OBVIOUS
<1> HIDE DEF m
<1>3. /\ Grows(inbox', inbox) /\ \A j : New(j) => inbox'[j] = m
      /\ \E j : New(j)
      /\ \A i, j : New(i) /\ New(j) => i = j
  BY <1>1 DEF Answered, New, GrowsByOne
<1>4. timeouts' > 0
  BY <1>1
<1>5. ~IsOrder(calls[1]) => UNCHANGED <<op, mode, drifted>>
  <2>1. Head(calls) = calls[1]
    BY CallTaken DEF TimesOut
  <2> QED BY <1>1, <2>1 DEF TimesOut, IsOrder
<1> QED BY <1>1, <1>2, <1>3, <1>4, <1>5 DEF Served, Answered, OpKept, IsMatch, ForDaemon, IsAnswer

LEMMA OperationServed ==
    ASSUME Typed, OrdersAreWatched, ServeOperation
    PROVE  Served /\ OrderOf(calls[1]) /\ UNCHANGED timeouts
<1>1. /\ Typed' /\ UNCHANGED <<up, present, heard, listening, modelVars, countVars>>
      /\ TailOf(calls', calls) /\ calls[1] \in Order /\ IsOrder(calls[1]) /\ OrderOf(calls[1])
      /\ Grows(inbox', inbox)
      /\ calls[1].tablet \in present => op' = [op EXCEPT !.written = @ \cup {calls[1].target}]
      /\ calls[1].tablet \notin present => UNCHANGED <<mode, drifted, op>>
  BY OperationEffect
<1>2. PICK k : /\ New(k) /\ inbox'[k] = [kind |-> "reply", call |-> calls[1], value |-> TRUE]
               /\ \A j : New(j) /\ j # k =>
                      /\ Signal(inbox'[j], calls[1].tablet) /\ inbox'[j].kind = "profileChanged"
                      /\ calls[1].tablet \in present
  BY OperationEffect
<1>3. inbox'[k].kind = "reply" /\ inbox'[k].call = calls[1]
  BY <1>2
<1>4. OpKept
  <2>1. op \in Op
    BY <1>1 DEF OrderOf, Typed, TypeOK, NoOp
  <2>2. CASE calls[1].tablet \in present
    BY <1>1, <2>1, <2>2 DEF OpKept, Op
  <2>3. CASE calls[1].tablet \notin present
    BY <1>1, <2>3 DEF OpKept
  <2> QED BY <2>2, <2>3
<1>5. calls[1] \in Call /\ ~IsMatch(calls[1]) /\ \A v : Says(calls[1], v)
  BY <1>1 DEF Call, IsOrder, IsMatch, Says
<1>6. \A j : New(j) => \/ j = k
                       \/ /\ Signal(inbox'[j], calls[1].tablet) /\ inbox'[j].kind = "profileChanged"
                          /\ calls[1].tablet \in present
                          /\ ~IsAnswer(inbox'[j]) /\ inbox'[j].kind \notin {"reply", "error"}
  BY <1>2 DEF IsAnswer
<1>7. IsAnswer(inbox'[k])
  BY <1>3 DEF IsAnswer
<1> QED BY <1>1, <1>2, <1>3, <1>4, <1>5, <1>6, <1>7 DEF Served, countVars

\* The service appears or goes, for the applet: what it knows is forgotten.
Renewed ==
    /\ Typed' /\ Received /\ Cleared
    /\ Owner(inbox[1]) \/ (inbox[1].kind = "reply" /\ inbox[1].call.kind = "nameHasOwner")
    /\ Grows(calls', calls)
    /\ \A j : NewCall(j) =>
           /\ calls'[j].kind \in {"removeMatch", "addMatch", "getTabletList"}
           /\ calls'[j].gen = IF calls'[j].kind = "removeMatch" THEN 0 ELSE generation'
    /\ \A i, j : NewCall(i) /\ NewCall(j) /\ IsMatch(calls'[i]) /\ IsMatch(calls'[j]) /\ i < j =>
           calls'[i].kind = "removeMatch"
    /\ interface' =>
           /\ Owner(inbox[1]) => inbox[1].owned
           /\ \E i, j : /\ NewCall(i) /\ NewCall(j) /\ i < j
                        /\ calls'[i].kind = "addMatch" /\ calls'[j].kind = "getTabletList"
    /\ ~interface' =>
           /\ Owner(inbox[1]) /\ ~inbox[1].owned
           /\ \A j : NewCall(j) => calls'[j].kind = "removeMatch"
    /\ inbox[1].kind = "reply" =>
           inbox[1].call.kind = "nameHasOwner" /\ inbox[1].call.gen = generation /\ inbox[1].value
    /\ \A j : NewCall(j) /\ calls'[j].kind = "getTabletList" =>
           \E i : NewCall(i) /\ i < j /\ calls'[i].kind = "addMatch"

LEMMA RegisteredRenewed ==
    ASSUME Typed, Received, OnServiceRegistered,
           \/ Owner(inbox[1]) /\ inbox[1].owned
           \/ /\ inbox[1].kind = "reply" /\ inbox[1].call.kind = "nameHasOwner"
              /\ inbox[1].call.gen = generation /\ inbox[1].value
    PROVE  Renewed
<1>1. /\ Typed' /\ Cleared /\ interface' = TRUE
      /\ Grows(calls', calls)
      /\ \A j : NewCall(j) => calls'[j].kind \in {"removeMatch", "addMatch", "getTabletList"}
      /\ \A j : NewCall(j) => calls'[j].gen = IF calls'[j].kind = "removeMatch" THEN 0 ELSE generation'
      /\ \A i, j : NewCall(i) /\ NewCall(j) /\ IsMatch(calls'[i]) /\ IsMatch(calls'[j]) /\ i < j =>
             calls'[i].kind = "removeMatch"
      /\ \E i, j : /\ NewCall(i) /\ NewCall(j) /\ i < j
                   /\ calls'[i].kind = "addMatch" /\ calls'[j].kind = "getTabletList"
      /\ \A j : NewCall(j) /\ calls'[j].kind = "getTabletList" =>
             \E i : NewCall(i) /\ i < j /\ calls'[i].kind = "addMatch"
  BY RegisteredEffect
<1> QED BY <1>1 DEF Renewed, Owner

LEMMA OwnerChangedRenewed ==
    ASSUME Typed, OnOwnerChanged
    PROVE  Renewed
<1>1. /\ Received /\ Owner(inbox[1])
      /\ IF inbox[1].owned THEN OnServiceRegistered ELSE OnServiceUnregistered
  BY OwnerChangedEffect
<1>2. CASE inbox[1].owned
  BY <1>1, <1>2, RegisteredRenewed
<1>3. CASE ~inbox[1].owned
  <2>1. /\ Typed' /\ Cleared /\ interface' = FALSE
        /\ Grows(calls', calls)
        /\ \A j : NewCall(j) => calls'[j].kind = "removeMatch" /\ calls'[j].gen = 0
    BY <1>1, <1>3, UnregisteredEffect
  <2> QED BY <1>1, <1>3, <2>1 DEF Renewed, Owner
<1> QED BY <1>2, <1>3

\* A message is about a tablet.
About(m, t) ==
    \/ IsSignal(m) /\ m.tablet = t
    \/ m.kind = "reply" /\ m.call.kind = "getTabletList" /\ t \in m.value
    \/ IsAnswer(m) /\ Asks(m.call) /\ m.call.tablet = t

\* The answer to the question whether the service is there already.
Registers(m) ==
    /\ m.kind = "reply" /\ m.call.kind = "nameHasOwner"
    /\ m.call.gen = generation /\ m.value

\* Any other message: something about a tablet may change, if the message is about the
\* present lifetime of the service.
Passed ==
    /\ Typed' /\ Received /\ ~Owner(inbox[1]) /\ ~Registers(inbox[1])
    /\ UNCHANGED <<generation, interface>>
    /\ nextEpoch' >= nextEpoch
    /\ Grows(calls', calls)
    /\ \A j : NewCall(j) =>
           /\ calls'[j].kind \in {"isTouchSensor", "getProfile"}
           /\ calls'[j].gen = generation /\ calls'[j].epoch \in 1..nextEpoch'
           /\ Current(inbox[1]) /\ About(inbox[1], calls'[j].tablet)
    /\ \A t \in Tablet :
           \/ epochs'[t] = epochs[t]
           \/ Current(inbox[1]) /\ epochs'[t] = 0
           \/ Current(inbox[1]) /\ epochs[t] = 0 /\ epochs'[t] > nextEpoch
    /\ rows' = rows \/ Current(inbox[1]) \/ (DOMAIN rows' = DOMAIN rows /\ rows # <<>>)
    /\ \/ op' = op
       \/ /\ op.status = "pending" /\ op'.status # "none"
          /\ op'.gen = op.gen /\ op'.epoch = op.epoch
          /\ op'.failed => op.failed \/ (inbox[1].kind = "error" /\ IsOrder(inbox[1].call))

LEMMA DiscoveredPassed ==
    ASSUME Typed, Typed', Received, DiscoverIdle, NEW ids, ids \subseteq Tablet,
           ~Owner(inbox[1]), ~Registers(inbox[1]),
           \/ Discovered(ids) /\ Current(inbox[1]) /\ \A t \in ids : About(inbox[1], t)
           \/ UNCHANGED <<epochs, nextEpoch, calls>>
    PROVE  Passed
<1>1. nextEpoch \in Nat /\ generation \in Nat /\ calls \in Seq(Call)
  BY DEF Typed, TypeOK
<1>2. CASE Discovered(ids) /\ Current(inbox[1]) /\ \A t \in ids : About(inbox[1], t)
  <2>1. /\ nextEpoch' \in Nat /\ nextEpoch' >= nextEpoch
        /\ epochs' \in [Tablet -> 0..nextEpoch']
        /\ Grows(calls', calls)
    BY <1>2 DEF Discovered
  <2>2. \A t \in Tablet : epochs'[t] = epochs[t] \/ (epochs[t] = 0 /\ epochs'[t] > nextEpoch)
    BY <1>2 DEF Discovered
  <2>3. ASSUME NEW j, NewCall(j)
        PROVE  /\ calls'[j].kind = "isTouchSensor" /\ calls'[j].gen = generation
               /\ calls'[j].epoch \in 1..nextEpoch' /\ calls'[j].tablet \in ids
    <3>1. /\ calls'[j].kind = "isTouchSensor" /\ calls'[j].gen = generation
          /\ calls'[j].tablet \in Tablet /\ calls'[j].tablet \in ids
          /\ calls'[j].epoch = epochs'[calls'[j].tablet]
          /\ calls'[j].epoch > nextEpoch
      BY <1>2, <2>3 DEF Discovered
    <3>2. calls'[j].epoch \in 0..nextEpoch'
      BY <2>1, <3>1
    <3>3. calls'[j].epoch \in 1..nextEpoch'
      BY <1>1, <2>1, <3>1, <3>2
    <3> QED BY <3>1, <3>3
  <2> QED BY <1>2, <2>1, <2>2, <2>3 DEF Passed, DiscoverIdle
<1>3. CASE UNCHANGED <<epochs, nextEpoch, calls>>
  <2>1. Grows(calls', calls) /\ ~\E j : NewCall(j)
    BY <1>1, <1>3 DEF Grows, NewCall, Added
  <2> QED BY <1>1, <1>3, <2>1 DEF Passed, DiscoverIdle
<1> QED BY <1>2, <1>3

LEMMA NameHasOwnerCases ==
    ASSUME Typed, OnNameHasOwner
    PROVE  Renewed \/ (Passed /\ UNCHANGED <<modelVars, calls, op>>)
<1>1. /\ Received /\ inbox[1].kind = "reply" /\ inbox[1].call.kind = "nameHasOwner"
      /\ IF inbox[1].call.gen = generation /\ inbox[1].value
         THEN OnServiceRegistered
         ELSE UNCHANGED <<modelVars, calls, op>> /\ Typed'
  BY NameHasOwnerEffect
<1>2. CASE inbox[1].call.gen = generation /\ inbox[1].value
  BY <1>1, <1>2, RegisteredRenewed
<1>3. CASE ~(inbox[1].call.gen = generation /\ inbox[1].value)
  <2>1. UNCHANGED <<modelVars, calls, op>> /\ Typed'
    BY <1>1, <1>3
  <2>2. DiscoverIdle /\ UNCHANGED <<epochs, nextEpoch, calls>>
        /\ ~Owner(inbox[1]) /\ ~Registers(inbox[1])
    BY <1>1, <1>3, <2>1 DEF DiscoverIdle, modelVars, Owner, Registers
  <2>3. Passed
    BY <1>1, <2>1, <2>2, DiscoveredPassed
  <2> QED BY <2>1, <2>3
<1> QED BY <1>2, <1>3

LEMMA TabletListPassed ==
    ASSUME Typed, Known, OnTabletList
    PROVE  Passed
<1>1. /\ Typed' /\ Received /\ DiscoverIdle
      /\ inbox[1].kind = "reply" /\ inbox[1].call.kind = "getTabletList"
      /\ IF inbox[1].call.gen = generation
         THEN Discovered(inbox[1].value)
         ELSE UNCHANGED <<epochs, nextEpoch, calls>>
  BY TabletListEffect
<1>2. inbox[1].value \subseteq Tablet
  BY <1>1, MessageFields DEF Received, Answers
<1>3. inbox[1].call.gen = generation => Current(inbox[1])
  BY <1>1 DEF Current, IsAnswer, Mentions
<1>4. \A t \in inbox[1].value : About(inbox[1], t)
  BY <1>1 DEF About
<1> QED BY <1>1, <1>2, <1>3, <1>4, DiscoveredPassed DEF Owner, Registers

LEMMA TabletAddedPassed ==
    ASSUME Typed, OnTabletAdded
    PROVE  Passed
<1>1. /\ Typed' /\ Received /\ DiscoverIdle
      /\ inbox[1].kind = "tabletAdded" /\ inbox[1].tablet \in Tablet
      /\ IF interface /\ inbox[1].gen = generation
         THEN Discovered({inbox[1].tablet})
         ELSE UNCHANGED <<epochs, nextEpoch, calls>>
  BY TabletAddedEffect
<1>2. inbox[1].gen = generation => Current(inbox[1])
  BY <1>1 DEF Current, IsSignal
<1>3. {inbox[1].tablet} \subseteq Tablet /\ \A t \in {inbox[1].tablet} : About(inbox[1], t)
  BY <1>1 DEF About, IsSignal
<1> QED BY <1>1, <1>2, <1>3, DiscoveredPassed DEF Owner, Registers

LEMMA IsTouchSensorPassed ==
    ASSUME Typed, Numbered, OnIsTouchSensor
    PROVE  Passed
<1>1. /\ Typed' /\ Received /\ UNCHANGED <<modelVars, op>>
      /\ inbox[1].kind = "reply" /\ inbox[1].call.kind = "isTouchSensor"
      /\ Grows(calls', calls)
      /\ \A j : NewCall(j) =>
             /\ ThisEpoch(inbox[1].call)
             /\ calls'[j].kind = "getProfile" /\ calls'[j].tablet = inbox[1].call.tablet
             /\ calls'[j].gen = inbox[1].call.gen /\ calls'[j].epoch = inbox[1].call.epoch
  BY IsTouchSensorEffect
<1>2. NumbersOf(inbox[1].call, generation, nextEpoch) /\ Asks(inbox[1].call)
  BY <1>1 DEF Numbered, Received, TailOf, IsAnswer, Asks
<1>3. \A j : NewCall(j) =>
          /\ calls'[j].gen = generation /\ calls'[j].epoch \in 1..nextEpoch'
          /\ Current(inbox[1]) /\ About(inbox[1], calls'[j].tablet)
  BY <1>1, <1>2 DEF ThisEpoch, ThisGeneration, Current, About, Mentions, IsAnswer, NumbersOf,
                    modelVars
<1> QED BY <1>1, <1>3 DEF Passed, modelVars, Owner, Registers, Typed, TypeOK

\* Steps that ask nothing.
LEMMA SilentPassed ==
    ASSUME Typed, Typed', Received, ~Owner(inbox[1]), ~Registers(inbox[1]),
           UNCHANGED <<generation, interface, nextEpoch, calls>>,
           \A t \in Tablet : epochs'[t] = epochs[t] \/ (Current(inbox[1]) /\ epochs'[t] = 0),
           rows' = rows \/ Current(inbox[1]) \/ (DOMAIN rows' = DOMAIN rows /\ rows # <<>>),
           \/ op' = op
           \/ /\ op.status = "pending" /\ op'.status # "none"
              /\ op'.gen = op.gen /\ op'.epoch = op.epoch
              /\ op'.failed => op.failed \/ (inbox[1].kind = "error" /\ IsOrder(inbox[1].call))
    PROVE  Passed
<1>1. nextEpoch \in Nat /\ calls \in Seq(Call)
  BY DEF Typed, TypeOK
<1>2. Grows(calls', calls) /\ ~\E j : NewCall(j)
  BY <1>1 DEF Grows, NewCall, Added
<1> QED BY <1>1, <1>2 DEF Passed

LEMMA TabletDataPassed ==
    ASSUME Typed, OnTabletData
    PROVE  Passed
<1>1. /\ Typed' /\ Received
      /\ UNCHANGED <<generation, nextEpoch, epochs, interface, calls, op>>
      /\ inbox[1].kind = "reply" /\ inbox[1].call.kind = "getProperty"
      /\ ~(ThisEpoch(inbox[1].call) /\ inbox[1].call.tablet \notin Shown) => UNCHANGED rows
  BY TabletDataEffect
<1>2. rows' = rows \/ Current(inbox[1])
  BY <1>1 DEF ThisEpoch, ThisGeneration, Current, Mentions, IsAnswer
<1> QED BY <1>1, <1>2, SilentPassed DEF Owner, Registers

LEMMA OnErrorPassed ==
    ASSUME Typed, Numbered, OnError
    PROVE  Passed
<1>1. /\ Typed' /\ Received
      /\ UNCHANGED <<generation, nextEpoch, interface, rows, sources, calls, op>>
      /\ inbox[1].kind = "error"
      /\ IF Asks(inbox[1].call) /\ ThisEpoch(inbox[1].call)
         THEN epochs' = [epochs EXCEPT ![inbox[1].call.tablet] = 0]
         ELSE epochs' = epochs
  BY OnErrorEffect
<1>2. Asks(inbox[1].call) /\ ThisEpoch(inbox[1].call) => Current(inbox[1])
  BY <1>1 DEF ThisEpoch, ThisGeneration, Current, Mentions, IsAnswer, Asks
<1>3. epochs \in [Tablet -> Nat]
  BY DEF Typed, TypeOK
<1>4. \A t \in Tablet : epochs'[t] = epochs[t] \/ (Current(inbox[1]) /\ epochs'[t] = 0)
  BY <1>1, <1>2, <1>3
<1> QED BY <1>1, <1>4, SilentPassed DEF Owner, Registers

LEMMA TabletRemovedPassed ==
    ASSUME Typed, RowsAreAlive, SourcesAreRows, OnTabletRemoved
    PROVE  Passed
<1>1. /\ Typed' /\ Received
      /\ UNCHANGED <<generation, nextEpoch, interface, calls, op>>
      /\ inbox[1].kind = "tabletRemoved"
      /\ IF interface /\ inbox[1].gen = generation
         THEN Dropped(inbox[1].tablet) /\ epochs' = [epochs EXCEPT ![inbox[1].tablet] = 0]
         ELSE UNCHANGED <<epochs, rows, sources>>
  BY TabletRemovedEffect
<1>2. inbox[1].gen = generation => Current(inbox[1])
  BY <1>1 DEF Current, IsSignal
<1>3. epochs \in [Tablet -> Nat]
  BY DEF Typed, TypeOK
<1>4. \A t \in Tablet : epochs'[t] = epochs[t] \/ (Current(inbox[1]) /\ epochs'[t] = 0)
  BY <1>1, <1>2, <1>3
<1> QED BY <1>1, <1>2, <1>4, SilentPassed DEF Owner, Registers

LEMMA ProfileChangedPassed ==
    ASSUME Typed, OnProfileChanged
    PROVE  Passed
<1>1. /\ Typed' /\ Received
      /\ UNCHANGED <<generation, nextEpoch, epochs, interface, calls, op>>
      /\ inbox[1].kind = "profileChanged"
      /\ \/ \E k, row : RowChanged(k, row)
         \/ UNCHANGED rows
  BY ProfileChangedEffect
<1>2. rows' = rows \/ (DOMAIN rows' = DOMAIN rows /\ rows # <<>>)
  BY <1>1 DEF RowChanged
<1> QED BY <1>1, <1>2, SilentPassed DEF Owner, Registers

LEMMA OperationReplyPassed ==
    ASSUME Typed, OrdersAreWatched, OnOperationReply
    PROVE  Passed
<1>1. /\ Typed' /\ Received
      /\ UNCHANGED <<generation, nextEpoch, epochs, interface, calls>>
      /\ IsAnswer(inbox[1]) /\ IsOrder(inbox[1].call)
      /\ op.status = "pending" /\ op'.status # "none"
      /\ op'.gen = op.gen /\ op'.epoch = op.epoch
      /\ op'.failed <=> op.failed \/ inbox[1].kind = "error"
      /\ \/ \E k, row : RowChanged(k, row)
         \/ UNCHANGED rows
  BY OperationReplyEffect
<1>2. rows' = rows \/ (DOMAIN rows' = DOMAIN rows /\ rows # <<>>)
  BY <1>1 DEF RowChanged
<1>3. ~Owner(inbox[1]) /\ ~Registers(inbox[1])
  BY <1>1 DEF IsAnswer, IsOrder, Owner, Registers
<1> QED BY <1>1, <1>2, <1>3, SilentPassed

LEMMA DeliverSteps ==
    ASSUME Typed, Numbered, Known, RowsAreAlive, SourcesAreRows, OrdersAreWatched, Deliver
    PROVE  Renewed \/ Passed
BY OwnerChangedRenewed, NameHasOwnerCases, TabletListPassed, TabletAddedPassed, IsTouchSensorPassed,
   TabletDataPassed, OnErrorPassed, TabletRemovedPassed, ProfileChangedPassed, OperationReplyPassed
   DEF Deliver

LEMMA ServeSteps ==
    ASSUME Typed, Numbered, timeouts \in Nat, OrdersAreWatched, Serve \/ TimesOut
    PROVE  \/ Served
           \/ ServeGetProfile
           \/ ServeBus /\ IsMatch(Head(calls))
BY NameServed, ReadServed, NobodyServed, TimesOutServed, OperationServed DEF Serve

\* The bus learns of match rules, or forgets them.
Matched ==
    /\ Typed' /\ BusIdle /\ UNCHANGED inbox
    /\ TailOf(calls', calls) /\ IsMatch(calls[1]) /\ listening' = calls[1].gen

\* getProfile becomes getProperty, at its place.
ProfileGot ==
    /\ Typed' /\ BusIdle /\ UNCHANGED <<listening, inbox>>
    /\ DOMAIN calls' = DOMAIN calls /\ 1 \in DOMAIN calls
    /\ \A i \in DOMAIN calls : i # 1 => calls'[i] = calls[i]
    /\ calls[1].kind = "getProfile"
    /\ calls'[1].kind = "getProperty" /\ calls'[1].tablet = calls[1].tablet
    /\ calls'[1].gen = calls[1].gen /\ calls'[1].epoch = calls[1].epoch

\* The user asks for something.
Ordered ==
    /\ Typed' /\ UNCHANGED <<serviceVars, listening, inbox, modelVars, timeouts>>
    /\ op.status # "pending" /\ (interface => op'.tablet \in Shown)
    /\ op'.kind \in Operation /\ op'.tablet \in Tablet /\ op'.gen = generation
    /\ op'.epoch = epochs[op'.tablet]
    /\ op'.remaining = Cardinality(ToSet(Targets[op'.kind])) /\ op'.remaining > 0
    /\ (op'.failed <=> ~interface) /\ op'.written = {}
    /\ op'.status = (IF interface THEN "pending" ELSE "failed")
    /\ Grows(calls', calls)
    /\ \A j : NewCall(j) =>
           /\ interface /\ IsOrder(calls'[j])
           /\ calls'[j].operation = op'.kind /\ calls'[j].tablet = op'.tablet
           /\ calls'[j].value = op'.value
           /\ calls'[j].target \in ToSet(Targets[op'.kind])
    /\ \A i, j : NewCall(i) /\ NewCall(j) /\ calls'[i].target = calls'[j].target => i = j
    /\ interface =>
           \A a \in ToSet(Targets[op'.kind]) : \E j : NewCall(j) /\ calls'[j].target = a

LEMMA OperateOrdered ==
    ASSUME Typed, NEW kind \in Operation, NEW t \in Tablet, NEW v \in ValuesOf(kind),
           Operate(kind, t, v)
    PROVE  Ordered
<1>1. /\ Typed' /\ UNCHANGED <<serviceVars, listening, inbox, modelVars, changes, timeouts>>
      /\ op.status # "pending" /\ (interface => t \in Shown)
      /\ op'.kind = kind /\ op'.tablet = t /\ op'.value = v /\ op'.gen = generation
      /\ op'.epoch = epochs[t] /\ op'.remaining = Cardinality(ToSet(Targets[kind]))
      /\ (op'.failed <=> ~interface) /\ op'.written = {}
      /\ op'.status = (IF interface THEN "pending" ELSE "failed")
      /\ op'.remaining > 0
      /\ Grows(calls', calls)
  BY OperateEffect
<1>2. /\ \A j : NewCall(j) =>
             /\ interface /\ IsOrder(calls'[j])
             /\ calls'[j].operation = kind /\ calls'[j].tablet = t /\ calls'[j].value = v
             /\ calls'[j].target \in ToSet(Targets[kind])
      /\ \A i, j : NewCall(i) /\ NewCall(j) /\ calls'[i].target = calls'[j].target => i = j
      /\ interface => \A a \in ToSet(Targets[kind]) : \E j : NewCall(j) /\ calls'[j].target = a
  BY OperateEffect
<1> QED BY <1>1, <1>2 DEF Ordered

LEMMA Steps ==
    ASSUME IInv, Next
    PROVE  \/ Announced
           \/ \E t \in Tablet : Signalled(t)
           \/ Matched
           \/ ProfileGot
           \/ Served
           \/ Renewed
           \/ Deliver /\ Passed
           \/ Ordered
<1>1. /\ Typed /\ Numbered /\ Known /\ RowsAreAlive /\ SourcesAreRows /\ OrdersAreWatched
      /\ timeouts \in Nat
  BY DEF IInv
<1>2. CASE Service
  BY <1>1, <1>2, AnnouncedSteps, AppearsSignalled, DisappearsSignalled, ProfileChangesSignalled
     DEF Service
<1>3. CASE Serve \/ TimesOut
  <2>1. ServeGetProfile => ProfileGot
    BY <1>1, GetProfileEffect DEF ProfileGot
  <2>2. ServeBus /\ IsMatch(Head(calls)) => Matched
    BY <1>1, MatchEffect DEF Matched
  <2> QED BY <1>1, <1>3, <2>1, <2>2, ServeSteps
<1>4. CASE Deliver
  BY <1>1, <1>4, DeliverSteps
<1>5. CASE \E kind \in Operation, t \in Tablet : \E v \in ValuesOf(kind) : Operate(kind, t, v)
  BY <1>1, <1>5, OperateOrdered
<1> QED BY <1>2, <1>3, <1>4, <1>5 DEF Next

LEMMA TimeoutsKept ==
    ASSUME IInv, Next
    PROVE  timeouts' \in Nat
<1>1. timeouts \in Nat
  BY DEF IInv
<1> QED BY <1>1, Steps DEF Announced, Signalled, AppletIdle, Matched, BusIdle, countVars, ProfileGot,
                           Served, Renewed, Passed, Received, Ordered

-----------------------------------------------------------------------------
(* Each part of the invariant is kept by every step.                       *)

LEMMA NumbersLater ==
    ASSUME NEW c \in Call, NEW g \in Nat, NEW n \in Nat, NEW h \in Nat, NEW o \in Nat,
           g <= h, n <= o, NumbersOf(c, g, n)
    PROVE  NumbersOf(c, h, o)
BY CallFields DEF NumbersOf

LEMMA NumberedKept ==
    ASSUME IInv, Next
    PROVE  Numbered'
<1>1. /\ Typed /\ Numbered /\ generation \in Nat /\ nextEpoch \in Nat /\ listening \in 0..generation
      /\ epochs \in [Tablet -> 0..nextEpoch]
  BY DEF IInv, Typed, TypeOK
<1>2. CASE Announced
  BY <1>1, <1>2 DEF Announced, AppletIdle, modelVars, Numbered, Grows, New, Added, Owner,
                    IsSignal, IsAnswer
<1>3. CASE \E t \in Tablet : Signalled(t)
  <2>1. PICK t \in Tablet : Signalled(t)
    BY <1>3
  <2>2. \A j : New(j) => IsSignal(inbox'[j]) /\ inbox'[j].gen \in 1..generation
    BY <1>1, <2>1 DEF Signalled, Signal
  <2> QED BY <1>1, <2>1, <2>2 DEF Signalled, AppletIdle, modelVars, Numbered, Grows, New, Added,
                                  IsSignal, IsAnswer
<1>4. CASE Matched
  BY <1>1, <1>4 DEF Matched, BusIdle, modelVars, Numbered, TailOf
<1>5. CASE ProfileGot
  <2>1. NumbersOf(calls'[1], generation, nextEpoch)
    BY <1>1, <1>5 DEF ProfileGot, Numbered, NumbersOf, Asks, IsOrder
  <2> QED BY <1>1, <1>5, <2>1 DEF ProfileGot, BusIdle, modelVars, Numbered
<1>6. CASE Served
  <2>1. UNCHANGED <<generation, nextEpoch>>
    BY <1>6 DEF Served, modelVars
  <2>2. \A i \in DOMAIN calls' : NumbersOf(calls'[i], generation, nextEpoch)
    BY <1>1, <1>6 DEF Served, Numbered, TailOf
  <2>3. NumbersOf(calls[1], generation, nextEpoch)
    BY <1>1, <1>6 DEF Served, Numbered, TailOf
  <2>4. ASSUME NEW i \in DOMAIN inbox'
        PROVE  /\ IsSignal(inbox'[i]) => inbox'[i].gen \in 1..generation
               /\ IsAnswer(inbox'[i]) => NumbersOf(inbox'[i].call, generation, nextEpoch)
               /\ inbox'[i].kind = "error" => ForDaemon(inbox'[i].call)
    <3>1. CASE i \in DOMAIN inbox
      BY <1>1, <1>6, <3>1 DEF Served, Numbered, Grows
    <3>2. CASE New(i)
      <4>1. \/ IsAnswer(inbox'[i]) /\ inbox'[i].call = calls[1]
            \/ IsSignal(inbox'[i]) /\ inbox'[i].gen = listening /\ listening # 0
        BY <1>6, <3>2 DEF Served, Signal
      <4>2. inbox'[i].kind = "error" => ForDaemon(calls[1])
        BY <1>6, <3>2 DEF Served
      <4> QED BY <1>1, <2>3, <4>1, <4>2 DEF IsSignal, IsAnswer
    <3> QED BY <2>4, <3>1, <3>2 DEF New, Added
  <2> QED BY <1>1, <1>6, <2>1, <2>2, <2>4 DEF Served, OpKept, Numbered
<1>7. CASE Renewed
  <2>1. generation' = generation + 1 /\ UNCHANGED <<nextEpoch, op>>
    BY <1>7 DEF Renewed, Cleared
  <2>2. ASSUME NEW i \in DOMAIN calls'
        PROVE  NumbersOf(calls'[i], generation', nextEpoch')
    <3>1. CASE i \in DOMAIN calls
      <4>1. calls'[i] = calls[i] /\ calls[i] \in Call /\ NumbersOf(calls[i], generation, nextEpoch)
        BY <1>1, <1>7, <3>1 DEF Renewed, Grows, Numbered, Typed, TypeOK
      <4> QED BY <1>1, <2>1, <4>1, NumbersLater
    <3>2. CASE NewCall(i)
      BY <1>1, <1>7, <2>1, <3>2 DEF Renewed, NumbersOf, Asks, IsOrder
    <3> QED BY <2>2, <3>1, <3>2 DEF NewCall, Added
  <2>3. ASSUME NEW i \in DOMAIN inbox'
        PROVE  /\ IsSignal(inbox'[i]) => inbox'[i].gen \in 1..generation'
               /\ IsAnswer(inbox'[i]) => NumbersOf(inbox'[i].call, generation', nextEpoch')
               /\ inbox'[i].kind = "error" => ForDaemon(inbox'[i].call)
    <3>1. i + 1 \in DOMAIN inbox /\ inbox'[i] = inbox[i + 1] /\ inbox'[i] \in Message
      BY <1>7 DEF Renewed, Received, TailOf
    <3>2. IsAnswer(inbox'[i]) => inbox'[i].call \in Call
      BY <3>1, MessageFields
    <3> QED BY <1>1, <2>1, <3>1, <3>2, NumbersLater DEF Numbered
  <2> QED BY <1>1, <1>7, <2>1, <2>2, <2>3 DEF Numbered, Typed, TypeOK, NoOp, Op
<1>8. CASE Passed
  <2>1. generation' = generation /\ nextEpoch' >= nextEpoch /\ nextEpoch' \in Nat
    BY <1>8 DEF Passed, Typed, TypeOK
  <2>2. ASSUME NEW i \in DOMAIN calls'
        PROVE  NumbersOf(calls'[i], generation', nextEpoch')
    <3>1. CASE i \in DOMAIN calls
      BY <1>1, <1>8, <2>1, <3>1, NumbersLater DEF Passed, Grows, Numbered, Typed, TypeOK
    <3>2. CASE NewCall(i)
      <4>1. /\ calls'[i].kind \in {"isTouchSensor", "getProfile"} /\ calls'[i].gen = generation
            /\ calls'[i].epoch \in 1..nextEpoch' /\ Current(inbox[1])
        BY <1>8, <3>2 DEF Passed
      <4>2. generation >= 1
        BY <1>1, <1>8, <4>1 DEF Passed, Current, Numbered, NumbersOf, Received, TailOf, Mentions
      <4> QED BY <1>1, <2>1, <4>1, <4>2 DEF NumbersOf, Asks, IsOrder
    <3> QED BY <2>2, <3>1, <3>2 DEF NewCall, Added
  <2>3. ASSUME NEW i \in DOMAIN inbox'
        PROVE  /\ IsSignal(inbox'[i]) => inbox'[i].gen \in 1..generation'
               /\ IsAnswer(inbox'[i]) => NumbersOf(inbox'[i].call, generation', nextEpoch')
               /\ inbox'[i].kind = "error" => ForDaemon(inbox'[i].call)
    <3>1. i + 1 \in DOMAIN inbox /\ inbox'[i] = inbox[i + 1] /\ inbox'[i] \in Message
      BY <1>8 DEF Passed, Received, TailOf
    <3>2. IsAnswer(inbox'[i]) => inbox'[i].call \in Call
      BY <3>1, MessageFields
    <3> QED BY <1>1, <2>1, <3>1, <3>2, NumbersLater DEF Numbered
  <2>4. op'.status # "none" => op'.gen <= generation' /\ op'.epoch <= nextEpoch'
    <3>1. CASE op.status # "none"
      <4>1. op.gen \in Nat /\ op.epoch \in Nat /\ op.gen <= generation /\ op.epoch <= nextEpoch
        BY <1>1, <3>1 DEF Numbered, Typed, TypeOK, NoOp, Op
      <4>2. op'.gen = op.gen /\ op'.epoch = op.epoch
        BY <1>8 DEF Passed
      <4> QED BY <1>1, <2>1, <4>1, <4>2
    <3>2. CASE op.status = "none"
      BY <1>8, <3>2 DEF Passed
    <3> QED BY <3>1, <3>2
  <2> QED BY <2>2, <2>3, <2>4 DEF Numbered
<1>9. CASE Ordered
  <2>1. op'.gen <= generation /\ op'.epoch <= nextEpoch
    BY <1>1, <1>9 DEF Ordered
  <2> QED BY <1>1, <1>9, <2>1 DEF Ordered, modelVars, Numbered, NumbersOf, Grows, NewCall, Added, IsOrder, Asks
<1> QED BY <1>2, <1>3, <1>4, <1>5, <1>6, <1>7, <1>8, <1>9, Steps

LEMMA KnownKept ==
    ASSUME IInv, Next
    PROVE  Known'
<1> USE DEF Known
<1>1. Typed /\ Known /\ inbox \in Seq(Message)
  BY DEF IInv, Typed
<1>2. CASE Announced
  <2>1. IsFiniteSet(present') /\ present' \subseteq heard'
    BY <1>1, <1>2, FS_EmptySet DEF Announced
  <2> QED BY <1>1, <1>2, <2>1 DEF Announced, AppletIdle, Grows, New, Added, Owner, IsSignal, IsAnswer
<1>3. CASE \E t \in Tablet : Signalled(t)
  <2>1. PICK t \in Tablet : Signalled(t)
    BY <1>3
  <2>2. IsFiniteSet(present') /\ present' \subseteq heard' /\ t \in heard'
    <3>1. IsFiniteSet(present \cup {t}) /\ IsFiniteSet(present \ {t})
      BY <1>1, FS_AddElement, FS_RemoveElement
    <3>2. CASE ProfileSaid(t)
      BY <1>1, <3>2 DEF ProfileSaid
    <3>3. CASE Plugged(t)
      BY <1>1, <3>1, <3>3 DEF Plugged
    <3>4. CASE Unplugged(t)
      BY <1>1, <3>1, <3>4 DEF Unplugged
    <3> QED BY <2>1, <3>2, <3>3, <3>4 DEF Signalled
  <2>3. \A j : New(j) => IsSignal(inbox'[j]) /\ inbox'[j].tablet = t
    BY <2>1 DEF Signalled, Signal
  <2>4. heard \subseteq heard' /\ UNCHANGED calls /\ Grows(inbox', inbox)
    BY <2>1 DEF Signalled, AppletIdle, ProfileSaid, Plugged, Unplugged
  <2> QED BY <1>1, <2>2, <2>3, <2>4 DEF Grows, New, Added, IsSignal, IsAnswer
<1>4. CASE Matched
  BY <1>1, <1>4 DEF Matched, BusIdle, serviceVars, TailOf
<1>5. CASE ProfileGot
  BY <1>1, <1>5 DEF ProfileGot, BusIdle, serviceVars, Asks
<1>6. CASE Served
  <2>1. UNCHANGED <<present, heard>> /\ TailOf(calls', calls) /\ Grows(inbox', inbox)
    BY <1>6 DEF Served
  <2>2. \A i \in DOMAIN calls' : Asks(calls'[i]) => calls'[i].tablet \in heard
    BY <1>1, <2>1 DEF TailOf
  <2>3. Asks(calls[1]) => calls[1].tablet \in heard
    BY <1>1, <2>1 DEF TailOf
  <2>4. ASSUME NEW i \in DOMAIN inbox'
        PROVE  /\ IsSignal(inbox'[i]) => inbox'[i].tablet \in heard
               /\ IsAnswer(inbox'[i]) /\ Asks(inbox'[i].call) => inbox'[i].call.tablet \in heard
               /\ inbox'[i].kind = "reply" /\ inbox'[i].call.kind = "getTabletList" =>
                      IsFiniteSet(inbox'[i].value) /\ inbox'[i].value \subseteq heard
    <3>1. CASE i \in DOMAIN inbox
      BY <1>1, <2>1, <3>1 DEF Grows
    <3>2. CASE New(i) /\ IsAnswer(inbox'[i])
      <4>1. inbox'[i].call = calls[1] /\ ~IsSignal(inbox'[i])
        BY <1>6, <3>2 DEF Served, Signal, IsSignal, IsAnswer
      <4>2. inbox'[i].kind = "reply" /\ calls[1].kind = "getTabletList" => inbox'[i].value = present
        BY <1>6, <3>2 DEF Served, Says
      <4> QED BY <1>1, <2>3, <3>2, <4>1, <4>2
    <3>3. CASE New(i) /\ ~IsAnswer(inbox'[i])
      <4>1. IsOrder(calls[1]) /\ IsSignal(inbox'[i]) /\ inbox'[i].tablet = calls[1].tablet
            /\ inbox'[i].kind = "profileChanged" /\ calls[1].tablet \in present
        BY <1>6, <3>3 DEF Served, Signal
      <4>2. calls[1].tablet \in heard
        BY <1>1, <4>1
      <4> QED BY <4>1, <4>2 DEF IsAnswer
    <3> QED BY <2>4, <3>1, <3>2, <3>3 DEF New, Added
  <2> QED BY <1>1, <2>1, <2>2, <2>4
<1>7. CASE Renewed
  <2>1. UNCHANGED <<present, heard>> /\ Grows(calls', calls) /\ TailOf(inbox', inbox)
    BY <1>7 DEF Renewed, Received, serviceVars
  <2>2. \A j : NewCall(j) => ~Asks(calls'[j])
    BY <1>7 DEF Renewed, Asks
  <2> QED BY <1>1, <2>1, <2>2 DEF Grows, NewCall, Added, TailOf
<1>8. CASE Passed
  <2>1. UNCHANGED <<present, heard>> /\ Grows(calls', calls) /\ TailOf(inbox', inbox)
    BY <1>8 DEF Passed, Received, serviceVars
  <2>2. \A j : NewCall(j) => About(inbox[1], calls'[j].tablet)
    BY <1>8 DEF Passed
  <2>3. \A t : About(inbox[1], t) => t \in heard
    BY <1>1, <2>1 DEF About, TailOf
  <2> QED BY <1>1, <2>1, <2>2, <2>3 DEF Grows, NewCall, Added, TailOf
<1>9. CASE Ordered
  BY <1>1, <1>9 DEF Ordered, serviceVars, Grows, NewCall, Added, IsOrder, Asks
<1> QED BY <1>2, <1>3, <1>4, <1>5, <1>6, <1>7, <1>8, <1>9, Steps

\* A service that does something new with match rules has not listened to this lifetime.
LEMMA ListeningKept ==
    ASSUME IInv, Next
    PROVE  Listening'
<1> USE DEF Listening
<1>1. /\ Typed /\ Listening /\ generation \in Nat /\ listening \in 0..generation
      /\ calls \in Seq(Call)
  BY DEF IInv, Typed, TypeOK
<1>2. CASE Announced
  BY <1>1, <1>2 DEF Announced, AppletIdle, modelVars
<1>3. CASE \E t \in Tablet : Signalled(t)
  BY <1>1, <1>3 DEF Signalled, AppletIdle, modelVars
<1>4. CASE Matched
  <2>1. /\ UNCHANGED <<generation, interface>> /\ TailOf(calls', calls)
        /\ IsMatch(calls[1]) /\ listening' = calls[1].gen /\ 1 \in DOMAIN calls
    BY <1>4 DEF Matched, BusIdle, modelVars, TailOf
  <2>2. /\ listening < generation
        /\ calls[1].kind = "removeMatch" => listening' = 0
    BY <1>1, <2>1 DEF IInv, Numbered, NumbersOf
  <2>3. ASSUME NEW i \in DOMAIN calls', IsMatch(calls'[i])
        PROVE  /\ listening' < generation'
               /\ calls'[i].kind = "addMatch" => listening' < calls'[i].gen
               /\ \A j \in DOMAIN calls' :
                      i < j /\ IsMatch(calls'[j]) /\ calls'[i].kind = "addMatch" =>
                          /\ calls'[i].gen < generation'
                          /\ calls'[j].kind = "addMatch" => calls'[i].gen < calls'[j].gen
    <3>1. i \in Nat /\ i + 1 \in DOMAIN calls /\ calls'[i] = calls[i + 1] /\ 1 < i + 1
      BY <2>1 DEF TailOf
    <3>2. calls[1].kind = "addMatch" =>
              /\ calls[1].gen < generation
              /\ calls'[i].kind = "addMatch" => calls[1].gen < calls'[i].gen
      BY <1>1, <2>1, <2>3, <3>1
    <3>3. calls[1].kind = "removeMatch" =>
              /\ 0 < generation
              /\ calls'[i].kind = "addMatch" => 0 < calls'[i].gen
      <4>1. listening < generation /\ 0 < generation
        BY <1>1, <2>2
      <4>2. NumbersOf(calls[i + 1], generation, nextEpoch)
        BY <3>1 DEF IInv, Numbered
      <4>3. calls[i + 1].kind = "addMatch" => calls[i + 1].gen >= 1 /\ calls[i + 1].gen \in Nat
        BY <1>1, <3>1, <4>2, CallFields DEF NumbersOf, IsOrder
      <4> QED BY <3>1, <4>1, <4>3
    <3>4. calls[1].kind \in {"addMatch", "removeMatch"}
      BY <2>1 DEF IsMatch
    <3>5. ASSUME NEW j \in DOMAIN calls', i < j
          PROVE  j \in Nat /\ j + 1 \in DOMAIN calls /\ calls'[j] = calls[j + 1] /\ i + 1 < j + 1
      BY <2>1, <3>1, <3>5 DEF TailOf
    <3> QED BY <1>1, <2>1, <2>2, <2>3, <3>1, <3>2, <3>3, <3>4, <3>5
  <2>4. interface' =>
            /\ generation' >= 1
            /\ \/ listening' = generation'
               \/ \E i, j \in DOMAIN calls' :
                     /\ i < j
                     /\ calls'[i].kind = "addMatch" /\ calls'[i].gen = generation'
                     /\ calls'[j].kind = "getTabletList" /\ calls'[j].gen = generation'
    <3> SUFFICES ASSUME interface', listening' # generation'
                 PROVE  /\ generation' >= 1
                        /\ \E i, j \in DOMAIN calls' :
                              /\ i < j
                              /\ calls'[i].kind = "addMatch" /\ calls'[i].gen = generation'
                              /\ calls'[j].kind = "getTabletList" /\ calls'[j].gen = generation'
      BY <1>1, <2>1
    <3>1. PICK i \in DOMAIN calls, j \in DOMAIN calls :
              /\ i < j
              /\ calls[i].kind = "addMatch" /\ calls[i].gen = generation
              /\ calls[j].kind = "getTabletList" /\ calls[j].gen = generation
      BY <1>1, <2>1, <2>2
    <3>2. i # 1 /\ j # 1
      BY <2>1, <3>1 DEF IsMatch
    <3>3. i - 1 \in DOMAIN calls' /\ calls'[i - 1] = calls[i] /\ j - 1 \in DOMAIN calls'
          /\ calls'[j - 1] = calls[j] /\ i - 1 < j - 1
      BY <2>1, <3>1, <3>2 DEF TailOf
    <3> QED BY <1>1, <2>1, <3>1, <3>3
  <2>5. ASSUME NEW j \in DOMAIN calls', calls'[j].kind = "getTabletList", calls'[j].gen = generation',
               listening' # generation'
        PROVE  \E i \in DOMAIN calls' :
                   i < j /\ calls'[i].kind = "addMatch" /\ calls'[i].gen = generation'
    <3>1. j \in Nat /\ j + 1 \in DOMAIN calls /\ calls'[j] = calls[j + 1]
      BY <2>1 DEF TailOf
    <3>2. PICK i \in DOMAIN calls : i < j + 1 /\ calls[i].kind = "addMatch" /\ calls[i].gen = generation
      BY <1>1, <2>1, <2>2, <2>5, <3>1
    <3>3. i # 1
      BY <2>1, <2>5, <3>2
    <3>4. i - 1 \in DOMAIN calls' /\ calls'[i - 1] = calls[i] /\ i - 1 < j
      BY <2>1, <3>1, <3>2, <3>3 DEF TailOf
    <3> QED BY <2>1, <3>2, <3>4
  <2> QED BY <2>3, <2>4, <2>5
<1>5. CASE ProfileGot
  <2>1. UNCHANGED <<generation, interface, listening>> /\ DOMAIN calls' = DOMAIN calls
    BY <1>5 DEF ProfileGot, BusIdle, modelVars
  <2>2. \A i \in DOMAIN calls :
            \/ calls'[i] = calls[i]
            \/ /\ calls[i].kind = "getProfile" /\ ~IsMatch(calls[i])
               /\ calls'[i].kind = "getProperty" /\ ~IsMatch(calls'[i])
    BY <1>5 DEF ProfileGot, IsMatch
  <2>3. \A i \in DOMAIN calls : calls[i].kind \in {"addMatch", "getTabletList"} => calls'[i] = calls[i]
    BY <2>2
  <2>4. \A i \in DOMAIN calls : calls'[i].kind \in {"addMatch", "getTabletList"} => calls'[i] = calls[i]
    BY <2>2
  <2>5. \A i \in DOMAIN calls : IsMatch(calls'[i]) => calls'[i] = calls[i]
    BY <2>2
  <2> QED BY <1>1, <2>1, <2>3, <2>4, <2>5
<1>6. CASE Served
  <2>1. /\ UNCHANGED <<generation, interface, listening>> /\ TailOf(calls', calls)
        /\ ~IsMatch(calls[1]) /\ 1 \in DOMAIN calls
    BY <1>6 DEF Served, modelVars, TailOf
  <2>2. \A i \in DOMAIN calls' : i \in Nat /\ i + 1 \in DOMAIN calls /\ calls'[i] = calls[i + 1]
    BY <2>1 DEF TailOf
  <2>3. \A i \in DOMAIN calls : i \in Nat /\ (calls[i].kind = "addMatch" => i - 1 \in DOMAIN calls' /\ calls'[i - 1] = calls[i])
    BY <2>1 DEF TailOf, IsMatch
  <2>4. \A i, j \in DOMAIN calls' : i < j => i + 1 < j + 1
    BY <2>2
  <2>5. /\ \A i \in DOMAIN calls' : IsMatch(calls'[i]) =>
               /\ listening' < generation'
               /\ calls'[i].kind = "addMatch" => listening' < calls'[i].gen
               /\ \A j \in DOMAIN calls' :
                      i < j /\ IsMatch(calls'[j]) /\ calls'[i].kind = "addMatch" =>
                          /\ calls'[i].gen < generation'
                          /\ calls'[j].kind = "addMatch" => calls'[i].gen < calls'[j].gen
    BY <1>1, <2>1, <2>2, <2>4
  <2>6. ASSUME NEW j \in DOMAIN calls', calls'[j].kind = "getTabletList", calls'[j].gen = generation',
               listening' # generation'
        PROVE  \E i \in DOMAIN calls' :
                   i < j /\ calls'[i].kind = "addMatch" /\ calls'[i].gen = generation'
    <3>1. PICK i \in DOMAIN calls : i < j + 1 /\ calls[i].kind = "addMatch" /\ calls[i].gen = generation
      BY <1>1, <2>1, <2>2, <2>6
    <3>2. i - 1 \in DOMAIN calls' /\ calls'[i - 1] = calls[i] /\ i - 1 < j
      BY <2>2, <2>3, <3>1
    <3> QED BY <2>1, <3>1, <3>2
  <2>7. ASSUME interface', listening' # generation'
        PROVE  /\ generation' >= 1
               /\ \E i, j \in DOMAIN calls' :
                     /\ i < j
                     /\ calls'[i].kind = "addMatch" /\ calls'[i].gen = generation'
                     /\ calls'[j].kind = "getTabletList" /\ calls'[j].gen = generation'
    <3>1. PICK i \in DOMAIN calls, j \in DOMAIN calls :
              /\ i < j
              /\ calls[i].kind = "addMatch" /\ calls[i].gen = generation
              /\ calls[j].kind = "getTabletList" /\ calls[j].gen = generation
      BY <1>1, <2>1, <2>7
    <3>2. i - 1 \in DOMAIN calls' /\ calls'[i - 1] = calls[i] /\ i \in Nat /\ i - 1 >= 1
      BY <2>1, <2>3, <3>1 DEF TailOf
    <3>3. j # 1 /\ j \in Nat
      BY <2>3, <3>1, <3>2
    <3>4. j - 1 \in DOMAIN calls' /\ calls'[j - 1] = calls[j] /\ i - 1 < j - 1
      BY <2>1, <3>1, <3>2, <3>3 DEF TailOf
    <3> QED BY <1>1, <2>1, <2>7, <3>1, <3>2, <3>4
  <2>8. interface' => generation' >= 1
    BY <1>1, <2>1
  <2> QED BY <2>5, <2>6, <2>7, <2>8
<1>7. CASE Renewed
  <2>1. generation' = generation + 1 /\ UNCHANGED listening /\ Grows(calls', calls)
    BY <1>7 DEF Renewed, Cleared, Received
  <2>2. \A i \in DOMAIN calls : calls'[i] = calls[i] /\ (~IsOrder(calls[i]) => calls[i].gen <= generation /\ calls[i].gen \in Nat)
    BY <1>1, <2>1, CallFields DEF Grows, IInv, Numbered, NumbersOf
  <2>3. \A i \in DOMAIN calls' :
            \/ i \in DOMAIN calls
            \/ /\ NewCall(i) /\ calls'[i].kind \in {"removeMatch", "addMatch", "getTabletList"}
               /\ calls'[i].gen = IF calls'[i].kind = "removeMatch" THEN 0 ELSE generation'
    BY <1>7 DEF Renewed, NewCall, Added
  <2>4. \A i \in DOMAIN calls : \A j : NewCall(j) => i < j
    BY <2>1 DEF Grows, NewCall, Added
  <2>5. ASSUME NEW i \in DOMAIN calls', IsMatch(calls'[i])
        PROVE  /\ listening' < generation'
               /\ calls'[i].kind = "addMatch" => listening' < calls'[i].gen
    <3>1. CASE i \in DOMAIN calls
      BY <1>1, <2>1, <2>2, <2>5, <3>1
    <3>2. CASE i \notin DOMAIN calls
      BY <1>1, <2>1, <2>3, <3>2
    <3> QED BY <3>1, <3>2
  <2>6. ASSUME NEW i \in DOMAIN calls', NEW j \in DOMAIN calls', i < j,
               IsMatch(calls'[i]), IsMatch(calls'[j]), calls'[i].kind = "addMatch"
        PROVE  /\ calls'[i].gen < generation'
               /\ calls'[j].kind = "addMatch" => calls'[i].gen < calls'[j].gen
    <3>1. CASE i \in DOMAIN calls /\ j \in DOMAIN calls
      BY <1>1, <2>1, <2>2, <2>6, <3>1 DEF IsOrder
    <3>2. CASE i \in DOMAIN calls /\ j \notin DOMAIN calls
      BY <1>1, <2>1, <2>2, <2>3, <2>6, <3>2 DEF IsOrder
    <3>3. CASE i \notin DOMAIN calls /\ j \in DOMAIN calls
      <4>1. j < i /\ i \in Nat /\ j \in Nat
        BY <2>1, <2>3, <2>4, <3>3 DEF Grows
      <4> QED BY <2>6, <4>1
    <3>4. CASE i \notin DOMAIN calls /\ j \notin DOMAIN calls
      BY <1>7, <2>3, <2>6, <3>4 DEF Renewed
    <3> QED BY <3>1, <3>2, <3>3, <3>4
  <2>7. interface' =>
            /\ generation' >= 1
            /\ \E i, j \in DOMAIN calls' :
                     /\ i < j
                     /\ calls'[i].kind = "addMatch" /\ calls'[i].gen = generation'
                     /\ calls'[j].kind = "getTabletList" /\ calls'[j].gen = generation'
    <3> SUFFICES ASSUME interface'
                 PROVE  /\ generation' >= 1
                        /\ \E i, j \in DOMAIN calls' :
                              /\ i < j
                              /\ calls'[i].kind = "addMatch" /\ calls'[i].gen = generation'
                              /\ calls'[j].kind = "getTabletList" /\ calls'[j].gen = generation'
      OBVIOUS
    <3>1. PICK i, j : /\ NewCall(i) /\ NewCall(j) /\ i < j
                      /\ calls'[i].kind = "addMatch" /\ calls'[j].kind = "getTabletList"
      BY <1>7 DEF Renewed
    <3>2. i \in DOMAIN calls' /\ j \in DOMAIN calls' /\ i \notin DOMAIN calls /\ j \notin DOMAIN calls
      BY <3>1 DEF NewCall, Added
    <3> QED BY <1>1, <2>1, <2>3, <3>1, <3>2
  <2>8. ASSUME NEW j \in DOMAIN calls', calls'[j].kind = "getTabletList", calls'[j].gen = generation'
        PROVE  \E i \in DOMAIN calls' :
                   i < j /\ calls'[i].kind = "addMatch" /\ calls'[i].gen = generation'
    <3>1. j \notin DOMAIN calls
      BY <1>1, <2>1, <2>2, <2>8 DEF IsOrder
    <3>2. NewCall(j)
      BY <3>1, <2>3
    <3>3. PICK i : NewCall(i) /\ i < j /\ calls'[i].kind = "addMatch"
      BY <1>7, <2>8, <3>2 DEF Renewed
    <3> QED BY <2>3, <3>3 DEF NewCall, Added
  <2> QED BY <2>5, <2>6, <2>7, <2>8
<1>8. CASE Passed \/ Ordered
  <2>1. UNCHANGED <<generation, interface, listening>> /\ Grows(calls', calls)
    BY <1>8 DEF Passed, Received, Ordered, modelVars
  <2>2. \A i \in DOMAIN calls' :
            \/ i \in DOMAIN calls /\ calls'[i] = calls[i]
            \/ ~IsMatch(calls'[i]) /\ calls'[i].kind # "addMatch" /\ calls'[i].kind # "getTabletList"
    <3> SUFFICES ASSUME NEW i \in DOMAIN calls', i \notin DOMAIN calls
                 PROVE  calls'[i].kind \notin {"addMatch", "removeMatch", "getTabletList"}
      BY <2>1 DEF Grows, IsMatch
    <3>1. NewCall(i)
      BY DEF NewCall, Added
    <3> QED BY <1>8, <3>1 DEF Passed, Ordered, IsOrder
  <2> QED BY <1>1, <2>1, <2>2 DEF Grows
<1> QED BY <1>2, <1>3, <1>4, <1>5, <1>6, <1>7, <1>8, Steps

\* What the proofs below take from the invariant.
LEMMA Basics ==
    ASSUME IInv
    PROVE  /\ Typed /\ Numbered /\ Known /\ Listening /\ Dormant
           /\ timeouts \in Nat /\ generation \in Nat /\ nextEpoch \in Nat
           /\ listening \in 0..generation /\ epochs \in [Tablet -> 0..nextEpoch]
           /\ up \in BOOLEAN /\ interface \in BOOLEAN
           /\ calls \in Seq(Call) /\ inbox \in Seq(Message) /\ rows \in Seq(Row)
           /\ \A i \in DOMAIN calls : NumbersOf(calls[i], generation, nextEpoch)
BY DEF IInv, Typed, TypeOK, Numbered

\* Nothing that is under way is about a lifetime that begins.
LEMMA RenewedLifetime ==
    ASSUME IInv, Renewed
    PROVE  /\ generation' = generation + 1 /\ UNCHANGED <<listening, op>>
           /\ listening # generation' /\ generation' # 0
           /\ rows' = <<>> /\ \A t \in Tablet : epochs'[t] = 0
           /\ \A i \in DOMAIN inbox' : ~Current(inbox[i])'
           /\ \A i \in DOMAIN calls : calls'[i] = calls[i] /\ ~Mentions(calls[i])'
           /\ \A j : NewCall(j) => ~Asks(calls'[j]) /\ ~IsOrder(calls'[j])
           /\ op.status # "none" => op.gen # generation'
<1>1. /\ Numbered /\ generation \in Nat /\ listening \in 0..generation
      /\ calls \in Seq(Call) /\ inbox \in Seq(Message) /\ op \in Op \cup {NoOp}
  BY Basics DEF Typed, TypeOK
<1>2. /\ generation' = generation + 1 /\ UNCHANGED <<listening, op>>
      /\ rows' = <<>> /\ \A t \in Tablet : epochs'[t] = 0
      /\ Grows(calls', calls) /\ TailOf(inbox', inbox)
  BY DEF Renewed, Cleared, Received
<1>3. ASSUME NEW c \in Call, NumbersOf(c, generation, nextEpoch)
      PROVE  ~IsOrder(c) => c.gen # generation'
  BY <1>1, <1>2, <1>3, CallFields DEF NumbersOf
<1>4. ASSUME NEW i \in DOMAIN inbox'
      PROVE  ~Current(inbox[i])'
  <2>1. i + 1 \in DOMAIN inbox /\ inbox'[i] = inbox[i + 1] /\ inbox'[i] \in Message
    BY <1>1, <1>2 DEF TailOf
  <2>2. IsAnswer(inbox'[i]) => inbox'[i].call \in Call
    BY <2>1, MessageFields
  <2>3. IsAnswer(inbox'[i]) /\ ~IsOrder(inbox'[i].call) => inbox'[i].call.gen # generation'
    BY <1>1, <1>3, <2>1, <2>2 DEF Numbered
  <2>4. IsSignal(inbox'[i]) => inbox'[i].gen # generation'
    BY <1>1, <1>2, <2>1 DEF Numbered
  <2> QED BY <2>3, <2>4 DEF Current, Mentions, IsOrder
<1>5. ASSUME NEW i \in DOMAIN calls
      PROVE  calls'[i] = calls[i] /\ ~Mentions(calls[i])'
  <2>1. calls'[i] = calls[i] /\ calls[i] \in Call /\ NumbersOf(calls[i], generation, nextEpoch)
    BY <1>1, <1>2 DEF Grows, Numbered
  <2>2. ~IsOrder(calls'[i]) => calls'[i].gen # generation'
    BY <1>3, <2>1
  <2> QED BY <2>1, <2>2 DEF Mentions, IsOrder
<1>6. op.status # "none" => op.gen # generation'
  BY <1>1, <1>2 DEF Numbered, NoOp, Op
<1>7. \A j : NewCall(j) => ~Asks(calls'[j]) /\ ~IsOrder(calls'[j])
  BY DEF Renewed, Asks, IsOrder
<1> QED BY <1>1, <1>2, <1>4, <1>5, <1>6, <1>7

LEMMA DormantKept ==
    ASSUME IInv, Next
    PROVE  Dormant'
<1>1. /\ Numbered /\ Listening /\ Dormant
      /\ generation \in Nat /\ listening \in 0..generation
  BY Basics
<1> DEFINE Sleeps == listening # generation \/ generation = 0
<1>2. CASE Announced
  BY <1>1, <1>2 DEF Announced, AppletIdle, modelVars, Dormant, Grows, New, Added, Owner,
                    Current, Mentions, IsSignal, IsAnswer
<1>3. CASE \E t \in Tablet : Signalled(t)
  <2>1. PICK t \in Tablet : Signalled(t)
    BY <1>3
  <2>2. /\ UNCHANGED <<listening, calls, modelVars, op>> /\ Grows(inbox', inbox)
        /\ \A j : New(j) => Signal(inbox'[j], t)
    BY <2>1 DEF Signalled, AppletIdle
  <2>3. \A j : New(j) /\ Sleeps => IsSignal(inbox'[j]) /\ inbox'[j].gen # generation
    BY <1>1, <2>2 DEF Signal
  <2> QED BY <1>1, <2>2, <2>3 DEF modelVars, Dormant, Grows, New, Added, Current, Mentions,
                                  IsSignal, IsAnswer
<1>4. CASE Matched
  <2>1. /\ UNCHANGED <<inbox, modelVars, op>> /\ TailOf(calls', calls)
        /\ IsMatch(calls[1]) /\ listening' = calls[1].gen /\ 1 \in DOMAIN calls
    BY <1>4 DEF Matched, BusIdle, TailOf
  <2>2. Sleeps
    BY <1>1, <2>1 DEF Listening
  <2>3. ~interface => listening' # generation \/ generation = 0
    <3>1. ~interface => ~Mentions(calls[1])
      BY <1>1, <2>1 DEF Dormant
    <3>2. calls[1].kind = "removeMatch" => calls[1].gen = 0
      BY <1>1, <2>1 DEF Numbered, NumbersOf
    <3> QED BY <1>1, <2>1, <3>1, <3>2 DEF Mentions, IsMatch
  <2> QED BY <1>1, <2>1, <2>2, <2>3 DEF modelVars, Dormant, TailOf, Current, Mentions
<1>5. CASE ProfileGot
  BY <1>1, <1>5 DEF ProfileGot, BusIdle, modelVars, Dormant, Current, Mentions, Asks
<1>6. CASE Served
  <2>1. /\ UNCHANGED <<listening, modelVars>> /\ TailOf(calls', calls) /\ Grows(inbox', inbox)
        /\ op'.status = op.status /\ op'.gen = op.gen /\ 1 \in DOMAIN calls
        /\ calls[1] \in Call /\ ~IsMatch(calls[1])
    BY <1>6 DEF Served, OpKept, TailOf
  <2>2. Sleeps => ~Mentions(calls[1])
    <3> SUFFICES ASSUME Sleeps, Mentions(calls[1])
                 PROVE  FALSE
      OBVIOUS
    <3>1. ~Asks(calls[1])
      BY <1>1, <2>1 DEF Dormant, Mentions
    <3>2. calls[1].kind = "getTabletList" /\ calls[1].gen = generation
      BY <2>1, <3>1, CallFields DEF Mentions, Asks, IsMatch
    <3>3. generation >= 1
      BY <1>1, <2>1, <3>2 DEF Numbered, NumbersOf
    <3>4. \A i \in DOMAIN calls : ~(i < 1)
      BY <2>1 DEF TailOf
    <3> QED BY <1>1, <2>1, <3>2, <3>3, <3>4 DEF Listening
  <2>3. \A j : New(j) /\ Sleeps => ~Current(inbox'[j])
    <3> SUFFICES ASSUME NEW j, New(j), Sleeps
                 PROVE  ~Current(inbox'[j])
      OBVIOUS
    <3>1. \/ IsAnswer(inbox'[j]) /\ inbox'[j].call = calls[1]
          \/ IsSignal(inbox'[j]) /\ inbox'[j].gen = listening /\ listening # 0
      BY <1>6 DEF Served, Signal
    <3> QED BY <1>1, <2>2, <3>1 DEF Current, IsSignal, IsAnswer
  <2> QED BY <1>1, <2>1, <2>3 DEF modelVars, Dormant, TailOf, Grows, New, Added, Current, Mentions
<1>7. CASE Renewed
  <2>1. /\ generation' = generation + 1 /\ UNCHANGED <<listening, op>>
        /\ rows' = <<>> /\ \A t \in Tablet : epochs'[t] = 0
        /\ Grows(calls', calls) /\ TailOf(inbox', inbox)
    BY <1>7 DEF Renewed, Cleared, Received
  <2>2. /\ \A i \in DOMAIN inbox' : ~Current(inbox[i])'
        /\ \A i \in DOMAIN calls : calls'[i] = calls[i] /\ ~Mentions(calls[i])'
        /\ \A j : NewCall(j) => ~Asks(calls'[j]) /\ ~IsOrder(calls'[j])
        /\ op.status # "none" => op.gen # generation'
        /\ listening # generation'
    BY <1>7, RenewedLifetime
  <2>3. \A i \in DOMAIN calls : Asks(calls[i]) => calls[i].gen # generation'
    BY <2>2 DEF Mentions, Asks
  <2>4. \A i \in DOMAIN calls' : i \in DOMAIN calls \/ NewCall(i)
    BY DEF NewCall, Added
  <2>5. ~interface' => \A j : NewCall(j) => ~Mentions(calls[j])'
    BY <1>7 DEF Renewed, Mentions
  <2> QED BY <2>1, <2>2, <2>3, <2>4, <2>5 DEF Dormant
<1>8. CASE Passed
  <2>1. /\ UNCHANGED <<generation, interface, listening>>
        /\ Grows(calls', calls) /\ TailOf(inbox', inbox) /\ 1 \in DOMAIN inbox
        /\ \A j : NewCall(j) => Current(inbox[1])
        /\ \A t \in Tablet : epochs'[t] = epochs[t] \/ Current(inbox[1])
        /\ rows' = rows \/ Current(inbox[1]) \/ rows # <<>>
        /\ op'.status = "pending" => op.status = "pending" /\ op'.gen = op.gen
    BY <1>8 DEF Passed, Received, TailOf
  <2>2. Sleeps => ~Current(inbox[1])
    BY <1>1, <2>1 DEF Dormant
  <2> QED BY <1>1, <2>1, <2>2 DEF Dormant, TailOf, Grows, NewCall, Added, Current, Mentions
<1>9. CASE Ordered
  <2>1. /\ UNCHANGED <<listening, inbox, modelVars>> /\ Grows(calls', calls)
        /\ interface => Shown # {}
        /\ ~interface => op'.status # "pending"
        /\ \A j : NewCall(j) => interface /\ IsOrder(calls'[j])
    BY <1>9 DEF Ordered
  <2>2. Sleeps => ~interface
    BY <1>1, <2>1 DEF Dormant, Shown
  <2> QED BY <1>1, <2>1, <2>2 DEF modelVars, Dormant, Grows, NewCall, Added, Current, Mentions, Asks, IsOrder
<1> QED BY <1>2, <1>3, <1>4, <1>5, <1>6, <1>7, <1>8, <1>9, Steps

LEMMA OwnedKept ==
    ASSUME IInv, Next
    PROVE  Owned'
<1>1. /\ Owned /\ Numbered /\ generation \in Nat /\ up \in BOOLEAN /\ interface \in BOOLEAN
      /\ inbox \in Seq(Message)
  BY Basics DEF IInv
<1> DEFINE Names(m) == m.kind = "reply" /\ m.call.kind = "nameHasOwner"
           Known1(m) == (Owner(m) => m.owned = up) /\ (Names(m) => m.value = up)
           Asked == /\ generation = 0 /\ up
                    /\ \/ \E i \in DOMAIN calls : calls[i].kind = "nameHasOwner"
                       \/ \E i \in DOMAIN inbox : Names(inbox[i])
<1>2. CASE Announced
  <2>1. /\ Grows(inbox', inbox)
        /\ \A j : New(j) => Owner(inbox'[j]) /\ inbox'[j].owned = up'
    BY <1>2 DEF Announced
  <2>2. PICK k : New(k)
    BY <1>2 DEF Announced
  <2>3. k \in DOMAIN inbox' /\ Owner(inbox'[k]) /\ \A i \in DOMAIN inbox : i < k
    BY <2>1, <2>2 DEF New, Added, Grows
  <2>4. Reset'
    BY <2>3 DEF Reset
  <2>5. \A i \in DOMAIN inbox' : i \in DOMAIN inbox \/ New(i)
    BY DEF New, Added
  <2>6. \A i \in DOMAIN inbox' : New(i) =>
            (Owner(inbox'[i]) => inbox'[i].owned = up') /\ ~Names(inbox'[i])
    BY <2>1 DEF Owner
  <2> QED BY <2>3, <2>4, <2>5, <2>6 DEF Owned
<1>3. CASE \E t \in Tablet : Signalled(t)
  <2>1. PICK t \in Tablet : Signalled(t)
    BY <1>3
  <2>2. /\ UNCHANGED <<up, interface, generation, calls>> /\ Grows(inbox', inbox)
        /\ \A j : New(j) => ~Owner(inbox'[j]) /\ ~Names(inbox'[j])
    BY <2>1 DEF Signalled, AppletIdle, modelVars, Signal, IsSignal, Owner
  <2>3. \A i \in DOMAIN inbox' : i \in DOMAIN inbox \/ New(i)
    BY DEF New, Added
  <2> QED BY <1>1, <2>2, <2>3 DEF Owned, Reset, Grows
<1>4. CASE Matched \/ ProfileGot
  <2>1. UNCHANGED <<up, inbox, interface, generation>>
    BY <1>4 DEF Matched, ProfileGot, BusIdle, serviceVars, modelVars
  <2>2. \A i \in DOMAIN calls : calls[i].kind = "nameHasOwner" =>
            \E j \in DOMAIN calls' : calls'[j] = calls[i]
    <3>1. CASE Matched
      BY <3>1 DEF Matched, TailOf, IsMatch
    <3>2. CASE ProfileGot
      BY <3>2 DEF ProfileGot
    <3> QED BY <1>4, <3>1, <3>2
  <2> QED BY <1>1, <2>1, <2>2 DEF Owned, Reset
<1>5. CASE Served
  <2>1. /\ UNCHANGED <<up, interface, generation>> /\ Grows(inbox', inbox)
        /\ TailOf(calls', calls)
    BY <1>5 DEF Served, modelVars
  <2>2. \A i \in DOMAIN inbox' : i \in DOMAIN inbox \/ New(i)
    BY DEF New, Added
  <2>3. \A j : New(j) => ~Owner(inbox'[j]) /\ (Names(inbox'[j]) => inbox'[j].value = up)
    <3> SUFFICES ASSUME NEW j, New(j)
                 PROVE  ~Owner(inbox'[j]) /\ (Names(inbox'[j]) => inbox'[j].value = up)
      OBVIOUS
    <3>1. \/ IsAnswer(inbox'[j]) /\ inbox'[j].call = calls[1]
          \/ IsSignal(inbox'[j])
      BY <1>5 DEF Served, Signal
    <3>2. inbox'[j].kind = "reply" => Says(calls[1], inbox'[j].value)
      BY <1>5 DEF Served
    <3> QED BY <3>1, <3>2 DEF IsAnswer, IsSignal, Owner, Says
  <2>4. calls[1].kind = "nameHasOwner" => \E j : New(j) /\ Names(inbox'[j])
    <3>1. PICK j : New(j) /\ IsAnswer(inbox'[j])
      BY <1>5 DEF Served
    <3>2. inbox'[j].call = calls[1]
      BY <1>5, <3>1 DEF Served, Signal, IsSignal, IsAnswer
    <3>3. inbox'[j].kind = "error" => ForDaemon(calls[1])
      BY <1>5, <3>1 DEF Served
    <3> QED BY <3>1, <3>2, <3>3 DEF IsAnswer, ForDaemon
  <2>5. \A i \in DOMAIN calls : calls[i].kind = "nameHasOwner" =>
            \/ \E j \in DOMAIN calls' : calls'[j] = calls[i]
            \/ \E j \in DOMAIN inbox' : Names(inbox'[j])
    BY <2>1, <2>4 DEF TailOf, New, Added
  <2>6. Asked => Asked'
    BY <2>1, <2>5 DEF Grows
  <2>7. Reset => Reset'
    BY <2>1 DEF Reset, Grows
  <2>8. ASSUME NEW i \in DOMAIN inbox', \A j \in DOMAIN inbox' : i < j => ~Owner(inbox'[j])
        PROVE  Known1(inbox'[i])
    BY <1>1, <2>1, <2>2, <2>3, <2>8 DEF Owned, Grows, Owner
  <2> QED BY <1>1, <2>1, <2>6, <2>7, <2>8 DEF Owned
<1>6. CASE Renewed
  <2>1. UNCHANGED up /\ TailOf(inbox', inbox) /\ 1 \in DOMAIN inbox /\ interface' \in BOOLEAN
        /\ \A i \in DOMAIN inbox : i >= 1
    BY <1>6 DEF Renewed, Received, serviceVars, TailOf, Typed, TypeOK
  <2>2. ASSUME NEW i \in DOMAIN inbox', \A j \in DOMAIN inbox' : i < j => ~Owner(inbox'[j])
        PROVE  Known1(inbox'[i])
    <3>1. i \in Nat /\ i + 1 \in DOMAIN inbox /\ inbox'[i] = inbox[i + 1]
      BY <2>1 DEF TailOf
    <3>2. ASSUME NEW j \in DOMAIN inbox, i + 1 < j
          PROVE  ~Owner(inbox[j])
      <4>1. j \in Nat /\ j - 1 \in DOMAIN inbox' /\ inbox'[j - 1] = inbox[j] /\ i < j - 1
        BY <2>1, <3>1, <3>2 DEF TailOf
      <4> QED BY <2>2, <4>1
    <3> QED BY <1>1, <3>1, <3>2 DEF Owned
  <2>3. ~Reset' => interface' = up
    <3> SUFFICES ASSUME ~Reset'
                 PROVE  interface' = up
      OBVIOUS
    <3>1. \A j \in DOMAIN inbox : 1 < j => ~Owner(inbox[j])
      BY <2>1 DEF Reset, TailOf
    <3>2. Known1(inbox[1])
      BY <1>1, <2>1, <3>1 DEF Owned
    <3>3. CASE Owner(inbox[1])
      BY <1>1, <1>6, <2>1, <3>2, <3>3 DEF Renewed
    <3>4. CASE ~Owner(inbox[1])
      BY <1>1, <1>6, <2>1, <3>2, <3>4 DEF Renewed
    <3> QED BY <3>3, <3>4
  <2> QED BY <2>1, <2>2, <2>3 DEF Owned
<1>7. CASE Passed
  <2>1. /\ UNCHANGED <<up, interface, generation>> /\ TailOf(inbox', inbox) /\ 1 \in DOMAIN inbox
        /\ Grows(calls', calls) /\ ~Owner(inbox[1]) /\ ~Registers(inbox[1])
    BY <1>7 DEF Passed, Received, serviceVars, TailOf
  <2>2. ASSUME NEW i \in DOMAIN inbox', \A j \in DOMAIN inbox' : i < j => ~Owner(inbox'[j])
        PROVE  Known1(inbox'[i])
    <3>1. i \in Nat /\ i + 1 \in DOMAIN inbox /\ inbox'[i] = inbox[i + 1]
      BY <2>1 DEF TailOf
    <3>2. ASSUME NEW j \in DOMAIN inbox, i + 1 < j
          PROVE  ~Owner(inbox[j])
      <4>1. j \in Nat /\ j - 1 \in DOMAIN inbox' /\ inbox'[j - 1] = inbox[j] /\ i < j - 1
        BY <2>1, <3>1, <3>2 DEF TailOf
      <4> QED BY <2>2, <4>1
    <3> QED BY <1>1, <3>1, <3>2 DEF Owned
  <2>3. ~Reset' => ~Reset
    BY <2>1 DEF Reset, TailOf
  <2>4. ~Reset /\ generation = 0 /\ up => ~Names(inbox[1])
    <3> SUFFICES ASSUME ~Reset, generation = 0, up, Names(inbox[1])
                 PROVE  FALSE
      OBVIOUS
    <3>1. inbox[1].value = up
      BY <1>1, <2>1 DEF Owned, Reset
    <3>2. inbox[1].call.gen = 0
      BY <1>1, <2>1 DEF Numbered, NumbersOf, IsAnswer
    <3> QED BY <2>1, <3>1, <3>2 DEF Registers
  <2>5. \A i \in DOMAIN inbox : i # 1 => \E j \in DOMAIN inbox' : inbox'[j] = inbox[i]
    BY <2>1 DEF TailOf
  <2>6. ~Reset /\ Asked => Asked'
    BY <2>1, <2>4, <2>5 DEF Grows
  <2> QED BY <1>1, <2>1, <2>2, <2>3, <2>6 DEF Owned
<1>8. CASE Ordered
  <2>1. UNCHANGED <<up, inbox, interface, generation>> /\ Grows(calls', calls)
    BY <1>8 DEF Ordered, serviceVars, modelVars
  <2> QED BY <1>1, <2>1 DEF Owned, Reset, Grows
<1> QED BY <1>2, <1>3, <1>4, <1>5, <1>6, <1>7, <1>8, Steps

LEMMA ErrorsAreOldKept ==
    ASSUME IInv, Next
    PROVE  ErrorsAreOld'
<1>1. /\ ErrorsAreOld /\ Owned /\ Dormant /\ OrdersAreWatched /\ timeouts \in Nat
      /\ generation \in Nat /\ listening \in 0..generation /\ inbox \in Seq(Message)
  BY Basics DEF IInv
<1> USE DEF ErrorsAreOld
<1>2. CASE Announced \/ \E t \in Tablet : Signalled(t)
  <2>1. /\ UNCHANGED <<generation, op, timeouts>> /\ Grows(inbox', inbox)
        /\ \A j : New(j) => inbox'[j].kind # "error"
    BY <1>2 DEF Announced, Signalled, AppletIdle, modelVars, Owner, Signal, IsSignal
  <2>2. \A i \in DOMAIN inbox' : inbox'[i].kind = "error" => i \in DOMAIN inbox
    BY <2>1 DEF New, Added
  <2>3. \A i \in DOMAIN inbox : inbox'[i] = inbox[i] /\ \A j \in 1..(i - 1) : inbox'[j] = inbox[j]
    BY <1>1, <2>1 DEF Grows
  <2> QED BY <1>1, <2>1, <2>2, <2>3 DEF Mentions, Owner
<1>3. CASE Matched \/ ProfileGot
  BY <1>1, <1>3 DEF Matched, ProfileGot, BusIdle, modelVars, countVars, Mentions
<1>4. CASE Served
  <2>1. /\ UNCHANGED <<up, generation, interface>> /\ Grows(inbox', inbox) /\ TailOf(calls', calls)
        /\ timeouts' \in {timeouts, timeouts + 1}
        /\ op'.status = op.status /\ op'.gen = op.gen /\ op'.failed = op.failed
    BY <1>4 DEF Served, modelVars, OpKept
  <2>2. \A i \in DOMAIN inbox : inbox'[i] = inbox[i] /\ \A j \in 1..(i - 1) : inbox'[j] = inbox[j]
    BY <1>1, <2>1 DEF Grows
  <2>3. ASSUME NEW i, New(i), inbox'[i].kind = "error", \A j \in 1..(i - 1) : ~Owner(inbox'[j]),
               timeouts' = 0
        PROVE  ~Mentions(inbox'[i].call) /\ ~(IsOrder(inbox'[i].call) /\ op.gen = generation)
    <3>1. /\ inbox'[i].call = calls[1] /\ ~up
      BY <1>4, <2>3 DEF Served, Signal, IsSignal, IsAnswer
    <3>2. ~Reset
      <4>1. \A k \in DOMAIN inbox : inbox'[k] = inbox[k] /\ k \in 1..(i - 1)
        <5>1. i \in DOMAIN inbox' \ DOMAIN inbox
          BY <2>3 DEF New, Added
        <5>2. \A k \in DOMAIN inbox : k \in Nat /\ k >= 1 /\ i \in Nat /\ k < i
          BY <2>1, <5>1 DEF Grows
        <5> QED BY <2>2, <5>2
      <4> QED BY <2>3, <4>1 DEF Reset
    <3>3. ~interface
      BY <1>1, <3>1, <3>2 DEF Owned
    <3>4. 1 \in DOMAIN calls
      BY <2>1 DEF TailOf
    <3>5. ~Mentions(calls[1])
      BY <1>1, <3>3, <3>4 DEF Dormant
    <3>6. IsOrder(calls[1]) => op.status = "pending"
      BY <1>1, <3>4 DEF OrdersAreWatched, OrderOf
    <3> QED BY <1>1, <3>1, <3>3, <3>5, <3>6 DEF Dormant
  <2>4. \A i \in DOMAIN inbox' : i \in DOMAIN inbox \/ New(i)
    BY DEF New, Added
  <2>5. timeouts' = 0 => timeouts = 0
    BY <1>1, <2>1
  <2>6. timeouts' > 0 <=> timeouts' # 0
    BY <1>1, <2>1
  <2>7. timeouts > 0 <=> timeouts # 0
    BY <1>1
  <2> QED BY <1>1, <2>1, <2>2, <2>3, <2>4, <2>5, <2>6, <2>7 DEF Mentions, Owner
<1>5. CASE Renewed
  <2>1. /\ \A i \in DOMAIN inbox' : ~Current(inbox[i])'
        /\ op.status # "none" => op.gen # generation'
        /\ op' = op
    BY <1>5, RenewedLifetime
  <2>2. \A i \in DOMAIN inbox' : IsAnswer(inbox'[i]) /\ IsOrder(inbox'[i].call) => op.status = "pending"
    BY <1>1, <1>5 DEF Renewed, Received, TailOf, OrdersAreWatched, OrderOf
  <2>3. \A i \in DOMAIN inbox' : inbox'[i].kind = "error" => IsAnswer(inbox'[i]) /\ ~Mentions(inbox[i].call)'
    BY <2>1 DEF Current, IsAnswer
  <2> QED BY <2>1, <2>2, <2>3
<1>6. CASE Passed
  <2>1. /\ UNCHANGED <<generation, timeouts>> /\ TailOf(inbox', inbox) /\ 1 \in DOMAIN inbox
        /\ ~Owner(inbox[1])
        /\ \/ op' = op
           \/ /\ op.status = "pending" /\ op'.gen = op.gen
              /\ op'.failed => op.failed \/ (inbox[1].kind = "error" /\ IsOrder(inbox[1].call))
    BY <1>6 DEF Passed, Received, countVars, TailOf
  <2>2. ASSUME NEW i \in DOMAIN inbox', inbox'[i].kind = "error",
               Mentions(inbox'[i].call) \/ (IsOrder(inbox'[i].call) /\ op.gen = generation),
               \A j \in 1..(i - 1) : ~Owner(inbox'[j])
        PROVE  timeouts > 0
    <3>1. i \in Nat /\ i + 1 \in DOMAIN inbox /\ inbox'[i] = inbox[i + 1]
      BY <2>1 DEF TailOf
    <3>2. ASSUME NEW j \in 1..((i + 1) - 1)
          PROVE  ~Owner(inbox[j])
      <4>1. CASE j = 1
        BY <2>1, <4>1
      <4>2. CASE j # 1
        <5>1. j \in DOMAIN inbox
          BY <1>1, <3>1
        <5>2. j - 1 \in 1..(i - 1) /\ inbox'[j - 1] = inbox[j]
          BY <2>1, <3>1, <4>2, <5>1 DEF TailOf
        <5> QED BY <2>2, <5>2
      <4> QED BY <4>1, <4>2
    <3> QED BY <1>1, <2>2, <3>1, <3>2
  <2>3. inbox[1].kind = "error" /\ IsOrder(inbox[1].call) /\ op.gen = generation => timeouts > 0
    <3>1. \A j \in 1..(1 - 1) : ~Owner(inbox[j])
      OBVIOUS
    <3> QED BY <1>1, <2>1, <3>1
  <2> QED BY <1>1, <2>1, <2>2, <2>3 DEF Mentions
<1>7. CASE Ordered
  <2>1. /\ UNCHANGED <<inbox, generation, timeouts>> /\ op.status # "pending"
        /\ op'.status = "pending" => ~op'.failed
    BY <1>7 DEF Ordered, modelVars
  <2>2. \A i \in DOMAIN inbox : inbox[i].kind = "error" => ~IsOrder(inbox[i].call)
    BY <1>1, <2>1 DEF OrdersAreWatched, OrderOf, IsAnswer
  <2> QED BY <1>1, <2>1, <2>2 DEF Mentions
<1> QED BY <1>2, <1>3, <1>4, <1>5, <1>6, <1>7, Steps

\* What becomes of the lifetime of t when the first message is delivered, and why.
Told(t) ==
    /\ Brings(inbox[1], t) => epochs'[t] > 0
    /\ Removes(inbox[1], t) => epochs'[t] = 0
    /\ \/ epochs'[t] = epochs[t]
       \/ /\ Brings(inbox[1], t) /\ epochs[t] = 0 /\ epochs'[t] > nextEpoch
          /\ \E j : /\ NewCall(j) /\ calls'[j].kind = "isTouchSensor" /\ calls'[j].tablet = t
                    /\ calls'[j].gen = generation /\ calls'[j].epoch = epochs'[t]
       \/ Removes(inbox[1], t)
       \/ /\ inbox[1].kind = "error" /\ Asks(inbox[1].call) /\ ThisEpoch(inbox[1].call)
          /\ inbox[1].call.tablet = t /\ epochs'[t] = 0

LEMMA DiscoveredTold ==
    ASSUME Typed, NEW ids, Discovered(ids), inbox[1].kind # "tabletRemoved",
           NEW t \in Tablet, t \in ids <=> Brings(inbox[1], t)
    PROVE  Told(t)
<1>1. epochs[t] \in Nat /\ nextEpoch \in Nat /\ epochs'[t] \in Nat
  BY DEF Discovered, Typed, TypeOK
<1>2. CASE t \in ids /\ epochs[t] = 0
  <2>1. epochs'[t] > nextEpoch /\ \E j : NewCall(j) /\ calls'[j].tablet = t
    BY <1>2 DEF Discovered
  <2>2. \E j : /\ NewCall(j) /\ calls'[j].kind = "isTouchSensor" /\ calls'[j].tablet = t
               /\ calls'[j].gen = generation /\ calls'[j].epoch = epochs'[t]
    BY <2>1 DEF Discovered
  <2> QED BY <1>1, <1>2, <2>1, <2>2 DEF Told, Removes
<1>3. CASE ~(t \in ids /\ epochs[t] = 0)
  BY <1>1, <1>3 DEF Told, Removes, Discovered
<1> QED BY <1>2, <1>3

LEMMA DeliverTold ==
    ASSUME IInv, Deliver, Passed, interface, NEW t \in Tablet
    PROVE  Told(t)
<1>1. /\ Typed /\ Numbered /\ Known /\ RowsAreAlive /\ SourcesAreRows /\ OrdersAreWatched
      /\ epochs \in [Tablet -> 0..nextEpoch]
  BY Basics DEF IInv
<1>2. CASE OnOwnerChanged
  BY <1>1, <1>2, OwnerChangedEffect DEF Passed
<1>3. CASE OnNameHasOwner
  <2>1. inbox[1].kind = "reply" /\ inbox[1].call.kind = "nameHasOwner" /\ UNCHANGED epochs
    BY <1>1, <1>3, NameHasOwnerEffect DEF Passed, Registers, modelVars
  <2> QED BY <2>1 DEF Told, Brings, Removes
<1>4. CASE OnTabletList
  <2>1. inbox[1].kind = "reply" /\ inbox[1].call.kind = "getTabletList"
    BY <1>1, <1>4, TabletListEffect
  <2>2. CASE inbox[1].call.gen = generation
    <3>1. Discovered(inbox[1].value)
      BY <1>1, <1>4, <2>2, TabletListEffect
    <3>2. t \in inbox[1].value <=> Brings(inbox[1], t)
      BY <2>1, <2>2 DEF Brings
    <3> QED BY <1>1, <2>1, <3>1, <3>2, DiscoveredTold
  <2>3. CASE inbox[1].call.gen # generation
    <3>1. UNCHANGED epochs
      BY <1>1, <1>4, <2>3, TabletListEffect
    <3> QED BY <2>1, <2>3, <3>1 DEF Told, Brings, Removes
  <2> QED BY <2>2, <2>3
<1>5. CASE OnTabletAdded
  <2>1. inbox[1].kind = "tabletAdded"
    BY <1>1, <1>5, TabletAddedEffect
  <2>2. CASE inbox[1].gen = generation
    <3>1. Discovered({inbox[1].tablet})
      BY <1>1, <1>5, <2>2, TabletAddedEffect
    <3>2. t \in {inbox[1].tablet} <=> Brings(inbox[1], t)
      BY <2>1, <2>2 DEF Brings
    <3> QED BY <1>1, <2>1, <3>1, <3>2, DiscoveredTold
  <2>3. CASE inbox[1].gen # generation
    <3>1. UNCHANGED epochs
      BY <1>1, <1>5, <2>3, TabletAddedEffect
    <3> QED BY <2>1, <2>3, <3>1 DEF Told, Brings, Removes
  <2> QED BY <2>2, <2>3
<1>6. CASE OnIsTouchSensor
  <2>1. inbox[1].kind = "reply" /\ inbox[1].call.kind = "isTouchSensor" /\ UNCHANGED epochs
    BY <1>1, <1>6, IsTouchSensorEffect DEF modelVars
  <2> QED BY <2>1 DEF Told, Brings, Removes
<1>7. CASE OnTabletData
  <2>1. inbox[1].kind = "reply" /\ inbox[1].call.kind = "getProperty" /\ UNCHANGED epochs
    BY <1>1, <1>7, TabletDataEffect
  <2> QED BY <2>1 DEF Told, Brings, Removes
<1>8. CASE OnError
  <2>1. inbox[1].kind = "error"
    BY <1>1, <1>8, OnErrorEffect
  <2>2. IF Asks(inbox[1].call) /\ ThisEpoch(inbox[1].call)
        THEN epochs' = [epochs EXCEPT ![inbox[1].call.tablet] = 0]
        ELSE epochs' = epochs
    BY <1>1, <1>8, OnErrorEffect
  <2>3. \/ epochs'[t] = epochs[t]
        \/ /\ Asks(inbox[1].call) /\ ThisEpoch(inbox[1].call) /\ inbox[1].call.tablet = t
           /\ epochs'[t] = 0
    BY <1>1, <2>2
  <2> QED BY <2>1, <2>3 DEF Told, Brings, Removes
<1>9. CASE OnTabletRemoved
  <2>1. /\ inbox[1].kind = "tabletRemoved"
        /\ IF inbox[1].gen = generation
           THEN epochs' = [epochs EXCEPT ![inbox[1].tablet] = 0]
           ELSE epochs' = epochs
    BY <1>1, <1>9, TabletRemovedEffect
  <2>2. Removes(inbox[1], t) => epochs'[t] = 0
    BY <1>1, <2>1 DEF Removes
  <2>3. ~Removes(inbox[1], t) => epochs'[t] = epochs[t]
    BY <1>1, <2>1 DEF Removes
  <2> QED BY <2>1, <2>2, <2>3 DEF Told, Brings
<1>10. CASE OnProfileChanged
  <2>1. inbox[1].kind = "profileChanged" /\ UNCHANGED epochs
    BY <1>1, <1>10, ProfileChangedEffect
  <2> QED BY <2>1 DEF Told, Brings, Removes
<1>11. CASE OnOperationReply
  <2>1. IsAnswer(inbox[1]) /\ IsOrder(inbox[1].call) /\ UNCHANGED epochs
    BY <1>1, <1>11, OperationReplyEffect
  <2> QED BY <2>1 DEF Told, Brings, Removes, IsAnswer, IsOrder
<1> QED BY <1>2, <1>3, <1>4, <1>5, <1>6, <1>7, <1>8, <1>9, <1>10, <1>11 DEF Deliver

LEMMA GoneIsToldKept ==
    ASSUME IInv, Next
    PROVE  GoneIsTold'
<1>1. /\ GoneIsTold /\ Dormant /\ generation \in Nat /\ listening \in 0..generation
      /\ interface \in BOOLEAN /\ present \subseteq Tablet /\ epochs \in [Tablet -> 0..nextEpoch]
      /\ nextEpoch \in Nat
  BY Basics DEF IInv, Typed, TypeOK
<1>2. CASE Announced
  <2>1. \E j \in DOMAIN inbox' : Owner(inbox'[j])
    BY <1>2 DEF Announced, New, Added
  <2> QED BY <2>1 DEF GoneIsTold, Reset
<1>3. CASE \E t \in Tablet : Signalled(t)
  <2>1. PICK u \in Tablet : Signalled(u)
    BY <1>3
  <2>2. /\ UNCHANGED <<listening, epochs, interface, generation>> /\ Grows(inbox', inbox)
        /\ \A j : New(j) => Signal(inbox'[j], u)
        /\ ProfileSaid(u) \/ Plugged(u) \/ Unplugged(u)
    BY <2>1 DEF Signalled, AppletIdle, modelVars
  <2> SUFFICES ASSUME interface, ~Reset', NEW t \in Tablet \ present'
               PROVE  /\ epochs[t] > 0 => \E i \in DOMAIN inbox' : Removes(inbox'[i], t)
                      /\ \A i \in DOMAIN inbox' : Brings(inbox'[i], t) =>
                             \E j \in DOMAIN inbox' : i < j /\ Removes(inbox'[j], t)
    BY <2>2 DEF GoneIsTold, Removes, Brings
  <2>3. ~Reset
    BY <2>2 DEF Reset, Grows
  <2>4. \A i \in DOMAIN inbox' : i \in DOMAIN inbox \/ New(i)
    BY DEF New, Added
  <2>5. CASE t \notin present
    <3>1. \A j : New(j) => ~Brings(inbox'[j], t)
      <4>1. CASE ProfileSaid(u) \/ Unplugged(u)
        BY <4>1 DEF ProfileSaid, Unplugged, Brings
      <4>2. CASE Plugged(u)
        <5>1. t # u
          BY <4>2 DEF Plugged
        <5> QED BY <2>2, <5>1 DEF Signal, IsSignal, Brings
      <4> QED BY <2>2, <4>1, <4>2
    <3> QED BY <1>1, <2>2, <2>3, <2>4, <2>5, <3>1 DEF GoneIsTold, Grows
  <2>6. CASE t \in present
    <3>1. t = u /\ Unplugged(t)
      BY <2>2, <2>6 DEF ProfileSaid, Plugged, Unplugged
    <3>2. listening = generation /\ generation # 0 =>
              \E j : New(j) /\ Removes(inbox'[j], t)
      BY <2>2, <3>1 DEF Unplugged, Signal, Removes
    <3>3. \A i \in DOMAIN inbox : Brings(inbox[i], t) => Current(inbox[i])
      BY DEF Brings, Current, IsSignal, IsAnswer, Mentions
    <3>4. listening # generation \/ generation = 0 =>
              epochs[t] = 0 /\ \A i \in DOMAIN inbox : ~Brings(inbox[i], t)
      BY <1>1, <3>3 DEF Dormant
    <3>5. \A j : New(j) => ~Brings(inbox'[j], t)
      BY <3>1 DEF Unplugged, Brings
    <3>6. \A i \in DOMAIN inbox : \A j : New(j) => inbox'[i] = inbox[i] /\ i < j /\ j \in DOMAIN inbox'
      BY <2>2 DEF Grows, New, Added
    <3>7. CASE listening = generation /\ generation # 0
      BY <2>4, <3>2, <3>5, <3>6, <3>7 DEF New, Added
    <3>8. CASE ~(listening = generation /\ generation # 0)
      <4>1. epochs[t] = 0 /\ \A i \in DOMAIN inbox : ~Brings(inbox[i], t)
        BY <3>4, <3>8
      <4> QED BY <2>2, <2>4, <3>5, <4>1 DEF Grows
    <3> QED BY <3>7, <3>8
  <2> QED BY <2>5, <2>6
<1>4. CASE Matched \/ ProfileGot \/ Ordered
  <2>1. UNCHANGED <<inbox, epochs, interface, generation, present>>
    BY <1>4 DEF Matched, ProfileGot, Ordered, BusIdle, serviceVars, modelVars
  <2> QED BY <1>1, <2>1 DEF GoneIsTold, Reset, Removes, Brings
<1>5. CASE Served
  <2>1. /\ UNCHANGED <<epochs, interface, generation, present>> /\ Grows(inbox', inbox)
    BY <1>5 DEF Served, modelVars
  <2>2. ASSUME NEW t \in Tablet \ present, NEW j, New(j)
        PROVE  ~Brings(inbox'[j], t)
    <3>1. \/ inbox'[j].kind \in {"reply", "error"} /\ inbox'[j].call = calls[1]
          \/ inbox'[j].kind = "profileChanged"
      BY <1>5, <2>2 DEF Served, IsAnswer
    <3>2. inbox'[j].kind = "reply" /\ calls[1].kind = "getTabletList" => inbox'[j].value = present
      BY <1>5, <2>2 DEF Served, Says
    <3> QED BY <3>1, <3>2 DEF Brings
  <2>3. \A i \in DOMAIN inbox' : i \in DOMAIN inbox \/ New(i)
    BY DEF New, Added
  <2>4. ~Reset' => ~Reset
    BY <2>1 DEF Reset, Grows
  <2>5. \A m, t : (Brings(m, t)' <=> Brings(m, t)) /\ (Removes(m, t)' <=> Removes(m, t))
    BY <2>1 DEF Brings, Removes
  <2> QED BY <1>1, <2>1, <2>2, <2>3, <2>4 DEF GoneIsTold, Grows, Brings, Removes
<1>6. CASE Renewed
  <2>1. /\ \A t \in Tablet : epochs'[t] = 0
        /\ \A i \in DOMAIN inbox' : ~Current(inbox[i])'
    BY <1>6, RenewedLifetime
  <2>2. \A i \in DOMAIN inbox' : \A t : ~Brings(inbox[i], t)'
    BY <2>1 DEF Brings, Current, IsSignal, IsAnswer, Mentions
  <2> QED BY <2>1, <2>2 DEF GoneIsTold
<1>7. CASE Deliver /\ Passed
  <2>1. /\ UNCHANGED <<present, interface, generation>> /\ TailOf(inbox', inbox) /\ 1 \in DOMAIN inbox
        /\ ~Owner(inbox[1])
    BY <1>7 DEF Passed, Received, serviceVars, TailOf
  <2> SUFFICES ASSUME interface, ~Reset', NEW t \in Tablet \ present
               PROVE  /\ epochs'[t] > 0 => \E i \in DOMAIN inbox' : Removes(inbox'[i], t)
                      /\ \A i \in DOMAIN inbox' : Brings(inbox'[i], t) =>
                             \E j \in DOMAIN inbox' : i < j /\ Removes(inbox'[j], t)
    BY <2>1 DEF GoneIsTold, Removes, Brings
  <2>2. ~Reset
    BY <2>1 DEF Reset, TailOf
  <2>3. Told(t)
    BY <1>7, DeliverTold
  <2>4. /\ epochs[t] > 0 => \E i \in DOMAIN inbox : Removes(inbox[i], t)
        /\ \A i \in DOMAIN inbox : Brings(inbox[i], t) =>
               \E j \in DOMAIN inbox : i < j /\ Removes(inbox[j], t)
    BY <1>1, <2>2 DEF GoneIsTold
  <2>5. \A j \in DOMAIN inbox : j \in Nat /\ (j # 1 => j - 1 \in DOMAIN inbox' /\ inbox'[j - 1] = inbox[j])
    BY <2>1 DEF TailOf
  <2>6. \A i \in DOMAIN inbox' : i \in Nat /\ i + 1 \in DOMAIN inbox /\ inbox'[i] = inbox[i + 1]
    BY <2>1 DEF TailOf
  <2>7. ASSUME epochs'[t] > 0
        PROVE  \E i \in DOMAIN inbox' : Removes(inbox'[i], t)
    <3>1. ~Removes(inbox[1], t)
      BY <2>3, <2>7 DEF Told
    <3>2. epochs[t] > 0 \/ Brings(inbox[1], t)
      <4>1. inbox[1].kind = "error" /\ Asks(inbox[1].call) /\ ThisEpoch(inbox[1].call)
            /\ inbox[1].call.tablet = t => epochs[t] > 0
        BY <1>1, <2>1, CallFields DEF ThisEpoch, IInv, Numbered, NumbersOf, IsAnswer
      <4> QED BY <2>3, <2>7, <3>1, <4>1 DEF Told
    <3>3. PICK j \in DOMAIN inbox : Removes(inbox[j], t)
      BY <2>1, <2>4, <3>2
    <3> QED BY <2>5, <3>1, <3>3
  <2>8. ASSUME NEW i \in DOMAIN inbox', Brings(inbox'[i], t)
        PROVE  \E j \in DOMAIN inbox' : i < j /\ Removes(inbox'[j], t)
    <3>1. PICK j \in DOMAIN inbox : i + 1 < j /\ Removes(inbox[j], t)
      BY <2>4, <2>6, <2>8
    <3>2. j # 1 /\ i < j - 1
      BY <2>5, <2>6, <3>1
    <3> QED BY <2>5, <3>1, <3>2
  <2> QED BY <2>7, <2>8
<1> QED BY <1>2, <1>3, <1>4, <1>5, <1>6, <1>7, Steps

LEMMA PresentIsToldKept ==
    ASSUME IInv, Next
    PROVE  PresentIsTold'
<1>1. /\ PresentIsTold /\ Listening /\ Owned /\ ErrorsAreOld /\ generation \in Nat
      /\ listening \in 0..generation /\ present \subseteq Tablet /\ timeouts \in Nat
      /\ epochs \in [Tablet -> 0..nextEpoch] /\ nextEpoch \in Nat /\ interface \in BOOLEAN
      /\ up \in BOOLEAN
  BY Basics DEF IInv, Typed, TypeOK
<1> DEFINE Lists(c) == c.kind = "getTabletList" /\ c.gen = generation
           Is(t) == epochs[t] > 0 /\ \A i \in DOMAIN inbox : ~Removes(inbox[i], t)
           WillBe(t) == \E i \in DOMAIN calls : Lists(calls[i])
           Comes(t) == \E i \in DOMAIN inbox :
                           /\ Brings(inbox[i], t)
                           /\ \A j \in DOMAIN inbox : i < j => ~Removes(inbox[j], t)
<1>2. PresentIsTold <=>
          (interface /\ ~Reset /\ timeouts = 0 => \A t \in present : Is(t) \/ WillBe(t) \/ Comes(t))
  BY DEF PresentIsTold
<1>3. PresentIsTold' <=>
          (interface' /\ ~Reset' /\ timeouts' = 0 =>
               \A t \in present' : Is(t)' \/ WillBe(t)' \/ Comes(t)')
  BY DEF PresentIsTold
<1>4. CASE Announced
  <2>1. \E j \in DOMAIN inbox' : Owner(inbox'[j])
    BY <1>4 DEF Announced, New, Added
  <2> QED BY <1>3, <2>1 DEF Reset
<1>5. CASE \E t \in Tablet : Signalled(t)
  <2>1. PICK u \in Tablet : Signalled(u)
    BY <1>5
  <2>2. /\ UNCHANGED <<listening, calls, epochs, interface, generation, timeouts>>
        /\ Grows(inbox', inbox)
        /\ \A j : New(j) => Signal(inbox'[j], u)
        /\ ProfileSaid(u) \/ Plugged(u) \/ Unplugged(u)
    BY <2>1 DEF Signalled, AppletIdle, modelVars
  <2> SUFFICES ASSUME interface, ~Reset', timeouts = 0, NEW t \in present'
               PROVE  Is(t)' \/ WillBe(t)' \/ Comes(t)'
    BY <1>3, <2>2
  <2>3. ~Reset
    BY <2>2 DEF Reset, Grows
  <2>4. \A i \in DOMAIN inbox' : (i \in DOMAIN inbox /\ inbox'[i] = inbox[i]) \/ New(i)
    BY <2>2 DEF New, Added, Grows
  <2>5. WillBe(t) => WillBe(t)'
    BY <2>2
  <2>6. CASE t \in present
    <3>1. \A j : New(j) => ~Removes(inbox'[j], t)
      <4>1. CASE ProfileSaid(u) \/ Plugged(u)
        BY <4>1 DEF ProfileSaid, Plugged, Removes
      <4>2. CASE Unplugged(u)
        <5>1. t # u
          BY <4>2 DEF Unplugged
        <5> QED BY <2>2, <5>1 DEF Signal, Removes
      <4> QED BY <2>2, <4>1, <4>2
    <3>2. Is(t) => Is(t)'
      BY <2>2, <2>4, <3>1 DEF Removes
    <3>3. Comes(t) => Comes(t)'
      <4> SUFFICES ASSUME Comes(t)
                   PROVE  Comes(t)'
        OBVIOUS
      <4>1. PICK i \in DOMAIN inbox :
                /\ Brings(inbox[i], t)
                /\ \A j \in DOMAIN inbox : i < j => ~Removes(inbox[j], t)
        OBVIOUS
      <4>2. i \in DOMAIN inbox' /\ inbox'[i] = inbox[i] /\ Brings(inbox'[i], t)
        BY <2>2, <4>1 DEF Grows
      <4>3. \A j \in DOMAIN inbox' : i < j => ~Removes(inbox'[j], t)
        BY <2>4, <3>1, <4>1
      <4> QED BY <2>2, <4>2, <4>3 DEF Brings, Removes
    <3> QED BY <1>1, <1>2, <2>3, <2>5, <2>6, <3>2, <3>3
  <2>7. CASE t \notin present
    <3>1. t = u /\ Plugged(t)
      BY <2>2, <2>7 DEF ProfileSaid, Plugged, Unplugged
    <3>2. (listening = generation /\ generation # 0) \/ WillBe(t)
      BY <1>1 DEF Listening
    <3>3. CASE listening = generation /\ generation # 0
      <4>1. PICK j : New(j) /\ inbox'[j].kind = "tabletAdded"
        BY <3>1, <3>3 DEF Plugged
      <4>2. j \in DOMAIN inbox' /\ Brings(inbox'[j], t)
        BY <2>2, <3>1, <3>3, <4>1 DEF Signal, Brings, New, Added
      <4>3. \A i \in DOMAIN inbox' : j < i => ~Removes(inbox'[i], t)
        <5> SUFFICES ASSUME NEW i \in DOMAIN inbox', j < i
                     PROVE  ~Removes(inbox'[i], t)
          OBVIOUS
        <5>1. CASE New(i)
          BY <3>1, <5>1 DEF Plugged, Removes
        <5>2. CASE i \in DOMAIN inbox
          <6>1. i < j /\ i \in Nat /\ j \in Nat
            BY <2>2, <4>1, <4>2, <5>2 DEF Grows, New, Added
          <6> QED BY <6>1
        <5> QED BY <2>4, <5>1, <5>2
      <4>4. Comes(t)'
        BY <2>2, <4>2, <4>3 DEF Brings, Removes
      <4> QED BY <4>4
    <3> QED BY <2>5, <3>2, <3>3
  <2> QED BY <2>6, <2>7
<1>6. CASE Matched \/ ProfileGot
  <2>1. UNCHANGED <<inbox, epochs, interface, generation, present, timeouts>>
    BY <1>6 DEF Matched, ProfileGot, BusIdle, serviceVars, modelVars, countVars
  <2>2. \A i \in DOMAIN calls : calls[i].kind = "getTabletList" =>
            \E j \in DOMAIN calls' : calls'[j] = calls[i]
    <3>1. CASE Matched
      BY <3>1 DEF Matched, TailOf, IsMatch
    <3>2. CASE ProfileGot
      BY <3>2 DEF ProfileGot
    <3> QED BY <1>6, <3>1, <3>2
  <2>3. \A t : WillBe(t) => WillBe(t)'
    BY <2>1, <2>2
  <2>4. \A t : (Is(t) => Is(t)') /\ (Comes(t) => Comes(t)')
    BY <2>1 DEF Removes, Brings
  <2> QED BY <1>1, <1>2, <1>3, <2>1, <2>3, <2>4 DEF Reset
<1>7. CASE Served
  <2>1. /\ UNCHANGED <<epochs, interface, generation, present, up>> /\ Grows(inbox', inbox)
        /\ TailOf(calls', calls) /\ timeouts' \in {timeouts, timeouts + 1}
    BY <1>7 DEF Served, modelVars
  <2> SUFFICES ASSUME interface, ~Reset', timeouts' = 0, NEW t \in present
               PROVE  Is(t)' \/ WillBe(t)' \/ Comes(t)'
    BY <1>3, <2>1
  <2>2. ~Reset /\ timeouts = 0
    BY <1>1, <2>1 DEF Reset, Grows
  <2>3. \A i \in DOMAIN inbox' : (i \in DOMAIN inbox /\ inbox'[i] = inbox[i]) \/ New(i)
    BY <2>1 DEF New, Added, Grows
  <2>4. \A j : New(j) => ~Removes(inbox'[j], t)
    BY <1>7 DEF Served, Removes, IsAnswer
  <2>5. Is(t) => Is(t)'
    BY <2>1, <2>3, <2>4 DEF Removes
  <2>6. ASSUME Comes(t)
        PROVE  Comes(t)'
    <3>1. PICK i \in DOMAIN inbox :
              /\ Brings(inbox[i], t)
              /\ \A j \in DOMAIN inbox : i < j => ~Removes(inbox[j], t)
      BY <2>6
    <3>2. i \in DOMAIN inbox' /\ inbox'[i] = inbox[i] /\ Brings(inbox'[i], t)
      BY <2>1, <3>1 DEF Grows
    <3>3. \A j \in DOMAIN inbox' : i < j => ~Removes(inbox'[j], t)
      BY <2>3, <2>4, <3>1
    <3> QED BY <2>1, <3>2, <3>3 DEF Brings, Removes
  <2>7. ASSUME WillBe(t)
        PROVE  WillBe(t)' \/ Comes(t)'
    <3>1. PICK i \in DOMAIN calls : Lists(calls[i])
      BY <2>7
    <3>2. CASE i # 1
      BY <2>1, <3>1, <3>2 DEF TailOf
    <3>3. CASE i = 1
      <4>1. PICK k : New(k) /\ IsAnswer(inbox'[k])
        BY <1>7 DEF Served
      <4>2. inbox'[k].call = calls[1]
        BY <1>7, <4>1 DEF Served, IsAnswer
      <4>3. up
        BY <1>1, <2>2 DEF Owned
      <4>4. inbox'[k].kind = "reply"
        BY <1>1, <1>7, <4>1, <4>3 DEF Served, IsAnswer
      <4>5. inbox'[k].value = present
        BY <1>7, <3>1, <3>3, <4>1, <4>4 DEF Served, Says
      <4>6. k \in DOMAIN inbox' /\ Brings(inbox'[k], t)
        BY <3>1, <3>3, <4>1, <4>2, <4>4, <4>5 DEF Brings, New, Added
      <4>7. \A j \in DOMAIN inbox' : k < j => ~Removes(inbox'[j], t)
        <5> SUFFICES ASSUME NEW j \in DOMAIN inbox', k < j
                     PROVE  ~Removes(inbox'[j], t)
          OBVIOUS
        <5>1. CASE j \in DOMAIN inbox
          <6>1. j < k /\ j \in Nat /\ k \in Nat
            BY <2>1, <4>1, <4>6, <5>1 DEF Grows, New, Added
          <6> QED BY <6>1
        <5> QED BY <2>3, <2>4, <5>1
      <4> QED BY <2>1, <4>6, <4>7 DEF Brings, Removes
    <3> QED BY <3>2, <3>3
  <2> QED BY <1>1, <1>2, <2>2, <2>5, <2>6, <2>7
<1>8. CASE Renewed
  <2>1. generation' = generation + 1
    BY <1>8, RenewedLifetime
  <2>2. interface' => \E j : NewCall(j) /\ calls'[j].kind = "getTabletList" /\ calls'[j].gen = generation'
    BY <1>8 DEF Renewed
  <2>3. interface' => \A t : WillBe(t)'
    BY <2>2 DEF NewCall, Added
  <2> QED BY <1>3, <2>3
<1>9. CASE Deliver /\ Passed
  <2>1. /\ UNCHANGED <<present, interface, generation, timeouts>> /\ TailOf(inbox', inbox)
        /\ 1 \in DOMAIN inbox /\ ~Owner(inbox[1]) /\ Grows(calls', calls)
    BY <1>9 DEF Passed, Received, serviceVars, countVars, TailOf
  <2> SUFFICES ASSUME interface, ~Reset', timeouts = 0, NEW t \in present
               PROVE  Is(t)' \/ WillBe(t)' \/ Comes(t)'
    BY <1>3, <2>1
  <2>2. ~Reset
    BY <2>1 DEF Reset, TailOf
  <2>3. t \in Tablet /\ Told(t)
    BY <1>1, <1>9, DeliverTold
  <2>4. \A i \in DOMAIN inbox' : i \in Nat /\ i + 1 \in DOMAIN inbox /\ inbox'[i] = inbox[i + 1]
    BY <2>1 DEF TailOf
  <2>5. ~(inbox[1].kind = "error" /\ Asks(inbox[1].call) /\ ThisEpoch(inbox[1].call))
    <3> SUFFICES ASSUME inbox[1].kind = "error", Asks(inbox[1].call), ThisEpoch(inbox[1].call)
                 PROVE  FALSE
      OBVIOUS
    <3>1. Mentions(inbox[1].call)
      BY DEF Asks, ThisEpoch, ThisGeneration, Mentions
    <3>2. \A j \in 1..(1 - 1) : ~Owner(inbox[j])
      OBVIOUS
    <3>3. timeouts > 0
      BY <1>1, <2>1, <3>1, <3>2 DEF ErrorsAreOld
    <3> QED BY <3>3
  <2>6. ASSUME Is(t)
        PROVE  Is(t)'
    <3>1. epochs'[t] = epochs[t]
      BY <1>1, <2>1, <2>3, <2>5, <2>6 DEF Told
    <3>2. \A i \in DOMAIN inbox' : ~Removes(inbox'[i], t)
      BY <2>4, <2>6
    <3> QED BY <2>1, <2>6, <3>1, <3>2 DEF Removes
  <2>7. WillBe(t) => WillBe(t)'
    BY <2>1 DEF Grows
  <2>8. ASSUME Comes(t)
        PROVE  Is(t)' \/ Comes(t)'
    <3>1. PICK i \in DOMAIN inbox :
              /\ Brings(inbox[i], t)
              /\ \A j \in DOMAIN inbox : i < j => ~Removes(inbox[j], t)
      BY <2>8
    <3>2. i \in Nat /\ i >= 1
      BY <2>1 DEF TailOf
    <3>3. \A k \in DOMAIN inbox' : i < k + 1 => ~Removes(inbox'[k], t)
      BY <2>4, <3>1
    <3>4. CASE i = 1
      <4>1. epochs'[t] > 0
        BY <2>3, <3>1, <3>4 DEF Told
      <4>2. \A k \in DOMAIN inbox' : 1 < k + 1
        BY <2>1, <2>4 DEF TailOf
      <4> QED BY <2>1, <3>3, <3>4, <4>1, <4>2 DEF Removes
    <3>5. CASE i # 1
      <4>1. i - 1 \in DOMAIN inbox' /\ inbox'[i - 1] = inbox[i]
        BY <2>1, <3>5 DEF TailOf
      <4>2. \A k \in DOMAIN inbox' : i - 1 < k => ~Removes(inbox'[k], t)
        BY <2>4, <3>2, <3>3
      <4> QED BY <2>1, <3>1, <4>1, <4>2 DEF Brings, Removes
    <3> QED BY <3>4, <3>5
  <2> QED BY <1>1, <1>2, <2>2, <2>6, <2>7, <2>8
<1>10. CASE Ordered
  <2>1. UNCHANGED <<inbox, epochs, interface, generation, present, timeouts>> /\ Grows(calls', calls)
    BY <1>10 DEF Ordered, serviceVars, modelVars
  <2>2. \A t : WillBe(t) => WillBe(t)'
    BY <2>1 DEF Grows
  <2>3. \A t : (Is(t) => Is(t)') /\ (Comes(t) => Comes(t)')
    BY <2>1 DEF Removes, Brings
  <2> QED BY <1>1, <1>2, <1>3, <2>1, <2>2, <2>3 DEF Reset
<1> QED BY <1>4, <1>5, <1>6, <1>7, <1>8, <1>9, <1>10, Steps

\* The tablets shown, when rows come, go or change.
LEMMA InsertedShown ==
    ASSUME NEW row, Inserted(row)
    PROVE  Shown' = Shown \cup {row.id}
<1>1. \A i \in DOMAIN rows : i \in DOMAIN rows' /\ rows'[i] = rows[i]
  BY DEF Inserted, GrowsByOne, Grows
<1>2. \A j \in DOMAIN rows' : j \in DOMAIN rows \/ rows'[j] = row
  BY DEF Inserted, GrowsByOne, Added
<1>3. \E j \in DOMAIN rows' : rows'[j] = row
  BY DEF Inserted, GrowsByOne, Added
<1> QED BY <1>1, <1>2, <1>3 DEF Shown

LEMMA DroppedShown ==
    ASSUME NEW t, Dropped(t)
    PROVE  Shown' = Shown \ {t}
BY DEF Dropped, Shown

LEMMA ChangedShown ==
    ASSUME NEW k, NEW row, RowChanged(k, row)
    PROVE  Shown' = Shown
BY DEF RowChanged, Shown

LEMMA ShownAlive ==
    ASSUME IInv, NEW t \in Shown
    PROVE  t \in Tablet /\ interface /\ epochs[t] > 0
<1>1. PICK i \in DOMAIN rows : rows[i].id = t
  BY DEF Shown
<1>2. rows[i] \in Row
  BY <1>1, Basics
<1> QED BY <1>1, <1>2 DEF IInv, RowsAreAlive, Row

\* What is asked when a message is delivered belongs to a discovery that begins, or goes
\* on with the answer; a tablet that is shown from now on is that of the answer.
Inquires ==
    /\ \A j : NewCall(j) =>
           /\ calls'[j].tablet \notin Shown'
           /\ \/ calls'[j].epoch > nextEpoch
              \/ /\ IsAnswer(inbox[1]) /\ Asks(inbox[1].call)
                 /\ calls'[j].epoch = inbox[1].call.epoch
    /\ \A i, j : NewCall(i) /\ NewCall(j) /\ calls'[i].epoch = calls'[j].epoch => i = j
    /\ \A t \in Shown' :
           \/ epochs'[t] = 0
           \/ t \in Shown /\ epochs'[t] = epochs[t]
           \/ /\ epochs'[t] = epochs[t] /\ IsAnswer(inbox[1]) /\ Asks(inbox[1].call)
              /\ inbox[1].call.epoch = epochs[t]

LEMMA DiscoveredInquires ==
    ASSUME IInv, NEW ids, Discovered(ids), UNCHANGED rows
    PROVE  Inquires
<1>1. Shown' = Shown
  BY DEF Shown
<1>2. \A t \in Shown : t \in Tablet /\ epochs[t] > 0 /\ epochs[t] # 0
  BY ShownAlive
<1> QED BY <1>1, <1>2 DEF Discovered, Inquires

LEMMA SilentInquires ==
    ASSUME Typed, UNCHANGED calls,
           \A t \in Shown' : t \in Shown /\ (epochs'[t] = 0 \/ epochs'[t] = epochs[t])
    PROVE  Inquires
<1>1. ~\E j : NewCall(j)
  BY DEF NewCall, Added
<1> QED BY <1>1 DEF Inquires

LEMMA DeliverInquires ==
    ASSUME IInv, Deliver, Passed
    PROVE  Inquires
<1>1. /\ Typed /\ Numbered /\ Known /\ RowsAreAlive /\ SourcesAreRows /\ OrdersAreWatched
      /\ epochs \in [Tablet -> 0..nextEpoch]
  BY Basics DEF IInv
<1>2. CASE OnOwnerChanged
  BY <1>1, <1>2, OwnerChangedEffect DEF Passed
<1>3. CASE OnNameHasOwner
  <2>1. UNCHANGED <<epochs, rows, calls>>
    BY <1>1, <1>3, NameHasOwnerEffect DEF Passed, Registers, modelVars
  <2> QED BY <1>1, <2>1, SilentInquires DEF Shown
<1>4. CASE OnTabletList
  <2>1. /\ UNCHANGED rows
        /\ Discovered(inbox[1].value) \/ UNCHANGED <<epochs, calls>>
    BY <1>1, <1>4, TabletListEffect DEF DiscoverIdle
  <2> QED BY <1>1, <2>1, SilentInquires, DiscoveredInquires DEF Shown
<1>5. CASE OnTabletAdded
  <2>1. /\ UNCHANGED rows
        /\ Discovered({inbox[1].tablet}) \/ UNCHANGED <<epochs, calls>>
    BY <1>1, <1>5, TabletAddedEffect DEF DiscoverIdle
  <2> QED BY <1>1, <2>1, SilentInquires, DiscoveredInquires DEF Shown
<1>6. CASE OnIsTouchSensor
  <2>1. /\ UNCHANGED <<epochs, rows>>
        /\ inbox[1].kind = "reply" /\ inbox[1].call.kind = "isTouchSensor"
        /\ \A j : NewCall(j) =>
               /\ inbox[1].call.tablet \notin Shown
               /\ calls'[j].tablet = inbox[1].call.tablet
               /\ calls'[j].epoch = inbox[1].call.epoch
        /\ \A i, j : NewCall(i) /\ NewCall(j) => i = j
    BY <1>1, <1>6, IsTouchSensorEffect DEF modelVars
  <2>2. Shown' = Shown
    BY <2>1 DEF Shown
  <2> QED BY <2>1, <2>2 DEF Inquires, IsAnswer, Asks
<1>7. CASE OnTabletData
  <2>1. /\ UNCHANGED <<epochs, calls>>
        /\ inbox[1].kind = "reply" /\ inbox[1].call.kind = "getProperty"
        /\ \/ /\ ThisEpoch(inbox[1].call)
              /\ \E row \in Row : Inserted(row) /\ row.id = inbox[1].call.tablet
           \/ UNCHANGED rows
    BY <1>1, <1>7, TabletDataEffect
  <2>2. CASE UNCHANGED rows
    BY <1>1, <2>1, <2>2, SilentInquires DEF Shown
  <2>3. CASE ThisEpoch(inbox[1].call) /\ Shown' = Shown \cup {inbox[1].call.tablet}
    <3>1. ~\E j : NewCall(j)
      BY <2>1 DEF NewCall, Added
    <3> QED BY <2>1, <2>3, <3>1 DEF Inquires, IsAnswer, Asks, ThisEpoch
  <2> QED BY <2>1, <2>2, <2>3, InsertedShown
<1>8. CASE OnError
  <2>1. /\ UNCHANGED <<rows, calls>>
        /\ \/ epochs' = [epochs EXCEPT ![inbox[1].call.tablet] = 0]
           \/ epochs' = epochs
    BY <1>1, <1>8, OnErrorEffect
  <2>2. \A t \in Shown : t \in Tablet
    BY ShownAlive
  <2> QED BY <1>1, <2>1, <2>2, SilentInquires DEF Shown
<1>9. CASE OnTabletRemoved
  <2>1. /\ UNCHANGED calls
        /\ \/ Dropped(inbox[1].tablet) /\ epochs' = [epochs EXCEPT ![inbox[1].tablet] = 0]
           \/ UNCHANGED <<epochs, rows>>
    BY <1>1, <1>9, TabletRemovedEffect
  <2>2. \A t \in Shown : t \in Tablet
    BY ShownAlive
  <2>3. \A t \in Shown' : t \in Shown /\ (epochs'[t] = 0 \/ epochs'[t] = epochs[t])
    <3>1. CASE Dropped(inbox[1].tablet) /\ epochs' = [epochs EXCEPT ![inbox[1].tablet] = 0]
      BY <1>1, <2>2, <3>1, DroppedShown
    <3>2. CASE UNCHANGED <<epochs, rows>>
      BY <3>2 DEF Shown
    <3> QED BY <2>1, <3>1, <3>2
  <2> QED BY <1>1, <2>1, <2>3, SilentInquires
<1>10. CASE OnProfileChanged
  <2>1. /\ UNCHANGED <<epochs, calls>>
        /\ (\E k, row : RowChanged(k, row)) \/ UNCHANGED rows
    BY <1>1, <1>10, ProfileChangedEffect
  <2>2. Shown' = Shown
    BY <2>1, ChangedShown DEF Shown
  <2> QED BY <1>1, <2>1, <2>2, SilentInquires
<1>11. CASE OnOperationReply
  <2>1. /\ UNCHANGED <<epochs, calls>>
        /\ (\E k, row : RowChanged(k, row)) \/ UNCHANGED rows
    BY <1>1, <1>11, OperationReplyEffect
  <2>2. Shown' = Shown
    BY <2>1, ChangedShown DEF Shown
  <2> QED BY <1>1, <2>1, <2>2, SilentInquires
<1> QED BY <1>2, <1>3, <1>4, <1>5, <1>6, <1>7, <1>8, <1>9, <1>10, <1>11 DEF Deliver

LEMMA AskedOnceKept ==
    ASSUME IInv, Next
    PROVE  AskedOnce'
<1>1. /\ AskedOnce /\ Numbered /\ nextEpoch \in Nat /\ calls \in Seq(Call)
  BY Basics DEF IInv
<1>2. /\ \A i \in DOMAIN calls : Asks(calls[i]) => calls[i].epoch \in 1..nextEpoch
      /\ \A i \in DOMAIN inbox : IsAnswer(inbox[i]) /\ Asks(inbox[i].call) =>
             inbox[i].call.epoch \in 1..nextEpoch
  BY <1>1 DEF Numbered, NumbersOf
<1>3. CASE Announced \/ \E t \in Tablet : Signalled(t)
  <2>1. /\ UNCHANGED <<calls, epochs, rows>> /\ Grows(inbox', inbox)
        /\ \A j : New(j) => ~IsAnswer(inbox'[j])
    BY <1>3 DEF Announced, Signalled, AppletIdle, modelVars, Owner, Signal, IsSignal, IsAnswer
  <2>2. \A i \in DOMAIN inbox' : IsAnswer(inbox'[i]) => i \in DOMAIN inbox /\ inbox'[i] = inbox[i]
    BY <2>1 DEF New, Added, Grows
  <2> QED BY <1>1, <2>1, <2>2 DEF AskedOnce, Shown
<1>4. CASE Matched
  <2>1. UNCHANGED <<inbox, epochs, rows>> /\ TailOf(calls', calls)
    BY <1>4 DEF Matched, BusIdle, modelVars
  <2>2. \A i \in DOMAIN calls' : i \in Nat /\ i + 1 \in DOMAIN calls /\ calls'[i] = calls[i + 1]
    BY <2>1 DEF TailOf
  <2> QED BY <1>1, <2>1, <2>2 DEF AskedOnce, Shown
<1>5. CASE ProfileGot
  <2>1. /\ UNCHANGED <<inbox, epochs, rows>> /\ DOMAIN calls' = DOMAIN calls
        /\ \A i \in DOMAIN calls :
               /\ Asks(calls'[i]) <=> Asks(calls[i])
               /\ Asks(calls[i]) => /\ calls'[i].epoch = calls[i].epoch
                                    /\ calls'[i].tablet = calls[i].tablet
    BY <1>5 DEF ProfileGot, BusIdle, modelVars, Asks
  <2> QED BY <1>1, <2>1 DEF AskedOnce, Shown
<1>6. CASE Served
  <2>1. /\ UNCHANGED <<epochs, rows>> /\ TailOf(calls', calls) /\ Grows(inbox', inbox)
        /\ 1 \in DOMAIN calls
        /\ \A j : New(j) /\ IsAnswer(inbox'[j]) => inbox'[j].call = calls[1]
        /\ \A i, j : New(i) /\ New(j) /\ IsAnswer(inbox'[i]) /\ IsAnswer(inbox'[j]) => i = j
    BY <1>6 DEF Served, modelVars, Signal, IsSignal, IsAnswer, TailOf
  <2>2. \A i \in DOMAIN calls' : /\ i \in Nat /\ i + 1 \in DOMAIN calls /\ calls'[i] = calls[i + 1]
                                 /\ i + 1 # 1
    BY <2>1 DEF TailOf
  <2>3. \A i \in DOMAIN inbox' : (i \in DOMAIN inbox /\ inbox'[i] = inbox[i]) \/ New(i)
    BY <2>1 DEF New, Added, Grows
  <2>4. \A i, j \in DOMAIN calls' :
            Asks(calls'[i]) /\ Asks(calls'[j]) /\ calls'[i].epoch = calls'[j].epoch => i = j
    BY <1>1, <2>2 DEF AskedOnce
  <2>5. \A i, j \in DOMAIN inbox' :
            /\ IsAnswer(inbox'[i]) /\ Asks(inbox'[i].call)
            /\ IsAnswer(inbox'[j]) /\ Asks(inbox'[j].call)
            /\ inbox'[i].call.epoch = inbox'[j].call.epoch
            => i = j
    BY <1>1, <2>1, <2>3 DEF AskedOnce
  <2>6. \A i \in DOMAIN inbox', j \in DOMAIN calls' :
            IsAnswer(inbox'[i]) /\ Asks(inbox'[i].call) /\ Asks(calls'[j]) =>
                inbox'[i].call.epoch # calls'[j].epoch
    BY <1>1, <2>1, <2>2, <2>3 DEF AskedOnce
  <2>7. \A i \in DOMAIN calls' : Asks(calls'[i]) =>
            ~(calls'[i].tablet \in Shown /\ calls'[i].epoch = epochs[calls'[i].tablet])
    BY <1>1, <2>2 DEF AskedOnce
  <2>8. \A i \in DOMAIN inbox' : IsAnswer(inbox'[i]) /\ Asks(inbox'[i].call) =>
            ~(inbox'[i].call.tablet \in Shown
              /\ inbox'[i].call.epoch = epochs[inbox'[i].call.tablet])
    BY <1>1, <2>1, <2>3 DEF AskedOnce
  <2>9. Shown' = Shown
    BY <2>1 DEF Shown
  <2> QED BY <2>1, <2>4, <2>5, <2>6, <2>7, <2>8, <2>9 DEF AskedOnce
<1>7. CASE Renewed
  <2>1. /\ rows' = <<>> /\ TailOf(inbox', inbox) /\ Grows(calls', calls)
        /\ \A j : NewCall(j) => ~Asks(calls'[j])
    BY <1>7, RenewedLifetime DEF Renewed, Received
  <2>2. \A i \in DOMAIN inbox' : i \in Nat /\ i + 1 \in DOMAIN inbox /\ inbox'[i] = inbox[i + 1]
    BY <2>1 DEF TailOf
  <2>3. \A i \in DOMAIN calls' : Asks(calls'[i]) => i \in DOMAIN calls /\ calls'[i] = calls[i]
    BY <2>1 DEF Grows, NewCall, Added
  <2>4. Shown' = {}
    BY <2>1 DEF Shown
  <2> QED BY <1>1, <2>2, <2>3, <2>4 DEF AskedOnce
<1>8. CASE Deliver /\ Passed
  <2>1. /\ TailOf(inbox', inbox) /\ 1 \in DOMAIN inbox /\ Grows(calls', calls) /\ Inquires
    BY <1>8, DeliverInquires DEF Passed, Received, TailOf
  <2>2. \A i \in DOMAIN inbox' : /\ i \in Nat /\ i + 1 \in DOMAIN inbox /\ inbox'[i] = inbox[i + 1]
                                 /\ i + 1 # 1
    BY <2>1 DEF TailOf
  <2>3. \A i \in DOMAIN calls' : (i \in DOMAIN calls /\ calls'[i] = calls[i]) \/ NewCall(i)
    BY <2>1 DEF Grows, NewCall, Added
  <2>4. ASSUME NEW i \in DOMAIN calls', NEW j \in DOMAIN calls', Asks(calls'[i]), Asks(calls'[j]),
               calls'[i].epoch = calls'[j].epoch
        PROVE  i = j
    <3>1. ASSUME NEW k \in DOMAIN calls, NEW l, NewCall(l), Asks(calls[k]),
                 calls[k].epoch = calls'[l].epoch
          PROVE  FALSE
      BY <1>1, <1>2, <2>1, <3>1 DEF AskedOnce, Inquires
    <3> QED BY <1>1, <2>1, <2>3, <2>4, <3>1 DEF AskedOnce, Inquires
  <2>5. \A i, j \in DOMAIN inbox' :
            /\ IsAnswer(inbox'[i]) /\ Asks(inbox'[i].call)
            /\ IsAnswer(inbox'[j]) /\ Asks(inbox'[j].call)
            /\ inbox'[i].call.epoch = inbox'[j].call.epoch
            => i = j
    BY <1>1, <2>2 DEF AskedOnce
  <2>6. ASSUME NEW i \in DOMAIN inbox', NEW j \in DOMAIN calls', IsAnswer(inbox'[i]),
               Asks(inbox'[i].call), Asks(calls'[j])
        PROVE  inbox'[i].call.epoch # calls'[j].epoch
    <3>1. CASE j \in DOMAIN calls /\ calls'[j] = calls[j]
      BY <1>1, <2>2, <2>6, <3>1 DEF AskedOnce
    <3>2. CASE NewCall(j) /\ calls'[j].epoch > nextEpoch
      BY <1>1, <1>2, <2>2, <2>6, <3>2
    <3>3. CASE /\ IsAnswer(inbox[1]) /\ Asks(inbox[1].call)
               /\ calls'[j].epoch = inbox[1].call.epoch
      BY <1>1, <2>1, <2>2, <2>6, <3>3 DEF AskedOnce
    <3> QED BY <2>1, <2>3, <3>1, <3>2, <3>3 DEF Inquires
  <2>7. ASSUME NEW i \in DOMAIN calls', Asks(calls'[i]), calls'[i].tablet \in Shown',
               calls'[i].epoch = epochs'[calls'[i].tablet]
        PROVE  FALSE
    <3>1. i \in DOMAIN calls /\ calls'[i] = calls[i]
      BY <2>1, <2>3, <2>7 DEF Inquires
    <3>2. calls[i].epoch \in 1..nextEpoch
      BY <1>2, <2>7, <3>1
    <3> QED BY <1>1, <2>1, <2>7, <3>1, <3>2 DEF Inquires, AskedOnce
  <2>8. ASSUME NEW i \in DOMAIN inbox', IsAnswer(inbox'[i]), Asks(inbox'[i].call),
               inbox'[i].call.tablet \in Shown',
               inbox'[i].call.epoch = epochs'[inbox'[i].call.tablet]
        PROVE  FALSE
    <3>1. i + 1 \in DOMAIN inbox /\ inbox'[i] = inbox[i + 1] /\ i + 1 # 1
      BY <2>2
    <3>2. inbox[i + 1].call.epoch \in 1..nextEpoch
      BY <1>2, <2>8, <3>1
    <3> QED BY <1>1, <2>1, <2>8, <3>1, <3>2 DEF Inquires, AskedOnce
  <2> QED BY <2>4, <2>5, <2>6, <2>7, <2>8 DEF AskedOnce
<1>9. CASE Ordered
  <2>1. /\ UNCHANGED <<inbox, epochs, rows>> /\ Grows(calls', calls)
        /\ \A j : NewCall(j) => ~Asks(calls'[j])
    BY <1>9 DEF Ordered, modelVars, IsOrder, Asks
  <2>2. \A i \in DOMAIN calls' : Asks(calls'[i]) => i \in DOMAIN calls /\ calls'[i] = calls[i]
    BY <2>1 DEF Grows, NewCall, Added
  <2> QED BY <1>1, <2>1, <2>2 DEF AskedOnce, Shown
<1> QED BY <1>3, <1>4, <1>5, <1>6, <1>7, <1>8, <1>9, Steps

\* Which tablets are shown from now on, or no longer.
Showing ==
    /\ \A t \in Shown : t \in Shown' \/ (Removes(inbox[1], t) /\ epochs'[t] = 0)
    /\ \A t \in Shown' :
           \/ t \in Shown
           \/ /\ inbox[1].kind = "reply" /\ inbox[1].call.kind = "getProperty"
              /\ inbox[1].call.tablet = t /\ ThisEpoch(inbox[1].call)

\* With the answer to a question the discovery goes on, or ends.
GoesOn ==
    IsAnswer(inbox[1]) /\ Asks(inbox[1].call) /\ ThisEpoch(inbox[1].call) =>
        \/ epochs'[inbox[1].call.tablet] = 0
        \/ inbox[1].call.tablet \in Shown'
        \/ inbox[1].kind = "reply" /\ inbox[1].call.kind = "isTouchSensor" /\ inbox[1].value
        \/ \E j : /\ NewCall(j) /\ Asks(calls'[j]) /\ calls'[j].tablet = inbox[1].call.tablet
                  /\ calls'[j].gen = generation /\ calls'[j].epoch = inbox[1].call.epoch

LEMMA DeliverShowing ==
    ASSUME IInv, Deliver, Passed
    PROVE  Showing /\ GoesOn
<1>1. /\ Typed /\ Numbered /\ Known /\ RowsAreAlive /\ SourcesAreRows /\ OrdersAreWatched
      /\ epochs \in [Tablet -> 0..nextEpoch]
  BY Basics DEF IInv
<1>2. UNCHANGED rows => Showing
  BY DEF Showing, Shown
<1>3. inbox[1].kind \in {"reply", "error"} /\ ~Asks(inbox[1].call) => GoesOn
  BY DEF GoesOn
<1>4. inbox[1].kind \notin {"reply", "error"} => GoesOn
  BY DEF GoesOn, IsAnswer
<1>5. CASE OnOwnerChanged
  BY <1>1, <1>5, OwnerChangedEffect DEF Passed
<1>6. CASE OnNameHasOwner
  <2>1. UNCHANGED rows /\ inbox[1].kind = "reply" /\ ~Asks(inbox[1].call)
    BY <1>1, <1>6, NameHasOwnerEffect DEF Passed, Registers, modelVars, Asks
  <2> QED BY <1>2, <1>3, <2>1
<1>7. CASE OnTabletList
  <2>1. UNCHANGED rows /\ inbox[1].kind = "reply" /\ ~Asks(inbox[1].call)
    BY <1>1, <1>7, TabletListEffect DEF DiscoverIdle, Asks
  <2> QED BY <1>2, <1>3, <2>1
<1>8. CASE OnTabletAdded
  <2>1. UNCHANGED rows /\ inbox[1].kind = "tabletAdded"
    BY <1>1, <1>8, TabletAddedEffect DEF DiscoverIdle
  <2> QED BY <1>2, <1>4, <2>1
<1>9. CASE OnIsTouchSensor
  <2>1. /\ UNCHANGED <<generation, rows>> /\ inbox[1].kind = "reply"
        /\ inbox[1].call.kind = "isTouchSensor"
        /\ \A j : NewCall(j) =>
               /\ calls'[j].kind = "getProfile" /\ calls'[j].tablet = inbox[1].call.tablet
               /\ calls'[j].gen = inbox[1].call.gen /\ calls'[j].epoch = inbox[1].call.epoch
        /\ ThisEpoch(inbox[1].call) /\ ~inbox[1].value /\ inbox[1].call.tablet \notin Shown =>
               \E j : NewCall(j)
    BY <1>1, <1>9, IsTouchSensorEffect DEF modelVars
  <2>2. Shown' = Shown
    BY <2>1 DEF Shown
  <2>3. GoesOn
    BY <2>1, <2>2 DEF GoesOn, Asks, ThisEpoch, ThisGeneration
  <2> QED BY <1>2, <2>1, <2>3
<1>10. CASE OnTabletData
  <2>1. inbox[1].kind = "reply" /\ inbox[1].call.kind = "getProperty"
    BY <1>1, <1>10, TabletDataEffect
  <2>2. CASE ThisEpoch(inbox[1].call) /\ inbox[1].call.tablet \notin Shown
    <3>1. Shown' = Shown \cup {inbox[1].call.tablet}
      BY <1>1, <1>10, <2>2, TabletDataEffect, InsertedShown
    <3> QED BY <2>1, <2>2, <3>1 DEF Showing, GoesOn
  <2>3. CASE ~(ThisEpoch(inbox[1].call) /\ inbox[1].call.tablet \notin Shown)
    <3>1. UNCHANGED rows
      BY <1>1, <1>10, <2>3, TabletDataEffect
    <3>2. Shown' = Shown
      BY <3>1 DEF Shown
    <3> QED BY <1>2, <2>3, <3>1, <3>2 DEF GoesOn
  <2> QED BY <2>2, <2>3
<1>11. CASE OnError
  <2>1. /\ UNCHANGED rows /\ inbox[1].kind = "error" /\ inbox[1] \in Message
        /\ Asks(inbox[1].call) /\ ThisEpoch(inbox[1].call) =>
               epochs' = [epochs EXCEPT ![inbox[1].call.tablet] = 0]
    BY <1>1, <1>11, OnErrorEffect DEF Received
  <2>2. Asks(inbox[1].call) => inbox[1].call.tablet \in Tablet
    BY <2>1, MessageFields, CallFields DEF IsAnswer
  <2> QED BY <1>1, <1>2, <2>1, <2>2 DEF GoesOn
<1>12. CASE OnTabletRemoved
  <2>1. /\ inbox[1].kind = "tabletRemoved" /\ inbox[1].tablet \in Tablet
        /\ \/ /\ Dropped(inbox[1].tablet) /\ epochs' = [epochs EXCEPT ![inbox[1].tablet] = 0]
              /\ inbox[1].gen = generation
           \/ UNCHANGED <<epochs, rows>>
    BY <1>1, <1>12, TabletRemovedEffect
  <2>2. CASE UNCHANGED rows
    BY <1>2, <1>4, <2>1, <2>2
  <2>3. CASE /\ Dropped(inbox[1].tablet) /\ epochs' = [epochs EXCEPT ![inbox[1].tablet] = 0]
             /\ inbox[1].gen = generation
    <3>1. Shown' = Shown \ {inbox[1].tablet} /\ epochs'[inbox[1].tablet] = 0
      BY <1>1, <2>1, <2>3, DroppedShown
    <3> QED BY <1>4, <2>1, <2>3, <3>1 DEF Showing, Removes
  <2> QED BY <2>1, <2>2, <2>3
<1>13. CASE OnProfileChanged
  <2>1. /\ inbox[1].kind = "profileChanged"
        /\ (\E k, row : RowChanged(k, row)) \/ UNCHANGED rows
    BY <1>1, <1>13, ProfileChangedEffect
  <2>2. Shown' = Shown
    BY <2>1, ChangedShown DEF Shown
  <2> QED BY <1>4, <2>1, <2>2 DEF Showing
<1>14. CASE OnOperationReply
  <2>1. /\ IsAnswer(inbox[1]) /\ IsOrder(inbox[1].call)
        /\ (\E k, row : RowChanged(k, row)) \/ UNCHANGED rows
    BY <1>1, <1>14, OperationReplyEffect
  <2>2. Shown' = Shown
    BY <2>1, ChangedShown DEF Shown
  <2> QED BY <2>1, <2>2 DEF Showing, GoesOn, IsOrder, Asks
<1> QED BY <1>5, <1>6, <1>7, <1>8, <1>9, <1>10, <1>11, <1>12, <1>13, <1>14 DEF Deliver

LEMMA DiscoveryGoesOnKept ==
    ASSUME IInv, Next
    PROVE  DiscoveryGoesOn'
<1>1. /\ DiscoveryGoesOn /\ Dormant /\ interface \in BOOLEAN /\ epochs \in [Tablet -> 0..nextEpoch]
      /\ generation \in Nat /\ listening \in 0..generation /\ nextEpoch \in Nat
  BY Basics DEF IInv
<1> DEFINE Tells(m) == m.kind = "reply" /\ m.call.kind = "isTouchSensor" /\ m.value
           IsAsked(t) == \E i \in DOMAIN calls :
                             Asks(calls[i]) /\ calls[i].tablet = t /\ ThisEpoch(calls[i])
           IsAnswered(t) == \E i \in DOMAIN inbox :
                                IsAnswer(inbox[i]) /\ Asks(inbox[i].call) /\ inbox[i].call.tablet = t
                                /\ ThisEpoch(inbox[i].call)
<1>2. CASE Announced \/ \E t \in Tablet : Signalled(t)
  <2>1. /\ UNCHANGED <<calls, epochs, rows, generation>> /\ Grows(inbox', inbox)
        /\ \A j : New(j) => ~IsAnswer(inbox'[j])
    BY <1>2 DEF Announced, Signalled, AppletIdle, modelVars, Owner, Signal, IsSignal, IsAnswer
  <2>2. \A i \in DOMAIN inbox' : IsAnswer(inbox'[i]) => i \in DOMAIN inbox /\ inbox'[i] = inbox[i]
    BY <2>1 DEF New, Added, Grows
  <2>3. \A t : (IsAsked(t) => IsAsked(t)') /\ (IsAnswered(t) => IsAnswered(t)')
    BY <2>1 DEF ThisEpoch, ThisGeneration, Grows
  <2>4. \A i \in DOMAIN inbox' : Tells(inbox'[i]) => inbox'[i].call.tablet \in Sensor
    BY <1>1, <2>2 DEF DiscoveryGoesOn, IsAnswer
  <2>6. ASSUME NEW t \in Tablet \ Sensor, epochs'[t] > 0
        PROVE  t \in Shown' \/ IsAsked(t)' \/ IsAnswered(t)'
    <3>1. t \in Shown \/ IsAsked(t) \/ IsAnswered(t)
      BY <1>1, <2>1, <2>6 DEF DiscoveryGoesOn
    <3>2. Shown' = Shown
      BY <2>1 DEF Shown
    <3> QED BY <3>1, <3>2, <2>3
  <2> QED BY <2>4, <2>6 DEF DiscoveryGoesOn
<1>3. CASE Matched \/ ProfileGot
  <2>1. UNCHANGED <<inbox, epochs, rows, generation>>
    BY <1>3 DEF Matched, ProfileGot, BusIdle, modelVars
  <2>2. \A i \in DOMAIN calls : Asks(calls[i]) =>
            \E j \in DOMAIN calls' :
                /\ Asks(calls'[j]) /\ calls'[j].tablet = calls[i].tablet
                /\ calls'[j].gen = calls[i].gen /\ calls'[j].epoch = calls[i].epoch
    <3>1. CASE Matched
      BY <3>1 DEF Matched, TailOf, IsMatch, Asks
    <3>2. CASE ProfileGot
      BY <3>2 DEF ProfileGot, Asks
    <3> QED BY <1>3, <3>1, <3>2
  <2>3. \A t : IsAsked(t) => IsAsked(t)'
    BY <2>1, <2>2 DEF ThisEpoch, ThisGeneration
  <2>4. \A t : IsAnswered(t) => IsAnswered(t)'
    BY <2>1 DEF ThisEpoch, ThisGeneration
  <2>5. \A i \in DOMAIN inbox' : Tells(inbox'[i]) => inbox'[i].call.tablet \in Sensor
    BY <1>1, <2>1 DEF DiscoveryGoesOn
  <2>6. ASSUME NEW t \in Tablet \ Sensor, epochs'[t] > 0
        PROVE  t \in Shown' \/ IsAsked(t)' \/ IsAnswered(t)'
    <3>1. t \in Shown \/ IsAsked(t) \/ IsAnswered(t)
      BY <1>1, <2>1, <2>6 DEF DiscoveryGoesOn
    <3>2. Shown' = Shown
      BY <2>1 DEF Shown
    <3> QED BY <3>1, <3>2, <2>3, <2>4
  <2> QED BY <2>5, <2>6 DEF DiscoveryGoesOn
<1>4. CASE Served
  <2>1. /\ UNCHANGED <<epochs, rows, generation>> /\ TailOf(calls', calls) /\ Grows(inbox', inbox)
    BY <1>4 DEF Served, modelVars
  <2>2. \A i \in DOMAIN inbox' : (i \in DOMAIN inbox /\ inbox'[i] = inbox[i]) \/ New(i)
    BY <2>1 DEF New, Added, Grows
  <2>3. \A j : New(j) /\ IsAnswer(inbox'[j]) => inbox'[j].call = calls[1]
    BY <1>4 DEF Served, Signal, IsSignal, IsAnswer
  <2>4. ASSUME NEW j, New(j), Tells(inbox'[j])
        PROVE  inbox'[j].call.tablet \in Sensor
    <3>1. inbox'[j].call = calls[1] /\ Says(calls[1], inbox'[j].value)
      BY <1>4, <2>3, <2>4 DEF Served, IsAnswer
    <3> QED BY <2>4, <3>1 DEF Says
  <2>5. \A t : IsAnswered(t) => IsAnswered(t)'
    BY <2>1 DEF ThisEpoch, ThisGeneration, Grows
  <2>6. \A t : IsAsked(t) => IsAsked(t)' \/ IsAnswered(t)'
    <3> SUFFICES ASSUME NEW t, IsAsked(t)
                 PROVE  IsAsked(t)' \/ IsAnswered(t)'
      OBVIOUS
    <3>1. PICK i \in DOMAIN calls :
              Asks(calls[i]) /\ calls[i].tablet = t /\ ThisEpoch(calls[i])
      OBVIOUS
    <3>2. CASE i # 1
      <4>1. i - 1 \in DOMAIN calls' /\ calls'[i - 1] = calls[i]
        BY <2>1, <3>2 DEF TailOf
      <4> QED BY <2>1, <3>1, <4>1 DEF ThisEpoch, ThisGeneration
    <3>3. CASE i = 1
      <4>1. PICK k : New(k) /\ IsAnswer(inbox'[k])
        BY <1>4 DEF Served
      <4>2. k \in DOMAIN inbox' /\ inbox'[k].call = calls[1]
        BY <2>3, <4>1 DEF New, Added
      <4> QED BY <2>1, <3>1, <3>3, <4>1, <4>2 DEF ThisEpoch, ThisGeneration
    <3> QED BY <3>2, <3>3
  <2>7. \A i \in DOMAIN inbox' : Tells(inbox'[i]) => inbox'[i].call.tablet \in Sensor
    BY <1>1, <2>2, <2>4 DEF DiscoveryGoesOn
  <2> QED BY <1>1, <2>1, <2>5, <2>6, <2>7 DEF DiscoveryGoesOn, Shown
<1>5. CASE Renewed
  <2>1. TailOf(inbox', inbox) /\ \A t \in Tablet : epochs'[t] = 0
    BY <1>5, RenewedLifetime DEF Renewed, Received
  <2>2. \A i \in DOMAIN inbox' : i + 1 \in DOMAIN inbox /\ inbox'[i] = inbox[i + 1]
    BY <2>1 DEF TailOf
  <2> QED BY <1>1, <2>1, <2>2 DEF DiscoveryGoesOn
<1>6. CASE Deliver /\ Passed
  <2>1. /\ TailOf(inbox', inbox) /\ 1 \in DOMAIN inbox /\ Grows(calls', calls)
        /\ UNCHANGED generation /\ Showing /\ GoesOn
        /\ \A t \in Tablet : epochs'[t] = epochs[t] \/ Current(inbox[1])
    BY <1>6, DeliverShowing DEF Passed, Received, TailOf
  <2>2. \A i \in DOMAIN inbox' : i + 1 \in DOMAIN inbox /\ inbox'[i] = inbox[i + 1]
    BY <2>1 DEF TailOf
  <2>3. \A i \in DOMAIN inbox' : Tells(inbox'[i]) => inbox'[i].call.tablet \in Sensor
    BY <1>1, <2>2 DEF DiscoveryGoesOn
  <2>4. ASSUME NEW t \in Tablet \ Sensor, epochs'[t] > 0
        PROVE  t \in Shown' \/ IsAsked(t)' \/ IsAnswered(t)'
    <3>1. interface
      <4> SUFFICES ASSUME ~interface
                   PROVE  FALSE
        OBVIOUS
      <4>1. epochs[t] = 0 /\ ~Current(inbox[1])
        BY <1>1, <2>1 DEF Dormant
      <4> QED BY <2>1, <2>4, <4>1
    <3>2. Told(t)
      BY <1>6, <3>1, DeliverTold
    <3>3. ~Removes(inbox[1], t)
      BY <2>4, <3>2 DEF Told
    <3>4. CASE Brings(inbox[1], t) /\ epochs[t] = 0 /\ epochs'[t] > nextEpoch
      <4>1. PICK j : /\ NewCall(j) /\ calls'[j].kind = "isTouchSensor" /\ calls'[j].tablet = t
                     /\ calls'[j].gen = generation /\ calls'[j].epoch = epochs'[t]
        BY <1>1, <3>2, <3>3, <3>4 DEF Told
      <4>2. IsAsked(t)'
        BY <2>1, <4>1 DEF NewCall, Added, Asks, ThisEpoch, ThisGeneration
      <4> QED BY <4>2
    <3>5. CASE epochs'[t] = epochs[t]
      <4>1. t \in Shown \/ IsAsked(t) \/ IsAnswered(t)
        BY <1>1, <2>4, <3>5 DEF DiscoveryGoesOn
      <4>2. t \in Shown => t \in Shown'
        BY <2>1, <3>3 DEF Showing
      <4>3. IsAsked(t) => IsAsked(t)'
        BY <2>1, <3>5 DEF Grows, ThisEpoch, ThisGeneration
      <4>4. ASSUME IsAnswered(t)
            PROVE  t \in Shown' \/ IsAsked(t)' \/ IsAnswered(t)'
        <5>1. PICK i \in DOMAIN inbox :
                  IsAnswer(inbox[i]) /\ Asks(inbox[i].call) /\ inbox[i].call.tablet = t
                  /\ ThisEpoch(inbox[i].call)
          BY <4>4
        <5>2. CASE i # 1
          <6>1. i - 1 \in DOMAIN inbox' /\ inbox'[i - 1] = inbox[i]
            BY <2>1, <5>2 DEF TailOf
          <6> QED BY <2>1, <3>5, <5>1, <6>1 DEF ThisEpoch, ThisGeneration
        <5>3. CASE i = 1
          <6>1. ~Tells(inbox[1])
            BY <1>1, <2>1, <5>1, <5>3 DEF DiscoveryGoesOn
          <6>2. CASE t \in Shown'
            BY <6>2
          <6>3. CASE \E j : /\ NewCall(j) /\ Asks(calls'[j]) /\ calls'[j].tablet = inbox[1].call.tablet
                            /\ calls'[j].gen = generation /\ calls'[j].epoch = inbox[1].call.epoch
            <7>1. IsAsked(t)'
              BY <2>1, <3>5, <5>1, <5>3, <6>3 DEF NewCall, Added, ThisEpoch, ThisGeneration
            <7> QED BY <7>1
          <6> QED BY <2>1, <2>4, <5>1, <5>3, <6>1, <6>2, <6>3 DEF GoesOn
        <5> QED BY <5>2, <5>3
      <4> QED BY <4>1, <4>2, <4>3, <4>4
    <3>6. epochs'[t] # 0
      BY <2>4
    <3> QED BY <3>2, <3>3, <3>4, <3>5, <3>6 DEF Told
  <2> QED BY <2>3, <2>4 DEF DiscoveryGoesOn
<1>7. CASE Ordered
  <2>1. UNCHANGED <<inbox, epochs, rows, generation>> /\ Grows(calls', calls)
    BY <1>7 DEF Ordered, modelVars
  <2>2. \A t : IsAsked(t) => IsAsked(t)'
    BY <2>1 DEF ThisEpoch, ThisGeneration, Grows
  <2>4. \A t : IsAnswered(t) => IsAnswered(t)'
    BY <2>1 DEF ThisEpoch, ThisGeneration
  <2>5. \A i \in DOMAIN inbox' : Tells(inbox'[i]) => inbox'[i].call.tablet \in Sensor
    BY <1>1, <2>1 DEF DiscoveryGoesOn
  <2>6. ASSUME NEW t \in Tablet \ Sensor, epochs'[t] > 0
        PROVE  t \in Shown' \/ IsAsked(t)' \/ IsAnswered(t)'
    <3>1. t \in Shown \/ IsAsked(t) \/ IsAnswered(t)
      BY <1>1, <2>1, <2>6 DEF DiscoveryGoesOn
    <3>2. Shown' = Shown
      BY <2>1 DEF Shown
    <3> QED BY <3>1, <3>2, <2>2, <2>4
  <2> QED BY <2>5, <2>6 DEF DiscoveryGoesOn
<1> QED BY <1>2, <1>3, <1>4, <1>5, <1>6, <1>7, Steps

\* A lifetime that is over does not come back.
LEMMA NoRevival ==
    ASSUME IInv, Next, NEW t \in Tablet, NEW g, NEW e \in 1..nextEpoch,
           g = generation', epochs'[t] = e
    PROVE  g = generation /\ epochs[t] = e
<1>1. generation \in Nat /\ nextEpoch \in Nat
  BY Basics
<1>2. CASE Renewed
  BY <1>1, <1>2, RenewedLifetime
<1>3. CASE Deliver /\ Passed
  BY <1>1, <1>3 DEF Passed
<1>4. CASE /\ UNCHANGED <<generation, epochs>>
  BY <1>4
<1> QED BY <1>2, <1>3, <1>4, Steps
        DEF Announced, Signalled, AppletIdle, Matched, ProfileGot, BusIdle, Served, Ordered, modelVars

\* The questions under way are about tablets, and have an epoch.
LEMMA Questions ==
    ASSUME IInv
    PROVE  /\ \A i \in DOMAIN calls : Asks(calls[i]) =>
                  calls[i].tablet \in Tablet /\ calls[i].epoch \in 1..nextEpoch
           /\ \A i \in DOMAIN inbox : IsAnswer(inbox[i]) /\ Asks(inbox[i].call) =>
                  inbox[i].call.tablet \in Tablet /\ inbox[i].call.epoch \in 1..nextEpoch
<1>1. Numbered /\ calls \in Seq(Call) /\ inbox \in Seq(Message)
  BY Basics
<1>2. ASSUME NEW i \in DOMAIN calls, Asks(calls[i])
      PROVE  calls[i].tablet \in Tablet /\ calls[i].epoch \in 1..nextEpoch
  <2>1. calls[i] \in Call
    BY <1>1
  <2> QED BY <1>1, <1>2, <2>1, CallFields DEF Numbered, NumbersOf
<1>3. ASSUME NEW i \in DOMAIN inbox, IsAnswer(inbox[i]), Asks(inbox[i].call)
      PROVE  inbox[i].call.tablet \in Tablet /\ inbox[i].call.epoch \in 1..nextEpoch
  <2>1. inbox[i].call \in Call
    BY <1>1, <1>3, MessageFields
  <2> QED BY <1>1, <1>3, <2>1, CallFields DEF Numbered, NumbersOf
<1> QED BY <1>2, <1>3

\* A discovery begins with isTouchSensor, and goes on if that is false.
AsksOn ==
    \A j : NewCall(j) =>
        \/ calls'[j].kind = "isTouchSensor"
        \/ /\ inbox[1].kind = "reply" /\ inbox[1].call.kind = "isTouchSensor" /\ ~inbox[1].value
           /\ ThisEpoch(inbox[1].call) /\ calls'[j].tablet = inbox[1].call.tablet

LEMMA DeliverAsksOn ==
    ASSUME IInv, Deliver, Passed
    PROVE  AsksOn
<1>1. /\ Typed /\ Numbered /\ Known /\ RowsAreAlive /\ SourcesAreRows /\ OrdersAreWatched
      /\ calls \in Seq(Call)
  BY Basics DEF IInv
<1>2. UNCHANGED calls => AsksOn
  BY DEF AsksOn, NewCall, Added
<1>3. CASE OnOwnerChanged
  BY <1>1, <1>3, OwnerChangedEffect DEF Passed
<1>4. CASE OnNameHasOwner
  BY <1>1, <1>2, <1>4, NameHasOwnerEffect DEF Passed, Registers
<1>5. CASE OnTabletList
  BY <1>1, <1>2, <1>5, TabletListEffect DEF Discovered, AsksOn
<1>6. CASE OnTabletAdded
  BY <1>1, <1>2, <1>6, TabletAddedEffect DEF Discovered, AsksOn
<1>7. CASE OnIsTouchSensor
  BY <1>1, <1>7, IsTouchSensorEffect DEF AsksOn
<1>8. CASE OnTabletData
  BY <1>1, <1>2, <1>8, TabletDataEffect
<1>9. CASE OnError
  BY <1>1, <1>2, <1>9, OnErrorEffect
<1>10. CASE OnTabletRemoved
  BY <1>1, <1>2, <1>10, TabletRemovedEffect
<1>11. CASE OnProfileChanged
  BY <1>1, <1>2, <1>11, ProfileChangedEffect
<1>12. CASE OnOperationReply
  BY <1>1, <1>2, <1>12, OperationReplyEffect
<1> QED BY <1>3, <1>4, <1>5, <1>6, <1>7, <1>8, <1>9, <1>10, <1>11, <1>12 DEF Deliver

\* A lifetime that is known is that of a service that is there.
LEMMA AliveServed ==
    ASSUME IInv, NEW t \in Tablet, epochs[t] > 0
    PROVE  interface /\ listening = generation /\ generation # 0
BY Basics DEF Dormant

LEMMA LivesOn ==
    ASSUME IInv, Deliver, Passed, NEW t \in Tablet, epochs'[t] > 0
    PROVE  ~Removes(inbox[1], t)
<1>1. CASE interface
  BY <1>1, DeliverTold DEF Told
<1>2. CASE ~interface
  <2>1. ~Current(inbox[1]) /\ epochs[t] = 0
    BY <1>2, Basics DEF Dormant, Passed, Received, TailOf
  <2> QED BY <2>1 DEF Current, Removes, IsSignal
<1> QED BY <1>1, <1>2, Basics

\* What lies before a message stays there, or ends the lifetime.
LEMMA EndsBeforeKept ==
    ASSUME IInv, Deliver, Passed, NEW t \in Tablet, epochs'[t] > 0,
           NEW i \in DOMAIN inbox', EndsBefore(i + 1, t)
    PROVE  EndsBefore(i, t)'
<1>1. /\ TailOf(inbox', inbox) /\ ~Owner(inbox[1]) /\ UNCHANGED generation
      /\ i \in Nat
  BY DEF Passed, Received, TailOf
<1>2. PICK j \in 1..i : Owner(inbox[j]) \/ Removes(inbox[j], t)
  BY <1>1 DEF EndsBefore
<1>3. j # 1
  BY <1>1, <1>2, LivesOn
<1>4. j - 1 \in 1..(i - 1) /\ j - 1 \in DOMAIN inbox' /\ inbox'[j - 1] = inbox[j]
  <2>1. j \in DOMAIN inbox
    <3>1. inbox \in Seq(Message) /\ i + 1 \in DOMAIN inbox
      BY <1>1, Basics DEF TailOf
    <3> QED BY <1>1, <3>1
  <2> QED BY <1>1, <1>3, <2>1 DEF TailOf
<1> QED BY <1>1, <1>2, <1>4 DEF EndsBefore, Removes, Owner

LEMMA EndsBeforeGrows ==
    ASSUME IInv, Grows(inbox', inbox), UNCHANGED generation, NEW t,
           NEW i \in DOMAIN inbox, EndsBefore(i, t)
    PROVE  EndsBefore(i, t)'
<1>1. inbox \in Seq(Message) /\ i \in Nat
  BY Basics
<1>2. \A j \in 1..(i - 1) : j \in DOMAIN inbox
  BY <1>1
<1>3. \A j \in 1..(i - 1) : inbox'[j] = inbox[j]
  BY <1>2 DEF Grows
<1> QED BY <1>3 DEF EndsBefore, Removes, Owner

\* What ends the lifetime of a tablet that is gone lies before what is said from now on.
LEMMA EndsBeforeNew ==
    ASSUME IInv, Grows(inbox', inbox), UNCHANGED generation, NEW t \in Tablet \ present,
           epochs[t] > 0, NEW i, New(i)
    PROVE  EndsBefore(i, t)'
<1>1. PICK j \in DOMAIN inbox : Owner(inbox[j]) \/ Removes(inbox[j], t)
  BY AliveServed DEF IInv, GoneIsTold, Reset
<1>2. j \in 1..(i - 1) /\ inbox'[j] = inbox[j]
  BY DEF Grows, New, Added
<1> QED BY <1>1, <1>2 DEF EndsBefore, Removes, Owner

LEMMA NoSensorsKept ==
    ASSUME IInv, Next
    PROVE  NoSensors'
<1>1. /\ NoSensors /\ GoneIsTold /\ generation \in Nat /\ nextEpoch \in Nat
      /\ calls \in Seq(Call) /\ inbox \in Seq(Message)
      /\ epochs \in [Tablet -> 0..nextEpoch]
  BY Basics DEF IInv
<1> DEFINE Goes(c) == c.kind \in {"getProfile", "getProperty"} /\ c.tablet \in Sensor
           Denied(m) == /\ IsAnswer(m) /\ Asks(m.call) /\ m.call.tablet \in Sensor
                        /\ m.call.kind = "isTouchSensor" => m.kind = "reply" /\ ~m.value
           Fine(i) == inbox[i].call.kind = "isTouchSensor" /\ EndsBefore(i, inbox[i].call.tablet)
<1>2. SUFFICES /\ Shown' \cap Sensor = {}
               /\ \A i \in DOMAIN calls' : Goes(calls'[i]) => ~ThisEpoch(calls[i])'
               /\ \A i \in DOMAIN inbox' : Denied(inbox'[i]) /\ ThisEpoch(inbox[i].call)' => Fine(i)'
  BY DEF NoSensors
<1>3. /\ \A i \in DOMAIN calls : Goes(calls[i]) => ~ThisEpoch(calls[i])
      /\ \A i \in DOMAIN inbox : Denied(inbox[i]) /\ ThisEpoch(inbox[i].call) => Fine(i)
  <2>1. \A i \in DOMAIN calls : Goes(calls[i]) => ~ThisEpoch(calls[i])
    BY <1>1 DEF NoSensors
  <2>2. ASSUME NEW i \in DOMAIN inbox, Denied(inbox[i]), ThisEpoch(inbox[i].call)
        PROVE  Fine(i)
    BY <1>1, <2>2 DEF NoSensors
  <2> QED BY <2>1, <2>2
\* What was there before is as it was, unless its lifetime is over.
<1>4. ASSUME NEW i \in DOMAIN calls, Goes(calls[i])
      PROVE  ~(calls[i].gen = generation' /\ epochs'[calls[i].tablet] = calls[i].epoch)
  <2>1. calls[i].tablet \in Tablet /\ calls[i].epoch \in 1..nextEpoch
    BY <1>4, Questions DEF Asks
  <2> QED BY <1>3, <1>4, <2>1, NoRevival DEF ThisEpoch, ThisGeneration
<1>5. ASSUME NEW i \in DOMAIN inbox, Denied(inbox[i]), inbox[i].call.gen = generation',
             epochs'[inbox[i].call.tablet] = inbox[i].call.epoch
      PROVE  Fine(i) /\ inbox[i].call.tablet \in Tablet /\ epochs'[inbox[i].call.tablet] > 0
  <2>1. inbox[i].call.tablet \in Tablet /\ inbox[i].call.epoch \in 1..nextEpoch
    BY <1>5, Questions
  <2>2. ThisEpoch(inbox[i].call)
    BY <1>5, <2>1, NoRevival DEF ThisEpoch, ThisGeneration
  <2> QED BY <1>1, <1>3, <1>5, <2>1, <2>2
\* Messages are added.
<1>6. ASSUME Grows(inbox', inbox), UNCHANGED generation, NEW i \in DOMAIN inbox,
             Denied(inbox'[i]), ThisEpoch(inbox[i].call)'
      PROVE  Fine(i)'
  <2>1. i \in DOMAIN inbox' /\ inbox'[i] = inbox[i] /\ i \in Nat
    BY <1>6 DEF Grows
  <2>2. Fine(i)
    BY <1>5, <1>6, <2>1 DEF ThisEpoch, ThisGeneration
  <2>3. PICK t : t = inbox[i].call.tablet
    OBVIOUS
  <2>4. EndsBefore(i, t)'
    BY <1>6, <2>2, <2>3, EndsBeforeGrows
  <2> QED BY <2>1, <2>2, <2>3, <2>4 DEF EndsBefore
<1>7. CASE Announced \/ \E t \in Tablet : Signalled(t)
  <2>1. /\ UNCHANGED <<calls, epochs, rows, generation>> /\ Grows(inbox', inbox)
        /\ \A j : New(j) => ~IsAnswer(inbox'[j])
    BY <1>7 DEF Announced, Signalled, AppletIdle, modelVars, Owner, Signal, IsSignal, IsAnswer
  <2>2. \A i \in DOMAIN inbox' : IsAnswer(inbox'[i]) => i \in DOMAIN inbox
    BY <2>1 DEF New, Added
  <2>3. Shown' = Shown
    BY <2>1 DEF Shown
  <2> QED BY <1>1, <1>2, <1>4, <1>6, <2>1, <2>2, <2>3 DEF NoSensors, ThisEpoch, ThisGeneration
<1>8. CASE Matched \/ ProfileGot
  <2>1. UNCHANGED <<inbox, epochs, rows, generation>>
    BY <1>8 DEF Matched, ProfileGot, BusIdle, modelVars
  <2>2. Shown' = Shown /\ Grows(inbox', inbox)
    BY <1>1, <2>1 DEF Shown, Grows
  <2>3. \A j \in DOMAIN calls' : Goes(calls'[j]) => \E i \in DOMAIN calls :
            /\ Goes(calls[i]) /\ calls'[j].tablet = calls[i].tablet
            /\ calls'[j].gen = calls[i].gen /\ calls'[j].epoch = calls[i].epoch
    <3>1. CASE Matched
      BY <3>1 DEF Matched, TailOf
    <3>2. CASE ProfileGot
      BY <3>2 DEF ProfileGot
    <3> QED BY <1>8, <3>1, <3>2
  <2>4. \A j \in DOMAIN calls' : Goes(calls'[j]) => ~ThisEpoch(calls[j])'
    BY <1>4, <2>3 DEF ThisEpoch, ThisGeneration
  <2> HIDE DEF Goes, Denied, Fine
  <2> QED BY <1>1, <1>2, <1>6, <2>1, <2>2, <2>4 DEF NoSensors
<1>9. CASE Served
  <2>1. /\ UNCHANGED <<epochs, rows, generation, interface>> /\ TailOf(calls', calls) /\ Grows(inbox', inbox)
        /\ calls[1] \in Call /\ 1 \in DOMAIN calls
    BY <1>9 DEF Served, modelVars, TailOf
  <2>2. \A i \in DOMAIN calls' : Goes(calls'[i]) => ~ThisEpoch(calls[i])'
    BY <1>4, <2>1 DEF ThisEpoch, ThisGeneration, TailOf
  <2>3. Shown' = Shown
    BY <2>1 DEF Shown
  <2>4. ASSUME NEW i \in DOMAIN inbox', Denied(inbox'[i]), ThisEpoch(inbox[i].call)',
               i \notin DOMAIN inbox
        PROVE  Fine(i)'
    <3>1. New(i) /\ inbox'[i].call = calls[1]
      BY <1>9, <2>4 DEF Served, New, Added, Signal, IsSignal, IsAnswer
    <3>2. /\ Asks(calls[1]) /\ calls[1].tablet \in Sensor /\ ThisEpoch(calls[1])
          /\ calls[1].gen = generation' /\ epochs'[calls[1].tablet] = calls[1].epoch
      BY <2>1, <2>4, <3>1 DEF ThisEpoch, ThisGeneration
    <3>3. calls[1].kind = "isTouchSensor"
      BY <1>3, <2>1, <3>2 DEF Asks
    <3>4. inbox'[i].kind = "reply" /\ ~inbox'[i].value
      BY <2>4, <3>1, <3>3
    <3>5. calls[1].tablet \notin present /\ calls[1].tablet \in Tablet
      BY <1>9, <2>1, <3>1, <3>2, <3>3, <3>4, Questions DEF Served, Says
    <3>6. epochs[calls[1].tablet] > 0
      BY <1>1, <2>1, <3>2, Questions DEF ThisEpoch
    <3>7. PICK t : t = calls[1].tablet
      OBVIOUS
    <3>8. EndsBefore(i, t)'
      BY <2>1, <3>1, <3>5, <3>6, <3>7, EndsBeforeNew
    <3> QED BY <3>1, <3>3, <3>7, <3>8 DEF EndsBefore
  <2> HIDE DEF Goes, Denied, Fine
  <2> QED BY <1>1, <1>2, <1>6, <2>1, <2>2, <2>3, <2>4 DEF NoSensors
<1>10. CASE Renewed
  <2>1. /\ TailOf(inbox', inbox) /\ (\A t \in Tablet : epochs'[t] = 0) /\ rows' = <<>>
        /\ \A j : NewCall(j) => ~Asks(calls'[j])
    BY <1>10, RenewedLifetime DEF Renewed, Received
  <2>2. Shown' = {}
    BY <2>1 DEF Shown
  <2>3. \A i \in DOMAIN calls' : Goes(calls'[i]) => i \in DOMAIN calls /\ calls'[i] = calls[i]
    BY <1>10, <2>1 DEF NewCall, Added, Renewed, Grows, Asks
  <2>4. \A i \in DOMAIN calls' : Goes(calls'[i]) => ~ThisEpoch(calls[i])'
    BY <1>4, <2>3 DEF ThisEpoch, ThisGeneration
  <2>5. \A i \in DOMAIN inbox' : Denied(inbox'[i]) => ~ThisEpoch(inbox[i].call)'
    BY <2>1, Questions DEF TailOf, ThisEpoch, ThisGeneration
  <2> QED BY <1>2, <2>2, <2>4, <2>5
<1>11. CASE Deliver /\ Passed
  <2>1. /\ TailOf(inbox', inbox) /\ 1 \in DOMAIN inbox /\ Grows(calls', calls)
        /\ UNCHANGED generation /\ Showing /\ AsksOn
    BY <1>11, DeliverShowing, DeliverAsksOn DEF Passed, Received, TailOf
  <2>2. Shown' \cap Sensor = {}
    <3> SUFFICES ASSUME NEW t \in Sensor, t \in Shown', t \notin Shown
                 PROVE  FALSE
      BY <1>1 DEF NoSensors
    <3>1. /\ inbox[1].kind = "reply" /\ inbox[1].call.kind = "getProperty"
          /\ inbox[1].call.tablet = t /\ ThisEpoch(inbox[1].call)
      BY <2>1 DEF Showing
    <3> QED BY <1>3, <2>1, <3>1 DEF IsAnswer, Asks
  <2>3. ASSUME NEW i \in DOMAIN calls', Goes(calls'[i])
        PROVE  ~ThisEpoch(calls[i])'
    <3>1. CASE i \in DOMAIN calls
      BY <1>4, <2>1, <2>3, <3>1 DEF Grows, ThisEpoch, ThisGeneration
    <3>2. CASE i \notin DOMAIN calls
      <4>1. /\ inbox[1].kind = "reply" /\ inbox[1].call.kind = "isTouchSensor" /\ ~inbox[1].value
            /\ ThisEpoch(inbox[1].call) /\ calls'[i].tablet = inbox[1].call.tablet
        BY <2>1, <2>3, <3>2 DEF AsksOn, NewCall, Added
      <4>2. EndsBefore(1, inbox[1].call.tablet)
        BY <1>3, <2>1, <2>3, <4>1 DEF IsAnswer, Asks
      <4> QED BY <4>2 DEF EndsBefore
    <3> QED BY <3>1, <3>2
  <2>4. ASSUME NEW i \in DOMAIN inbox', Denied(inbox'[i]), ThisEpoch(inbox[i].call)'
        PROVE  Fine(i)'
    <3>1. i + 1 \in DOMAIN inbox /\ inbox'[i] = inbox[i + 1]
      BY <2>1 DEF TailOf
    <3>2. /\ Fine(i + 1) /\ inbox[i + 1].call.tablet \in Tablet
          /\ epochs'[inbox[i + 1].call.tablet] > 0
      BY <1>5, <2>4, <3>1 DEF ThisEpoch, ThisGeneration
    <3>3. PICK t : t = inbox[i + 1].call.tablet
      OBVIOUS
    <3>4. EndsBefore(i + 1, t) /\ t \in Tablet /\ epochs'[t] > 0
      BY <3>2, <3>3
    <3>5. EndsBefore(i, t)'
      BY <1>11, <3>4, EndsBeforeKept
    <3> QED BY <3>1, <3>2, <3>3, <3>5 DEF EndsBefore
  <2> QED BY <1>2, <2>2, <2>3, <2>4
<1>12. CASE Ordered
  <2>1. UNCHANGED <<inbox, epochs, rows, generation>> /\ Grows(calls', calls)
    BY <1>12 DEF Ordered, modelVars
  <2>2. Shown' = Shown /\ Grows(inbox', inbox)
    BY <1>1, <2>1 DEF Shown, Grows
  <2>3. \A i \in DOMAIN calls' : Goes(calls'[i]) => i \in DOMAIN calls /\ calls'[i] = calls[i]
    BY <1>12, <2>1 DEF NewCall, Added, Ordered, Grows, IsOrder
  <2>4. \A i \in DOMAIN calls' : Goes(calls'[i]) => ~ThisEpoch(calls[i])'
    BY <1>4, <2>3 DEF ThisEpoch, ThisGeneration
  <2> HIDE DEF Goes, Denied, Fine
  <2> QED BY <1>1, <1>2, <1>6, <2>1, <2>2, <2>4 DEF NoSensors
<1> QED BY <1>7, <1>8, <1>9, <1>10, <1>11, <1>12, Steps

\* The answer to a call of an operation.
Counted(m) == IsAnswer(m) /\ IsOrder(m.call)

\* One of the calls of the operation is for this target, and its answer is not there yet.
Awaited(a) ==
    \/ \E i \in DOMAIN calls : IsOrder(calls[i]) /\ calls[i].target = a
    \/ \E i \in DOMAIN inbox : Counted(inbox[i]) /\ inbox[i].call.target = a

LEMMA OutstandingIsAwaited ==
    /\ \A a : a \in Outstanding <=> Awaited(a)
    /\ \A a : a \in Outstanding' <=> Awaited(a)'
BY DEF Outstanding, Awaited, Counted

\* The calls of the operation, and the answers, are what they were, d places ahead.
OrdersMoved(d) ==
    /\ \A i \in DOMAIN calls' : IsOrder(calls'[i]) => i + d \in DOMAIN calls /\ calls'[i] = calls[i + d]
    /\ \A i \in DOMAIN calls : IsOrder(calls[i]) => i - d \in DOMAIN calls' /\ calls'[i - d] = calls[i]
AnswersMoved(d) ==
    /\ \A i \in DOMAIN inbox' : Counted(inbox'[i]) => i + d \in DOMAIN inbox /\ inbox'[i] = inbox[i + d]
    /\ \A i \in DOMAIN inbox : Counted(inbox[i]) => i - d \in DOMAIN inbox' /\ inbox'[i - d] = inbox[i]

LEMMA OrdersMove ==
    ASSUME IInv, Typed'
    PROVE  /\ UNCHANGED calls => OrdersMoved(0)
           /\ ProfileGot => OrdersMoved(0)
           /\ Grows(calls', calls) /\ (\A j : NewCall(j) => ~IsOrder(calls'[j])) => OrdersMoved(0)
           /\ TailOf(calls', calls) /\ ~IsOrder(calls[1]) => OrdersMoved(1)
<1>1. /\ \A i \in DOMAIN calls : i \in Nat /\ i + 0 = i /\ i - 0 = i
      /\ \A i \in DOMAIN calls' : i \in Nat /\ i + 0 = i
  <2>1. calls \in Seq(Call) /\ calls' \in Seq(Call)
    BY DEF IInv, Typed, TypeOK
  <2> QED BY <2>1
<1>2. UNCHANGED calls => OrdersMoved(0)
  BY <1>1 DEF OrdersMoved
<1>3. ProfileGot => OrdersMoved(0)
  BY <1>1 DEF OrdersMoved, ProfileGot, IsOrder
<1>4. Grows(calls', calls) /\ (\A j : NewCall(j) => ~IsOrder(calls'[j])) => OrdersMoved(0)
  BY <1>1 DEF OrdersMoved, Grows, NewCall, Added
<1>5. TailOf(calls', calls) /\ ~IsOrder(calls[1]) => OrdersMoved(1)
  BY <1>1 DEF OrdersMoved, TailOf
<1> QED BY <1>2, <1>3, <1>4, <1>5

LEMMA AnswersMove ==
    ASSUME IInv, Typed'
    PROVE  /\ UNCHANGED inbox => AnswersMoved(0)
           /\ Grows(inbox', inbox) /\ (\A j : New(j) => ~Counted(inbox'[j])) => AnswersMoved(0)
           /\ TailOf(inbox', inbox) /\ ~Counted(inbox[1]) => AnswersMoved(1)
<1>1. /\ \A i \in DOMAIN inbox : i \in Nat /\ i + 0 = i /\ i - 0 = i
      /\ \A i \in DOMAIN inbox' : i \in Nat /\ i + 0 = i
  <2>1. inbox \in Seq(Message) /\ inbox' \in Seq(Message)
    BY DEF IInv, Typed
  <2> QED BY <2>1
<1>2. UNCHANGED inbox => AnswersMoved(0)
  BY <1>1 DEF AnswersMoved
<1>3. Grows(inbox', inbox) /\ (\A j : New(j) => ~Counted(inbox'[j])) => AnswersMoved(0)
  BY <1>1 DEF AnswersMoved, Grows, New, Added
<1>4. TailOf(inbox', inbox) /\ ~Counted(inbox[1]) => AnswersMoved(1)
  BY <1>1 DEF AnswersMoved, TailOf
<1> QED BY <1>2, <1>3, <1>4

\* Where they are does not matter.
LEMMA MovedWatched ==
    ASSUME IInv, Typed', OpKept, NEW d \in Nat, NEW e \in Nat, OrdersMoved(d), AnswersMoved(e)
    PROVE  OrdersAreWatched' /\ Outstanding' = Outstanding
<1>1. OrdersAreWatched
  BY DEF IInv
<1>2. Outstanding' = Outstanding
  <2>1. \A a : Awaited(a) <=> Awaited(a)'
    <3>1. \A a : Awaited(a) => Awaited(a)'
      BY DEF OrdersMoved, AnswersMoved, Awaited
    <3>2. \A a : Awaited(a)' => Awaited(a)
      BY DEF OrdersMoved, AnswersMoved, Awaited
    <3> QED BY <3>1, <3>2
  <2> QED BY <2>1, OutstandingIsAwaited
<1>3. /\ \A i \in DOMAIN calls' : i \in Nat
      /\ \A i \in DOMAIN inbox' : i \in Nat
  <2>1. calls' \in Seq(Call) /\ inbox' \in Seq(Message)
    BY DEF Typed, TypeOK
  <2> QED BY <2>1
<1>4. \A c : OrderOf(c) => OrderOf(c)'
  BY DEF OrderOf, OpKept
<1>5. \A i \in DOMAIN calls' : IsOrder(calls'[i]) => OrderOf(calls[i])'
  BY <1>1, <1>4 DEF OrdersMoved, OrdersAreWatched, OrderOf
<1>6. \A i \in DOMAIN inbox' : Counted(inbox'[i]) => OrderOf(inbox[i].call)'
  BY <1>1, <1>4 DEF AnswersMoved, OrdersAreWatched, Counted, OrderOf
<1>7. ASSUME NEW i \in DOMAIN calls', NEW j \in DOMAIN calls',
             IsOrder(calls'[i]), IsOrder(calls'[j]), calls'[i].target = calls'[j].target
      PROVE  i = j
  <2>1. i + d = j + d
    BY <1>1, <1>7 DEF OrdersMoved, OrdersAreWatched
  <2> QED BY <1>3, <2>1
<1>8. ASSUME NEW i \in DOMAIN inbox', NEW j \in DOMAIN inbox', Counted(inbox'[i]), Counted(inbox'[j]),
             inbox'[i].call.target = inbox'[j].call.target
      PROVE  i = j
  <2>1. i + e = j + e
    BY <1>1, <1>8 DEF AnswersMoved, OrdersAreWatched, Counted
  <2> QED BY <1>3, <2>1
<1>9. ASSUME NEW i \in DOMAIN inbox', NEW j \in DOMAIN calls', Counted(inbox'[i]), IsOrder(calls'[j])
      PROVE  inbox'[i].call.target # calls'[j].target
  BY <1>1, <1>9 DEF AnswersMoved, OrdersMoved, OrdersAreWatched, Counted
<1>10. op'.status = "pending" =>
           op'.remaining = Cardinality(Outstanding') /\ op'.remaining > 0 /\ op'.epoch > 0
  BY <1>1, <1>2 DEF OrdersAreWatched, OpKept
<1> QED BY <1>2, <1>5, <1>6, <1>7, <1>8, <1>9, <1>10 DEF OrdersAreWatched, Counted

\* The targets that are outstanding are some of those of the operation.
LEMMA OutstandingTargets ==
    ASSUME IInv
    PROVE  /\ IsFiniteSet(Outstanding)
           /\ op.status = "pending" => Outstanding \subseteq ToSet(Targets[op.kind])
           /\ op.status # "pending" => Outstanding = {}
<1>1. /\ OrdersAreWatched /\ op \in Op \cup {NoOp}
      /\ calls \in Seq(Call) /\ inbox \in Seq(Message)
  BY DEF IInv, Typed, TypeOK
<1>2. ASSUME NEW a \in Outstanding
      PROVE  op.status = "pending" /\ a \in ToSet(Targets[op.kind])
  <2>1. CASE \E i \in DOMAIN calls : IsOrder(calls[i]) /\ calls[i].target = a
    <3>1. PICK i \in DOMAIN calls : IsOrder(calls[i]) /\ calls[i].target = a
      BY <2>1
    <3>2. calls[i] \in Call
      BY <1>1
    <3> QED BY <1>1, <3>1, <3>2, CallFields DEF OrdersAreWatched, OrderOf
  <2>2. CASE \E i \in DOMAIN inbox : Counted(inbox[i]) /\ inbox[i].call.target = a
    <3>1. PICK i \in DOMAIN inbox : Counted(inbox[i]) /\ inbox[i].call.target = a
      BY <2>2
    <3>2. inbox[i].call \in Call
      BY <1>1, <3>1, MessageFields DEF Counted
    <3> QED BY <1>1, <3>1, <3>2, CallFields DEF OrdersAreWatched, OrderOf, Counted
  <2> QED BY <1>2, <2>1, <2>2, OutstandingIsAwaited DEF Awaited
<1>3. CASE op.status = "pending"
  <2>1. op.kind \in Operation
    BY <1>1, <1>3 DEF Op, NoOp
  <2>2. IsFiniteSet(ToSet(Targets[op.kind]))
    BY <2>1, TargetsCounted
  <2> QED BY <1>2, <1>3, <2>2, FS_Subset
<1>4. CASE op.status # "pending"
  BY <1>2, <1>4, FS_EmptySet
<1> QED BY <1>3, <1>4

\* Who is told of what, when a message is delivered: the operation, of its own.
LEMMA DeliverCounts ==
    ASSUME IInv, Deliver, Passed
    PROVE  \/ OnOperationReply
           \/ UNCHANGED op /\ ~Counted(inbox[1])
<1>1. /\ Typed /\ Numbered /\ Known /\ RowsAreAlive /\ SourcesAreRows /\ OrdersAreWatched
  BY DEF IInv
<1>2. CASE OnOwnerChanged
  BY <1>1, <1>2, OwnerChangedEffect DEF Passed
<1>3. CASE OnNameHasOwner
  BY <1>1, <1>3, NameHasOwnerEffect DEF Passed, Registers, Counted, IsOrder
<1>4. CASE OnTabletList
  BY <1>1, <1>4, TabletListEffect DEF DiscoverIdle, Counted, IsOrder
<1>5. CASE OnTabletAdded
  BY <1>1, <1>5, TabletAddedEffect DEF DiscoverIdle, Counted, IsAnswer
<1>6. CASE OnIsTouchSensor
  BY <1>1, <1>6, IsTouchSensorEffect DEF Counted, IsOrder
<1>7. CASE OnTabletData
  BY <1>1, <1>7, TabletDataEffect DEF Counted, IsOrder
<1>8. CASE OnError
  BY <1>1, <1>8, OnErrorEffect DEF Counted
<1>9. CASE OnTabletRemoved
  BY <1>1, <1>9, TabletRemovedEffect DEF Counted, IsAnswer
<1>10. CASE OnProfileChanged
  BY <1>1, <1>10, ProfileChangedEffect DEF Counted, IsAnswer
<1> QED BY <1>2, <1>3, <1>4, <1>5, <1>6, <1>7, <1>8, <1>9, <1>10 DEF Deliver

\* A call of the operation is answered.
LEMMA OrderServed ==
    ASSUME IInv, Served, IsOrder(calls[1])
    PROVE  OrdersAreWatched' /\ Outstanding' = Outstanding
<1>1. /\ OrdersAreWatched /\ Typed' /\ OpKept
      /\ TailOf(calls', calls) /\ Grows(inbox', inbox) /\ 1 \in DOMAIN calls
  BY DEF IInv, Served, TailOf
<1>2. PICK k : New(k) /\ IsAnswer(inbox'[k])
  BY DEF Served
<1>3. k \in DOMAIN inbox' /\ Counted(inbox'[k]) /\ inbox'[k].call = calls[1]
  BY <1>2 DEF Served, New, Added, Signal, IsSignal, IsAnswer, Counted
<1>4. ASSUME NEW i \in DOMAIN inbox', Counted(inbox'[i])
      PROVE  i = k \/ (i # k /\ i \in DOMAIN inbox /\ inbox'[i] = inbox[i])
  BY <1>1, <1>2, <1>4 DEF Served, New, Added, Grows, Counted
<1>5. \A i \in DOMAIN calls' : i \in Nat /\ i + 1 \in DOMAIN calls /\ calls'[i] = calls[i + 1] /\ i + 1 # 1
  BY <1>1 DEF TailOf
<1>6. Outstanding' = Outstanding
  <2>1. ASSUME NEW a, Awaited(a)
        PROVE  Awaited(a)'
    <3>1. CASE \E i \in DOMAIN calls : IsOrder(calls[i]) /\ calls[i].target = a
      <4>1. PICK i \in DOMAIN calls : IsOrder(calls[i]) /\ calls[i].target = a
        BY <3>1
      <4>2. CASE i = 1
        BY <1>3, <4>1, <4>2 DEF Awaited
      <4>3. CASE i # 1
        <5>1. i - 1 \in DOMAIN calls' /\ calls'[i - 1] = calls[i]
          BY <1>1, <4>3 DEF TailOf
        <5> QED BY <4>1, <5>1 DEF Awaited
      <4> QED BY <4>2, <4>3
    <3>2. CASE \E i \in DOMAIN inbox : Counted(inbox[i]) /\ inbox[i].call.target = a
      BY <1>1, <3>2 DEF Grows, Awaited
    <3> QED BY <2>1, <3>1, <3>2 DEF Awaited
  <2>2. ASSUME NEW a, Awaited(a)'
        PROVE  Awaited(a)
    <3>1. CASE \E i \in DOMAIN calls' : IsOrder(calls'[i]) /\ calls'[i].target = a
      BY <1>5, <3>1 DEF Awaited
    <3>2. CASE \E i \in DOMAIN inbox' : Counted(inbox'[i]) /\ inbox'[i].call.target = a
      BY <1>1, <1>3, <1>4, <3>2 DEF Awaited
    <3> QED BY <2>2, <3>1, <3>2 DEF Awaited
  <2> QED BY <2>1, <2>2, OutstandingIsAwaited
<1>7. \A c : OrderOf(c) => OrderOf(c)'
  BY <1>1 DEF OrderOf, OpKept
<1>8. \A i \in DOMAIN calls' : IsOrder(calls'[i]) => OrderOf(calls[i])'
  BY <1>1, <1>5, <1>7 DEF OrdersAreWatched, OrderOf
<1>9. \A i \in DOMAIN inbox' : Counted(inbox'[i]) => OrderOf(inbox[i].call)'
  BY <1>1, <1>3, <1>4, <1>7 DEF OrdersAreWatched, OrderOf, Counted
<1>10. ASSUME NEW i \in DOMAIN calls', NEW j \in DOMAIN calls',
              IsOrder(calls'[i]), IsOrder(calls'[j]), calls'[i].target = calls'[j].target
       PROVE  i = j
  <2>1. i + 1 = j + 1
    BY <1>1, <1>5, <1>10 DEF OrdersAreWatched
  <2> QED BY <1>5, <2>1
<1>11. ASSUME NEW i \in DOMAIN inbox', NEW j \in DOMAIN inbox', Counted(inbox'[i]), Counted(inbox'[j]),
              inbox'[i].call.target = inbox'[j].call.target
       PROVE  i = j
  BY <1>1, <1>3, <1>4, <1>11 DEF OrdersAreWatched, Counted
<1>12. ASSUME NEW i \in DOMAIN inbox', NEW j \in DOMAIN calls', Counted(inbox'[i]), IsOrder(calls'[j])
       PROVE  inbox'[i].call.target # calls'[j].target
  BY <1>1, <1>3, <1>4, <1>5, <1>12 DEF OrdersAreWatched, Counted
<1>13. op'.status = "pending" =>
           op'.remaining = Cardinality(Outstanding') /\ op'.remaining > 0 /\ op'.epoch > 0
  BY <1>1, <1>6 DEF OrdersAreWatched, OpKept
<1> QED BY <1>6, <1>8, <1>9, <1>10, <1>11, <1>12, <1>13 DEF OrdersAreWatched, Counted

\* An answer is counted.
LEMMA ReplyCounted ==
    ASSUME IInv, Deliver, OnOperationReply
    PROVE  OrdersAreWatched' /\ Outstanding' = Outstanding \ {inbox[1].call.target}
<1>1. OrdersAreWatched /\ Typed
  BY DEF IInv
<1>2. /\ Typed' /\ TailOf(inbox', inbox) /\ UNCHANGED calls /\ 1 \in DOMAIN inbox
      /\ Counted(inbox[1]) /\ op.status = "pending" /\ op \in Op
      /\ op'.kind = op.kind /\ op'.tablet = op.tablet /\ op'.value = op.value
      /\ op'.epoch = op.epoch
      /\ op'.remaining = op.remaining - 1 /\ (op'.status = "pending" <=> op.remaining > 1)
  BY <1>1, OperationReplyEffect DEF Received, TailOf, Counted
<1>3. \A i \in DOMAIN inbox' : i \in Nat /\ i + 1 \in DOMAIN inbox /\ inbox'[i] = inbox[i + 1] /\ i + 1 # 1
  BY <1>2 DEF TailOf
<1>4. Outstanding' = Outstanding \ {inbox[1].call.target}
  <2>1. ASSUME NEW a, Awaited(a), a # inbox[1].call.target
        PROVE  Awaited(a)'
    <3>1. CASE \E i \in DOMAIN calls : IsOrder(calls[i]) /\ calls[i].target = a
      BY <1>2, <3>1 DEF Awaited
    <3>2. CASE \E i \in DOMAIN inbox : Counted(inbox[i]) /\ inbox[i].call.target = a
      <4>1. PICK i \in DOMAIN inbox : Counted(inbox[i]) /\ inbox[i].call.target = a
        BY <3>2
      <4>2. i - 1 \in DOMAIN inbox' /\ inbox'[i - 1] = inbox[i]
        BY <1>2, <2>1, <4>1 DEF TailOf
      <4> QED BY <4>1, <4>2 DEF Awaited
    <3> QED BY <2>1, <3>1, <3>2 DEF Awaited
  <2>2. ASSUME NEW a, Awaited(a)'
        PROVE  Awaited(a) /\ a # inbox[1].call.target
    <3>1. CASE \E i \in DOMAIN calls' : IsOrder(calls'[i]) /\ calls'[i].target = a
      BY <1>1, <1>2, <3>1 DEF Awaited, OrdersAreWatched, Counted
    <3>2. CASE \E i \in DOMAIN inbox' : Counted(inbox'[i]) /\ inbox'[i].call.target = a
      BY <1>1, <1>2, <1>3, <3>2 DEF Awaited, OrdersAreWatched, Counted
    <3> QED BY <2>2, <3>1, <3>2 DEF Awaited
  <2> QED BY <2>1, <2>2, OutstandingIsAwaited
<1>5. inbox[1].call.target \in Outstanding
  BY <1>2, OutstandingIsAwaited DEF Awaited
<1>6. Cardinality(Outstanding') = op'.remaining
  BY <1>1, <1>2, <1>4, <1>5, OutstandingTargets, FS_RemoveElement DEF OrdersAreWatched
<1>7. op'.status # "pending" => Outstanding' = {}
  <2>1. IsFiniteSet(Outstanding')
    BY <1>4, OutstandingTargets, FS_RemoveElement
  <2>2. op.remaining \in Nat
    BY <1>2 DEF Op
  <2>3. op'.status # "pending" => op'.remaining = 0
    BY <1>1, <1>2, <2>2 DEF OrdersAreWatched
  <2> QED BY <1>6, <2>1, <2>3, FS_EmptySet
<1>8. ASSUME NEW c, OrderOf(c), op'.status = "pending"
      PROVE  OrderOf(c)'
  BY <1>2, <1>8 DEF OrderOf
<1>9. ASSUME NEW i \in DOMAIN calls', IsOrder(calls'[i])
      PROVE  OrderOf(calls[i])'
  <2>1. Awaited(calls[i].target)
    BY <1>2, <1>9 DEF Awaited
  <2>2. \E a : Awaited(a)'
    BY <1>9 DEF Awaited
  <2>3. op'.status = "pending"
    BY <1>7, <2>2, OutstandingIsAwaited
  <2>4. OrderOf(calls[i])
    BY <1>1, <1>2, <1>9 DEF OrdersAreWatched
  <2> QED BY <1>2, <2>3, <2>4 DEF OrderOf
<1>10. ASSUME NEW i \in DOMAIN inbox', Counted(inbox'[i])
       PROVE  OrderOf(inbox[i].call)'
  <2>1. \E a : Awaited(a)'
    BY <1>10 DEF Awaited
  <2>2. op'.status = "pending"
    BY <1>7, <2>1, OutstandingIsAwaited
  <2>3. OrderOf(inbox[i + 1].call)
    BY <1>1, <1>3, <1>10 DEF OrdersAreWatched, Counted
  <2> QED BY <1>2, <1>3, <2>2, <2>3 DEF OrderOf
<1>11. ASSUME NEW i \in DOMAIN inbox', NEW j \in DOMAIN inbox', Counted(inbox'[i]), Counted(inbox'[j]),
              inbox'[i].call.target = inbox'[j].call.target
       PROVE  i = j
  <2>1. i + 1 = j + 1
    BY <1>1, <1>3, <1>11 DEF OrdersAreWatched, Counted
  <2> QED BY <1>3, <2>1
<1>12. ASSUME NEW i \in DOMAIN inbox', NEW j \in DOMAIN calls', Counted(inbox'[i]), IsOrder(calls'[j])
       PROVE  inbox'[i].call.target # calls'[j].target
  BY <1>1, <1>2, <1>3, <1>12 DEF OrdersAreWatched, Counted
<1>13. \A i, j \in DOMAIN calls' :
           IsOrder(calls'[i]) /\ IsOrder(calls'[j]) /\ calls'[i].target = calls'[j].target => i = j
  BY <1>1, <1>2 DEF OrdersAreWatched
<1>14. op'.status = "pending" =>
           op'.remaining = Cardinality(Outstanding') /\ op'.remaining > 0 /\ op'.epoch > 0
  <2>1. op.remaining \in Nat
    BY <1>2 DEF Op
  <2> QED BY <1>1, <1>2, <1>6, <2>1 DEF OrdersAreWatched
<1> QED BY <1>4, <1>9, <1>10, <1>11, <1>12, <1>13, <1>14 DEF OrdersAreWatched, Counted

\* The user asks for something: then nothing else is outstanding.
LEMMA OrderedWatched ==
    ASSUME IInv, Ordered
    PROVE  /\ OrdersAreWatched'
           /\ \A i \in DOMAIN calls : ~IsOrder(calls[i])
           /\ \A i \in DOMAIN inbox : ~Counted(inbox[i])
           /\ op'.status = "pending" => Outstanding' = ToSet(Targets[op'.kind])
<1>1. OrdersAreWatched /\ interface \in BOOLEAN
  BY Basics DEF IInv
<1>2. /\ \A i \in DOMAIN calls : ~IsOrder(calls[i])
      /\ \A i \in DOMAIN inbox : ~Counted(inbox[i])
  BY <1>1 DEF Ordered, OrdersAreWatched, OrderOf, Counted
<1>3. \A i \in DOMAIN inbox' : ~Counted(inbox'[i])
  BY <1>2 DEF Ordered
<1>4. \A j \in DOMAIN calls' : IsOrder(calls'[j]) => NewCall(j)
  BY <1>2 DEF Ordered, Grows, NewCall, Added
<1>5. op'.status = "pending" => Outstanding' = ToSet(Targets[op'.kind])
  <2> SUFFICES ASSUME op'.status = "pending"
               PROVE  \A a : Awaited(a)' <=> a \in ToSet(Targets[op'.kind])
    BY OutstandingIsAwaited
  <2>1. interface
    BY DEF Ordered
  <2>2. \A a : Awaited(a)' => a \in ToSet(Targets[op'.kind])
    BY <1>3, <1>4 DEF Awaited, Ordered
  <2>3. \A a \in ToSet(Targets[op'.kind]) : Awaited(a)'
    BY <2>1 DEF Awaited, Ordered, NewCall, Added
  <2> QED BY <2>2, <2>3
<1>6. \A i \in DOMAIN calls' : IsOrder(calls'[i]) => OrderOf(calls[i])'
  BY <1>4 DEF Ordered, OrderOf
<1>7. \A i, j \in DOMAIN calls' :
          IsOrder(calls'[i]) /\ IsOrder(calls'[j]) /\ calls'[i].target = calls'[j].target => i = j
  BY <1>4 DEF Ordered
<1>8. op'.status = "pending" =>
          op'.remaining = Cardinality(Outstanding') /\ op'.remaining > 0 /\ op'.epoch > 0
  BY <1>5, ShownAlive DEF Ordered
<1> QED BY <1>2, <1>3, <1>5, <1>6, <1>7, <1>8 DEF OrdersAreWatched, Counted

LEMMA OrdersAreWatchedKept ==
    ASSUME IInv, Next
    PROVE  /\ OrdersAreWatched'
           /\ Outstanding' = Outstanding \/ (Deliver /\ OnOperationReply) \/ Ordered
<1>1. CASE Announced \/ \E t \in Tablet : Signalled(t)
  <2>1. /\ Typed' /\ UNCHANGED <<calls, op>> /\ Grows(inbox', inbox)
        /\ \A j : New(j) => ~Counted(inbox'[j])
    BY <1>1 DEF Announced, Signalled, AppletIdle, Owner, Signal, IsSignal, Counted, IsAnswer
  <2>2. OrdersMoved(0) /\ AnswersMoved(0) /\ OpKept
    BY <2>1, OrdersMove, AnswersMove DEF OpKept
  <2> QED BY <2>1, <2>2, MovedWatched
<1>2. CASE Matched
  <2>1. /\ Typed' /\ UNCHANGED <<inbox, op>> /\ TailOf(calls', calls) /\ ~IsOrder(calls[1])
    BY <1>2 DEF Matched, BusIdle, IsMatch, IsOrder
  <2>2. OrdersMoved(1) /\ AnswersMoved(0) /\ OpKept
    BY <2>1, OrdersMove, AnswersMove DEF OpKept
  <2> QED BY <2>1, <2>2, MovedWatched
<1>3. CASE ProfileGot
  <2>1. Typed' /\ UNCHANGED <<inbox, op>>
    BY <1>3 DEF ProfileGot, BusIdle
  <2>2. OrdersMoved(0) /\ AnswersMoved(0) /\ OpKept
    BY <1>3, <2>1, OrdersMove, AnswersMove DEF OpKept
  <2> QED BY <2>1, <2>2, MovedWatched
<1>4. CASE Served /\ ~IsOrder(calls[1])
  <2>1. /\ Typed' /\ OpKept /\ TailOf(calls', calls) /\ Grows(inbox', inbox)
        /\ \A j : New(j) => ~Counted(inbox'[j])
    BY <1>4 DEF Served, Counted
  <2>2. OrdersMoved(1) /\ AnswersMoved(0)
    BY <1>4, <2>1, OrdersMove, AnswersMove
  <2> QED BY <2>1, <2>2, MovedWatched
<1>5. CASE Served /\ IsOrder(calls[1])
  BY <1>5, OrderServed
<1>6. CASE Renewed
  <2>1. /\ Typed' /\ UNCHANGED op /\ TailOf(inbox', inbox) /\ ~Counted(inbox[1])
        /\ Grows(calls', calls) /\ \A j : NewCall(j) => ~IsOrder(calls'[j])
    BY <1>6, RenewedLifetime DEF Renewed, Received, Owner, Counted, IsAnswer, IsOrder
  <2>2. OrdersMoved(0) /\ AnswersMoved(1) /\ OpKept
    BY <2>1, OrdersMove, AnswersMove DEF OpKept
  <2> QED BY <2>1, <2>2, MovedWatched
<1>7. CASE Deliver /\ Passed /\ ~OnOperationReply
  <2>1. /\ Typed' /\ UNCHANGED op /\ TailOf(inbox', inbox) /\ ~Counted(inbox[1])
        /\ Grows(calls', calls) /\ \A j : NewCall(j) => ~IsOrder(calls'[j])
    BY <1>7, DeliverCounts DEF Passed, Received, IsOrder
  <2>2. OrdersMoved(0) /\ AnswersMoved(1) /\ OpKept
    BY <2>1, OrdersMove, AnswersMove DEF OpKept
  <2> QED BY <2>1, <2>2, MovedWatched
<1>8. CASE Deliver /\ OnOperationReply
  BY <1>8, ReplyCounted
<1>9. CASE Ordered
  BY <1>9, OrderedWatched
<1> QED BY <1>1, <1>2, <1>3, <1>4, <1>5, <1>6, <1>7, <1>8, <1>9, Steps

\* Who takes a call, and puts none at the end.
LEMMA ServedBy ==
    ASSUME IInv, Next, Served
    PROVE  Serve \/ TimesOut
<1>1. /\ Typed /\ Numbered /\ Known /\ RowsAreAlive /\ SourcesAreRows /\ OrdersAreWatched
      /\ calls \in Seq(Call)
  BY Basics DEF IInv
<1>2. ~Grows(calls', calls)
  <2>1. /\ Len(calls) \in Nat /\ DOMAIN calls = 1..Len(calls) /\ Len(calls) >= 1
    BY <1>1 DEF Served, TailOf
  <2>2. Len(calls) \in DOMAIN calls' => Len(calls) + 1 \in DOMAIN calls
    BY DEF Served, TailOf
  <2> QED BY <2>1, <2>2 DEF Grows
<1>3. calls' # calls
  BY <1>1, <1>2 DEF Grows
<1>4. ~Service
  BY <1>3 DEF Service, ServiceStarts, ServiceStops, TabletAppears, TabletDisappears, ProfileChanges,
                ServiceChange
<1>5. ~Deliver
  BY <1>1, <1>2, DeliverSteps DEF Renewed, Passed
<1>6. ASSUME NEW kind \in Operation, NEW t \in Tablet, NEW v \in ValuesOf(kind), Operate(kind, t, v)
      PROVE  FALSE
  BY <1>1, <1>2, <1>6, OperateOrdered DEF Ordered
<1> QED BY <1>4, <1>5, <1>6 DEF Next

\* What becomes of a call of the operation: nothing, for a tablet or a service that is
\* not there; something nobody hears of, when it times out; what it asks for.
NotObeyed ==
    /\ UNCHANGED <<mode, drifted, op>>
    /\ \A j : New(j) /\ inbox'[j].kind = "reply" => calls[1].tablet \notin present
Unheard == timeouts' > 0 /\ UNCHANGED op /\ \A j : New(j) => inbox'[j].kind # "reply"
Obeyed ==
    /\ calls[1] \in Order /\ calls[1].tablet \in present /\ Obeys(calls[1])
    /\ op' = [op EXCEPT !.written = @ \cup {calls[1].target}]

LEMMA OrderSteps ==
    ASSUME IInv, Next, Served, IsOrder(calls[1])
    PROVE  NotObeyed \/ Unheard \/ Obeyed
<1>1. /\ Typed /\ Numbered /\ OrdersAreWatched /\ timeouts \in Nat /\ calls \in Seq(Call)
  BY Basics DEF IInv
<1>2. /\ calls # <<>> /\ Head(calls) = calls[1]
  <2>1. calls # <<>>
    BY <1>1 DEF Served, TailOf
  <2> QED BY <1>1, <2>1, CallTaken
<1>3. CASE ServeBus
  BY <1>2, <1>3 DEF ServeBus, IsOrder
<1>4. CASE ServeGetProfile
  BY <1>2, <1>4 DEF ServeGetProfile, IsOrder
<1>5. CASE ServeRead
  BY <1>2, <1>5 DEF ServeRead, IsOrder
<1>6. CASE ServeOperation
  <2>1. CASE calls[1].tablet \in present
    BY <1>1, <1>6, <2>1, OperationEffect DEF Obeyed
  <2>2. CASE calls[1].tablet \notin present
    BY <1>1, <1>6, <2>2, OperationEffect DEF NotObeyed
  <2> QED BY <2>1, <2>2
<1>7. CASE ServeNobody
  <2>1. BusIdle /\ Answered([kind |-> "error", call |-> calls[1]])
    BY <1>1, <1>7, NobodyEffect
  <2> QED BY <2>1 DEF NotObeyed, BusIdle, serviceVars, Answered, GrowsByOne, New
<1>8. CASE TimesOut
  <2>1. timeouts' > 0 /\ UNCHANGED op /\ Answered([kind |-> "error", call |-> calls[1]])
    BY <1>1, <1>8, TimesOutEffect
  <2> QED BY <2>1 DEF Unheard, Answered, GrowsByOne, New
<1> QED BY <1>3, <1>4, <1>5, <1>6, <1>7, <1>8, ServedBy DEF Serve

\* What is under way of the operation, and what is known of it.
LEMMA Pending ==
    ASSUME IInv, op.status = "pending"
    PROVE  /\ op \in Op /\ op.tablet \in Tablet /\ op.kind \in Operation
           /\ op.epoch \in 1..nextEpoch
<1>1. Typed /\ Numbered /\ OrdersAreWatched /\ op \in Op \cup {NoOp}
  BY DEF IInv, Typed, TypeOK
<1>2. op \in Op
  BY <1>1 DEF NoOp
<1>3. op.epoch \in Nat /\ op.tablet \in Tablet /\ op.kind \in Operation
  BY <1>2 DEF Op
<1> QED BY <1>1, <1>2, <1>3, Basics DEF Numbered, OrdersAreWatched

LEMMA WrittenGrows ==
    ASSUME IInv, Next, ~Ordered
    PROVE  /\ op.status = "pending" => op.written \subseteq op'.written /\ op'.kind = op.kind
           /\ op'.status = "pending" =>
                  /\ op.status = "pending" /\ op'.gen = op.gen /\ op'.epoch = op.epoch
                  /\ op'.tablet = op.tablet /\ (op.failed => op'.failed)
<1>1. /\ Typed /\ OrdersAreWatched
  BY DEF IInv
<1>2. CASE UNCHANGED op
  BY <1>2
<1>3. CASE Served
  <2>1. CASE IsOrder(calls[1])
    <3>1. OpKept /\ 1 \in DOMAIN calls
      BY <1>3 DEF Served, TailOf
    <3>2. op.status = "pending"
      BY <1>1, <2>1, <3>1 DEF OrdersAreWatched, OrderOf
    <3>3. op.written \subseteq op'.written
      <4>1. CASE op' = op
        BY <4>1
      <4>2. CASE Obeyed
        BY <3>2, <4>2, Pending DEF Obeyed, Op
      <4> QED BY <1>3, <2>1, <4>1, <4>2, OrderSteps DEF NotObeyed, Unheard
    <3> QED BY <3>1, <3>3 DEF OpKept
  <2>2. CASE ~IsOrder(calls[1])
    BY <1>2, <1>3, <2>2 DEF Served
  <2> QED BY <2>1, <2>2
<1>4. CASE Deliver /\ Passed
  <2>1. CASE OnOperationReply
    BY <1>1, <2>1, OperationReplyEffect
  <2> QED BY <1>2, <1>4, <2>1, DeliverCounts
<1> QED BY <1>2, <1>3, <1>4, RenewedLifetime, Steps
        DEF Announced, Signalled, AppletIdle, Matched, ProfileGot, BusIdle

LEMMA DoneIsWrittenKept ==
    ASSUME IInv, Next
    PROVE  DoneIsWritten'
<1>1. /\ DoneIsWritten /\ OrdersAreWatched /\ OrdersAreWatched' /\ Typed
      /\ nextEpoch \in Nat /\ inbox \in Seq(Message)
  BY Basics, OrdersAreWatchedKept DEF IInv
<1>2. CASE Ordered
  <2>1. op'.status = "pending" => Outstanding' = ToSet(Targets[op'.kind])
    BY <1>2, OrderedWatched
  <2>2. \A i \in DOMAIN inbox' : ~Counted(inbox'[i])
    BY <1>2, OrderedWatched DEF Ordered
  <2> QED BY <2>1, <2>2 DEF DoneIsWritten, Counted, IsAnswer
<1>3. ASSUME ~Ordered, op'.status = "pending", ThisEpoch(op)'
      PROVE  op.status = "pending" /\ ThisEpoch(op) /\ op'.tablet = op.tablet /\ epochs'[op.tablet] > 0
  <2>1. op.status = "pending" /\ op'.gen = op.gen /\ op'.epoch = op.epoch /\ op'.tablet = op.tablet
    BY <1>3, WrittenGrows
  <2>2. op.tablet \in Tablet /\ op.epoch \in 1..nextEpoch
    BY <2>1, Pending
  <2> QED BY <1>1, <1>3, <2>1, <2>2, NoRevival DEF ThisEpoch, ThisGeneration
<1>4. ASSUME ~Ordered, op'.status = "pending", ThisEpoch(op)', ~op'.failed
      PROVE  ToSet(Targets[op'.kind]) \subseteq op'.written \cup Outstanding'
  <2>1. /\ op.status = "pending" /\ ThisEpoch(op) /\ ~op.failed /\ op'.kind = op.kind
        /\ op.written \subseteq op'.written
    BY <1>3, <1>4, WrittenGrows
  <2>2. ToSet(Targets[op.kind]) \subseteq op.written \cup Outstanding
    BY <1>1, <2>1 DEF DoneIsWritten
  <2>3. CASE Outstanding' = Outstanding
    BY <2>1, <2>2, <2>3
  <2>4. CASE Deliver /\ OnOperationReply
    <3>1. /\ 1 \in DOMAIN inbox /\ Counted(inbox[1]) /\ inbox[1].kind # "error"
      BY <1>1, <1>4, <2>4, OperationReplyEffect DEF Received, TailOf, Counted
    <3>2. ~EndsBefore(1, op.tablet)
      BY DEF EndsBefore
    <3>3. inbox[1].call.target \in op.written
      BY <1>1, <2>1, <3>1, <3>2 DEF DoneIsWritten, Counted, IsAnswer
    <3> QED BY <2>1, <2>2, <2>4, <3>3, ReplyCounted
  <2> QED BY <1>4, <2>3, <2>4, OrdersAreWatchedKept
<1>5. ASSUME ~Ordered, NEW i \in DOMAIN inbox', inbox'[i].kind = "reply", IsOrder(inbox'[i].call),
             ThisEpoch(op)'
      PROVE  inbox'[i].call.target \in op'.written \/ EndsBefore(i, op.tablet)'
  <2>1. op'.status = "pending"
    BY <1>1, <1>5 DEF OrdersAreWatched, OrderOf, IsAnswer
  <2>2. /\ op.status = "pending" /\ ThisEpoch(op) /\ op'.tablet = op.tablet /\ epochs'[op.tablet] > 0
        /\ op.written \subseteq op'.written /\ op.tablet \in Tablet
    BY <1>3, <1>5, <2>1, WrittenGrows, Pending
  <2>3. PICK t : t = op.tablet
    OBVIOUS
  <2>4. SUFFICES inbox'[i].call.target \in op'.written \/ EndsBefore(i, t)'
    BY <2>2, <2>3
  <2>5. ASSUME i \in DOMAIN inbox, inbox'[i] = inbox[i]
        PROVE  inbox'[i].call.target \in op'.written \/ EndsBefore(i, t)
    BY <1>1, <1>5, <2>2, <2>3, <2>5 DEF DoneIsWritten
  <2>6. CASE UNCHANGED <<inbox, generation>>
    BY <2>5, <2>6 DEF EndsBefore, Removes, Owner
  <2>7. CASE Announced \/ \E u \in Tablet : Signalled(u)
    <3>1. /\ Grows(inbox', inbox) /\ UNCHANGED generation
          /\ \A j : New(j) => ~IsAnswer(inbox'[j])
      BY <2>7 DEF Announced, Signalled, AppletIdle, modelVars, Owner, Signal, IsSignal, IsAnswer
    <3>2. i \in DOMAIN inbox /\ inbox'[i] = inbox[i]
      BY <1>5, <3>1 DEF New, Added, Grows, IsAnswer
    <3> QED BY <2>5, <3>1, <3>2, EndsBeforeGrows
  <2>8. CASE Served
    <3>1. Grows(inbox', inbox) /\ UNCHANGED <<generation, epochs>> /\ 1 \in DOMAIN calls
      BY <2>8 DEF Served, modelVars, TailOf
    <3>2. CASE i \in DOMAIN inbox
      BY <2>5, <3>1, <3>2, EndsBeforeGrows DEF Grows
    <3>3. CASE i \notin DOMAIN inbox
      <4>1. New(i) /\ inbox'[i].call = calls[1] /\ IsOrder(calls[1])
        BY <1>5, <2>8, <3>3 DEF Served, New, Added, Signal, IsSignal, IsAnswer
      <4>2. calls[1].tablet = t
        BY <1>1, <2>3, <3>1, <4>1 DEF OrdersAreWatched, OrderOf
      <4>3. CASE t \in present
        <5>1. Obeyed
          BY <1>5, <2>8, <4>1, <4>2, <4>3, OrderSteps DEF NotObeyed, Unheard
        <5>2. op \in Op
          BY <2>2, Pending
        <5>3. op'.written = op.written \cup {calls[1].target}
          BY <5>1, <5>2 DEF Obeyed, Op
        <5> QED BY <4>1, <5>3
      <4>4. CASE t \notin present
        <5>1. epochs[t] > 0 /\ t \in Tablet
          BY <2>2, <2>3, <3>1
        <5> QED BY <3>1, <4>1, <4>4, <5>1, EndsBeforeNew
      <4> QED BY <4>3, <4>4
    <3> QED BY <3>2, <3>3
  <2>9. CASE Renewed
    BY <1>1, <2>2, <2>9, RenewedLifetime
  <2>10. CASE Deliver /\ Passed
    <3>1. i + 1 \in DOMAIN inbox /\ inbox'[i] = inbox[i + 1]
      BY <2>10 DEF Passed, Received, TailOf
    <3>2. inbox'[i].call.target \in op'.written \/ EndsBefore(i + 1, t)
      BY <1>1, <1>5, <2>2, <2>3, <3>1 DEF DoneIsWritten
    <3> QED BY <2>2, <2>3, <2>10, <3>2, EndsBeforeKept
  <2> QED BY <1>5, <2>6, <2>7, <2>8, <2>9, <2>10, Steps
        DEF Matched, ProfileGot, BusIdle, modelVars
<1>6. CASE ~Ordered
  <2>1. \A i \in DOMAIN inbox' :
            inbox'[i].kind = "reply" /\ IsOrder(inbox'[i].call) /\ ThisEpoch(op)' =>
                inbox'[i].call.target \in op'.written \/ EndsBefore(i, op.tablet)'
    BY <1>5, <1>6
  <2>2. op'.status = "pending" /\ ThisEpoch(op)' /\ ~op'.failed =>
            ToSet(Targets[op'.kind]) \subseteq op'.written \cup Outstanding'
    BY <1>4, <1>6
  <2> QED BY <2>1, <2>2 DEF DoneIsWritten
<1> QED BY <1>2, <1>6

\* What becomes of the rows when a message is delivered: nothing, one more, one less, or
\* one that is another.
RowAdded ==
    \E row \in Row :
        /\ Inserted(row) /\ row.id \notin Shown
        /\ inbox[1].kind = "reply" /\ inbox[1].call.kind = "getProperty"
        /\ ThisEpoch(inbox[1].call) /\ row.id = inbox[1].call.tablet
        /\ row.mode = inbox[1].value["stylus"] /\ row.touch = inbox[1].value["touch"]
RowRemoved == \E t \in Tablet : Dropped(t) /\ Removes(inbox[1], t)
RowsStay == interface => \A t : ~Removes(inbox[1], t)
RowStep ==
    \/ UNCHANGED <<rows, sources>> /\ RowsStay
    \/ RowAdded
    \/ RowRemoved
    \/ /\ RowsStay
       /\ \E k, row : /\ RowChanged(k, row)
                      /\ \/ OnOperationReply
                         \/ row.mode = rows[k].mode /\ row.touch = rows[k].touch

LEMMA DeliverRows ==
    ASSUME IInv, Deliver, Passed
    PROVE  RowStep
<1>1. /\ Typed /\ Numbered /\ Known /\ RowsAreAlive /\ SourcesAreRows /\ OrdersAreWatched
  BY DEF IInv
<1>2. inbox[1].kind # "tabletRemoved" => RowsStay
  BY DEF RowsStay, Removes
<1>3. CASE OnOwnerChanged
  BY <1>1, <1>3, OwnerChangedEffect DEF Passed
<1>4. CASE OnNameHasOwner
  BY <1>1, <1>2, <1>4, NameHasOwnerEffect DEF Passed, Registers, modelVars, RowStep
<1>5. CASE OnTabletList
  BY <1>1, <1>2, <1>5, TabletListEffect DEF DiscoverIdle, RowStep
<1>6. CASE OnTabletAdded
  BY <1>1, <1>2, <1>6, TabletAddedEffect DEF DiscoverIdle, RowStep
<1>7. CASE OnIsTouchSensor
  BY <1>1, <1>2, <1>7, IsTouchSensorEffect DEF modelVars, RowStep
<1>8. CASE OnTabletData
  <2>1. inbox[1].kind = "reply" /\ inbox[1].call.kind = "getProperty"
    BY <1>1, <1>8, TabletDataEffect
  <2>2. CASE ThisEpoch(inbox[1].call) /\ inbox[1].call.tablet \notin Shown
    <3>1. PICK row \in Row :
              /\ Inserted(row) /\ row.id = inbox[1].call.tablet
              /\ row.mode = inbox[1].value["stylus"] /\ row.touch = inbox[1].value["touch"]
      BY <1>1, <1>8, <2>2, TabletDataEffect
    <3>2. RowAdded
      BY <2>1, <2>2, <3>1 DEF RowAdded
    <3> QED BY <3>2 DEF RowStep
  <2>3. CASE ~(ThisEpoch(inbox[1].call) /\ inbox[1].call.tablet \notin Shown)
    BY <1>1, <1>2, <1>8, <2>1, <2>3, TabletDataEffect DEF RowStep
  <2> QED BY <2>2, <2>3
<1>9. CASE OnError
  BY <1>1, <1>2, <1>9, OnErrorEffect DEF RowStep
<1>10. CASE OnTabletRemoved
  BY <1>1, <1>10, TabletRemovedEffect DEF RowStep, RowRemoved, RowsStay, Removes
<1>11. CASE OnProfileChanged
  BY <1>1, <1>2, <1>11, ProfileChangedEffect DEF RowStep
<1>12. CASE OnOperationReply
  <2>1. IsAnswer(inbox[1])
    BY <1>1, <1>12, OperationReplyEffect
  <2>2. RowsStay
    BY <1>2, <2>1 DEF IsAnswer
  <2>3. (\E k, row : RowChanged(k, row)) \/ UNCHANGED <<rows, sources>>
    BY <1>1, <1>12, OperationReplyEffect
  <2>4. CASE \E k, row : RowChanged(k, row)
    <3>1. PICK k, row : RowChanged(k, row)
      BY <2>4
    <3>2. RowChanged(k, row) /\ (OnOperationReply \/ (row.mode = rows[k].mode /\ row.touch = rows[k].touch))
      BY <1>12, <3>1
    <3> QED BY <2>2, <3>2 DEF RowStep
  <2> QED BY <2>2, <2>3, <2>4 DEF RowStep
<1> QED BY <1>3, <1>4, <1>5, <1>6, <1>7, <1>8, <1>9, <1>10, <1>11, <1>12 DEF Deliver

\* A tablet that is shown keeps its lifetime until it is shown no more.
LEMMA ShownLives ==
    ASSUME IInv, Deliver, Passed, NEW t \in Shown'
    PROVE  /\ t \in Tablet /\ interface' /\ epochs'[t] > 0 /\ epochs'[t] = epochs[t]
           /\ \/ t \in Shown
              \/ /\ inbox[1].kind = "reply" /\ inbox[1].call.kind = "getProperty"
                 /\ inbox[1].call.tablet = t /\ ThisEpoch(inbox[1].call)
<1>1. /\ AskedOnce /\ UNCHANGED interface /\ nextEpoch \in Nat /\ 1 \in DOMAIN inbox
      /\ epochs \in [Tablet -> 0..nextEpoch]
  BY Basics DEF IInv, Passed, Received, TailOf
<1>2. CASE t \in Shown
  <2>1. t \in Tablet /\ interface /\ epochs[t] > 0
    BY <1>2, ShownAlive
  <2>2. Told(t)
    BY <2>1, DeliverTold
  <2>3. ~Removes(inbox[1], t)
    <3> SUFFICES ASSUME Removes(inbox[1], t)
                 PROVE  FALSE
      OBVIOUS
    <3>1. RowRemoved
      BY <2>1, DeliverRows DEF RowStep, RowsStay, RowAdded, Removes
    <3>2. PICK u \in Tablet : Dropped(u) /\ Removes(inbox[1], u)
      BY <3>1 DEF RowRemoved
    <3> QED BY <3>2, DroppedShown DEF Removes
  <2>4. ~(inbox[1].kind = "error" /\ Asks(inbox[1].call) /\ ThisEpoch(inbox[1].call)
          /\ inbox[1].call.tablet = t)
    BY <1>1, <1>2 DEF AskedOnce, ThisEpoch, IsAnswer
  <2>5. epochs'[t] = epochs[t]
    BY <2>1, <2>2, <2>3, <2>4 DEF Told
  <2> QED BY <1>1, <1>2, <2>1, <2>5
<1>3. CASE t \notin Shown
  <2>1. /\ inbox[1].kind = "reply" /\ inbox[1].call.kind = "getProperty"
        /\ inbox[1].call.tablet = t /\ ThisEpoch(inbox[1].call)
    BY <1>3, DeliverShowing DEF Showing
  <2>2. t \in Tablet /\ epochs[t] > 0
    BY <1>1, <2>1, Questions DEF IsAnswer, Asks, ThisEpoch
  <2>3. interface
    BY <2>2, AliveServed
  <2>4. Told(t)
    BY <2>2, <2>3, DeliverTold
  <2>5. epochs'[t] = epochs[t]
    BY <2>1, <2>4 DEF Told, Brings, Removes
  <2> QED BY <1>1, <2>1, <2>2, <2>3, <2>5
<1> QED BY <1>2, <1>3

LEMMA RowsAreAliveKept ==
    ASSUME IInv, Next
    PROVE  RowsAreAlive'
<1>1. RowsAreAlive
  BY DEF IInv
<1>2. CASE UNCHANGED <<rows, epochs, interface>>
  BY <1>1, <1>2 DEF RowsAreAlive
<1>3. CASE Renewed
  BY <1>3, RenewedLifetime DEF RowsAreAlive
<1>4. CASE Deliver /\ Passed
  <2>1. \A i \in DOMAIN rows' : interface' /\ epochs'[rows'[i].id] > 0
    <3>1. \A i \in DOMAIN rows' : rows'[i].id \in Shown'
      BY DEF Shown
    <3> QED BY <1>4, <3>1, ShownLives
  <2>2. \A i, j \in DOMAIN rows' : rows'[i].id = rows'[j].id => i = j
    <3>1. CASE UNCHANGED rows
      BY <1>1, <3>1 DEF RowsAreAlive
    <3>2. CASE RowAdded
      <4>1. PICK row : GrowsByOne(rows', rows, row) /\ row.id \notin Shown
        BY <3>2 DEF RowAdded, Inserted
      <4>2. \A i \in DOMAIN rows' : (i \in DOMAIN rows /\ rows'[i] = rows[i] /\ rows[i].id \in Shown)
                                    \/ (i \in Added(rows', rows) /\ rows'[i] = row)
        BY <4>1 DEF GrowsByOne, Grows, Added, Shown
      <4> QED BY <1>1, <4>1, <4>2 DEF RowsAreAlive, GrowsByOne
    <3>3. CASE RowRemoved
      BY <3>3 DEF RowRemoved, Dropped
    <3>4. CASE \E k, row : RowChanged(k, row)
      <4>1. PICK k, row : RowChanged(k, row)
        BY <3>4
      <4>2. DOMAIN rows' = DOMAIN rows /\ \A i \in DOMAIN rows : rows'[i].id = rows[i].id
        BY <4>1 DEF RowChanged
      <4> QED BY <1>1, <4>2 DEF RowsAreAlive
    <3> QED BY <1>4, <3>1, <3>2, <3>3, <3>4, DeliverRows DEF RowStep
  <2> QED BY <2>1, <2>2 DEF RowsAreAlive
<1> QED BY <1>2, <1>3, <1>4, Steps
        DEF Announced, Signalled, AppletIdle, Matched, ProfileGot, BusIdle, Served, Ordered, modelVars

LEMMA SourcesAreRowsKept ==
    ASSUME IInv, Next
    PROVE  SourcesAreRows'
<1>1. /\ SourcesAreRows /\ RowsAreAlive /\ sources \in [Tablet -> Row \cup {NoSource}]
      /\ rows \in Seq(Row)
  BY DEF IInv, Typed, TypeOK
<1>2. CASE UNCHANGED <<rows, sources>>
  BY <1>1, <1>2 DEF SourcesAreRows, Shown
<1>3. CASE Renewed
  BY <1>1, <1>3 DEF Renewed, Cleared, SourcesAreRows, Shown
<1>4. \A i \in DOMAIN rows : rows[i].id \in Tablet
  <2>1. \A i \in DOMAIN rows : rows[i] \in Row
    BY <1>1
  <2> QED BY <2>1 DEF Row
<1>5. CASE Deliver /\ Passed
  <2>1. CASE RowAdded
    <3>1. PICK row \in Row : Inserted(row) /\ row.id \notin Shown
      BY <2>1 DEF RowAdded
    <3>2. /\ row.id \in Tablet /\ Shown' = Shown \cup {row.id}
          /\ sources' = [sources EXCEPT ![row.id] = row]
      BY <3>1, InsertedShown DEF Inserted, Row
    <3>3. \A i \in DOMAIN rows' : (i \in DOMAIN rows /\ rows'[i] = rows[i] /\ rows[i].id \in Shown)
                                  \/ rows'[i] = row
      BY <3>1 DEF Inserted, GrowsByOne, Grows, Added, Shown
    <3>4. \A i \in DOMAIN rows : rows[i].id \in Tablet
      BY <1>4
    <3>5. \A i \in DOMAIN rows' : sources'[rows'[i].id] = rows'[i]
      BY <1>1, <3>1, <3>2, <3>3, <3>4 DEF SourcesAreRows
    <3>6. \A t \in Tablet \ Shown' : sources'[t] = NoSource
      BY <1>1, <3>2 DEF SourcesAreRows
    <3> QED BY <3>5, <3>6 DEF SourcesAreRows
  <2>2. CASE RowRemoved
    <3>1. PICK t \in Tablet : Dropped(t)
      BY <2>2 DEF RowRemoved
    <3>2. Shown' = Shown \ {t} /\ sources' = [sources EXCEPT ![t] = NoSource]
      BY <3>1, DroppedShown DEF Dropped
    <3>3. \A i \in DOMAIN rows : rows[i].id \in Tablet
      BY <1>4
    <3>4. \A i \in DOMAIN rows' : sources'[rows'[i].id] = rows'[i]
      BY <1>1, <3>1, <3>2, <3>3 DEF SourcesAreRows, Dropped
    <3>5. \A u \in Tablet \ Shown' : sources'[u] = NoSource
      BY <1>1, <3>2 DEF SourcesAreRows
    <3> QED BY <3>4, <3>5 DEF SourcesAreRows
  <2>3. CASE \E k, row : RowChanged(k, row)
    <3>1. PICK k, row : RowChanged(k, row)
      BY <2>3
    <3>2. Shown' = Shown /\ row.id \in Shown /\ sources' = [sources EXCEPT ![row.id] = row]
      BY <3>1, ChangedShown DEF RowChanged, Shown
    <3>3. \A i \in DOMAIN rows : rows[i].id \in Tablet
      BY <1>4
    <3>4. \A i \in DOMAIN rows' : sources'[rows'[i].id] = rows'[i]
      BY <1>1, <3>1, <3>2, <3>3 DEF SourcesAreRows, RowsAreAlive, RowChanged
    <3>5. \A u \in Tablet \ Shown' : sources'[u] = NoSource
      BY <1>1, <3>2 DEF SourcesAreRows
    <3> QED BY <3>4, <3>5 DEF SourcesAreRows
  <2> QED BY <1>2, <1>5, <2>1, <2>2, <2>3, DeliverRows DEF RowStep
<1> QED BY <1>2, <1>3, <1>5, Steps
        DEF Announced, Signalled, AppletIdle, Matched, ProfileGot, BusIdle, Served, Ordered, modelVars

LEMMA OrdersComeFirstKept ==
    ASSUME IInv, Next
    PROVE  OrdersComeFirst'
<1>1. /\ OrdersComeFirst /\ OrdersAreWatched /\ OrdersAreWatched' /\ AskedOnce
      /\ calls \in Seq(Call) /\ inbox \in Seq(Message) /\ interface \in BOOLEAN
      /\ nextEpoch \in Nat
  BY Basics, OrdersAreWatchedKept DEF IInv
<1> DEFINE Live(c) == Asks(c) /\ c.gen = generation' /\ epochs'[c.tablet] = c.epoch
           First == \A i, j \in DOMAIN calls' :
                        Live(calls'[i]) /\ IsOrder(calls'[j]) /\ i < j =>
                            calls'[j].tablet # calls'[i].tablet
           FirstAnswered == \A i \in DOMAIN inbox', j \in DOMAIN calls' :
                        IsAnswer(inbox'[i]) /\ Live(inbox'[i].call) /\ IsOrder(calls'[j]) =>
                            calls'[j].tablet # inbox'[i].call.tablet
           Follows == \A j \in DOMAIN calls' :
                        IsOrder(calls'[j]) /\ calls'[j].tablet \in Shown' => ThisEpoch(op)'
<1>2. SUFFICES First /\ FirstAnswered /\ Follows
  BY DEF OrdersComeFirst, ThisEpoch, ThisGeneration
\* What is asked of a lifetime that goes on was asked of it before.
<1>3. \A i \in DOMAIN calls : Live(calls[i]) => Asks(calls[i]) /\ ThisEpoch(calls[i])
  BY Questions, NoRevival DEF ThisEpoch, ThisGeneration
<1>4. \A i \in DOMAIN inbox : IsAnswer(inbox[i]) /\ Live(inbox[i].call) =>
          Asks(inbox[i].call) /\ ThisEpoch(inbox[i].call)
  BY Questions, NoRevival DEF ThisEpoch, ThisGeneration
<1>5. /\ \A i, j \in DOMAIN calls : Live(calls[i]) /\ IsOrder(calls[j]) /\ i < j =>
             calls[j].tablet # calls[i].tablet
      /\ \A i \in DOMAIN inbox, j \in DOMAIN calls :
             IsAnswer(inbox[i]) /\ Live(inbox[i].call) /\ IsOrder(calls[j]) =>
                 calls[j].tablet # inbox[i].call.tablet
  BY <1>1, <1>3, <1>4 DEF OrdersComeFirst
<1> HIDE DEF Live
<1>6. CASE Announced \/ \E t \in Tablet : Signalled(t)
  <2>1. /\ UNCHANGED <<calls, op, epochs, rows, generation>> /\ Grows(inbox', inbox)
        /\ \A j : New(j) => ~IsAnswer(inbox'[j])
    BY <1>6 DEF Announced, Signalled, AppletIdle, modelVars, Owner, Signal, IsSignal, IsAnswer
  <2>2. \A i \in DOMAIN inbox' : IsAnswer(inbox'[i]) => i \in DOMAIN inbox /\ inbox'[i] = inbox[i]
    BY <2>1 DEF New, Added, Grows
  <2>3. Follows
    BY <1>1, <2>1 DEF OrdersComeFirst, Shown, ThisEpoch, ThisGeneration
  <2> QED BY <1>2, <1>5, <2>1, <2>2, <2>3
<1>7. CASE Matched \/ (Served /\ ~IsOrder(calls[1]))
  <2>1. /\ UNCHANGED <<epochs, rows, generation, op>> /\ TailOf(calls', calls) /\ Grows(inbox', inbox)
        /\ \A j : New(j) /\ IsAnswer(inbox'[j]) => inbox'[j].call = calls[1]
    <3>1. CASE Matched
      BY <1>1, <3>1 DEF Matched, BusIdle, modelVars, Grows, New, Added
    <3>2. CASE Served /\ ~IsOrder(calls[1])
      BY <3>2 DEF Served, modelVars, Signal, IsSignal, IsAnswer
    <3> QED BY <1>7, <3>1, <3>2
  <2>2. \A i \in DOMAIN calls' : i \in Nat /\ i + 1 \in DOMAIN calls /\ calls'[i] = calls[i + 1] /\ 1 < i + 1
    BY <2>1 DEF TailOf
  <2>3. First
    BY <1>5, <2>2
  <2>4. \A i \in DOMAIN inbox' : IsAnswer(inbox'[i]) =>
            (i \in DOMAIN inbox /\ inbox'[i] = inbox[i]) \/ inbox'[i].call = calls[1]
    BY <2>1 DEF New, Added, Grows
  <2>5. 1 \in DOMAIN calls
    BY <2>1 DEF TailOf
  <2>6. FirstAnswered
    BY <1>5, <2>2, <2>4, <2>5
  <2>7. Follows
    BY <1>1, <2>1, <2>2 DEF OrdersComeFirst, Shown, ThisEpoch, ThisGeneration
  <2> QED BY <1>2, <2>3, <2>6, <2>7
<1>8. CASE Served /\ IsOrder(calls[1])
  <2>1. /\ UNCHANGED <<epochs, rows, generation>> /\ TailOf(calls', calls) /\ Grows(inbox', inbox)
        /\ OpKept
        /\ \A j : New(j) /\ IsAnswer(inbox'[j]) => inbox'[j].call = calls[1]
    BY <1>8 DEF Served, modelVars, Signal, IsSignal, IsAnswer
  <2>2. \A i \in DOMAIN calls' : i \in Nat /\ i + 1 \in DOMAIN calls /\ calls'[i] = calls[i + 1] /\ 1 < i + 1
    BY <2>1 DEF TailOf
  <2>3. First
    BY <1>5, <2>2
  <2>4. \A i \in DOMAIN inbox' : IsAnswer(inbox'[i]) /\ Live(inbox'[i].call) =>
            i \in DOMAIN inbox /\ inbox'[i] = inbox[i]
    BY <1>8, <2>1 DEF New, Added, Grows, Live, Asks, IsOrder
  <2>5. FirstAnswered
    BY <1>5, <2>2, <2>4
  <2>6. Follows
    BY <1>1, <2>1, <2>2 DEF OrdersComeFirst, Shown, ThisEpoch, ThisGeneration, OpKept
  <2> QED BY <1>2, <2>3, <2>5, <2>6
<1>9. CASE ProfileGot
  <2>1. UNCHANGED <<inbox, epochs, rows, generation, op>>
    BY <1>9 DEF ProfileGot, BusIdle, modelVars
  <2>2. \A i \in DOMAIN calls' :
            /\ i \in DOMAIN calls /\ calls'[i].tablet = calls[i].tablet
            /\ IsOrder(calls'[i]) => IsOrder(calls[i])
            /\ Live(calls'[i]) => Live(calls[i])
    BY <1>9 DEF ProfileGot, IsOrder, Live, Asks
  <2>3. Follows
    BY <1>1, <2>1, <2>2 DEF OrdersComeFirst, Shown, ThisEpoch, ThisGeneration
  <2> QED BY <1>2, <1>5, <2>1, <2>2, <2>3
<1>10. CASE Renewed
  <2>1. /\ TailOf(inbox', inbox) /\ (\A t \in Tablet : epochs'[t] = 0) /\ rows' = <<>>
        /\ Grows(calls', calls) /\ \A j : NewCall(j) => ~Asks(calls'[j])
    BY <1>10, RenewedLifetime DEF Renewed, Received
  <2>2. \A i \in DOMAIN calls' : ~Live(calls'[i])
    <3>1. \A i \in DOMAIN calls' : Asks(calls'[i]) => i \in DOMAIN calls /\ calls'[i] = calls[i]
      BY <2>1 DEF NewCall, Added, Grows
    <3>2. \A i \in DOMAIN calls : ~Live(calls[i])
      BY <1>1, <2>1, Questions DEF Live
    <3> QED BY <3>1, <3>2 DEF Live
  <2>3. \A i \in DOMAIN inbox' : ~(IsAnswer(inbox'[i]) /\ Live(inbox'[i].call))
    <3>1. \A i \in DOMAIN inbox : ~(IsAnswer(inbox[i]) /\ Live(inbox[i].call))
      BY <1>1, <2>1, Questions DEF Live
    <3> QED BY <2>1, <3>1 DEF TailOf
  <2>4. Shown' = {}
    BY <2>1 DEF Shown
  <2> QED BY <1>2, <2>2, <2>3, <2>4
<1>11. CASE Deliver /\ Passed
  <2>1. /\ TailOf(inbox', inbox) /\ Grows(calls', calls) /\ UNCHANGED generation /\ 1 \in DOMAIN inbox
        /\ \A j : NewCall(j) => ~IsOrder(calls'[j])
    BY <1>11 DEF Passed, Received, IsOrder, TailOf
  <2>2. \A i \in DOMAIN calls' : IsOrder(calls'[i]) => i \in DOMAIN calls /\ calls'[i] = calls[i]
    BY <2>1 DEF NewCall, Added, Grows
  <2>3. First
    <3>1. ASSUME NEW i \in DOMAIN calls', NEW j \in DOMAIN calls', IsOrder(calls'[j]), i < j
          PROVE  i \in DOMAIN calls /\ calls'[i] = calls[i]
      <4>1. j \in DOMAIN calls
        BY <2>2, <3>1
      <4>2. i \in Nat /\ i >= 1 /\ j \in Nat
        BY <2>1, <3>1 DEF Grows
      <4>3. i \in DOMAIN calls
        BY <1>1, <3>1, <4>1, <4>2
      <4> QED BY <2>1, <4>3 DEF Grows
    <3> QED BY <1>5, <2>2, <3>1
  <2>4. FirstAnswered
    BY <1>5, <2>1, <2>2 DEF TailOf
  <2>5. ASSUME NEW j \in DOMAIN calls', IsOrder(calls'[j]), calls'[j].tablet \in Shown'
        PROVE  ThisEpoch(op)'
    <3>1. PICK t : t = calls'[j].tablet
      OBVIOUS
    <3>2. j \in DOMAIN calls /\ calls[j].tablet = t /\ IsOrder(calls[j])
      BY <2>2, <2>5, <3>1
    <3>3. epochs'[t] = epochs[t]
      BY <1>11, <2>5, <3>1, ShownLives
    <3>4. t \in Shown
      <4> SUFFICES ASSUME t \notin Shown
                   PROVE  FALSE
        OBVIOUS
      <4>1. /\ inbox[1].kind = "reply" /\ inbox[1].call.kind = "getProperty"
            /\ inbox[1].call.tablet = t /\ ThisEpoch(inbox[1].call)
        BY <1>11, <2>5, <3>1, ShownLives
      <4> QED BY <1>1, <2>1, <3>2, <4>1 DEF OrdersComeFirst, IsAnswer, Asks
    <3>5. ThisEpoch(op) /\ op.tablet = t
      BY <1>1, <3>2, <3>4 DEF OrdersComeFirst, OrdersAreWatched, OrderOf
    <3>6. op'.status = "pending"
      BY <1>1, <2>5 DEF OrdersAreWatched, OrderOf
    <3>7. ~Ordered
      BY <1>1, <3>2 DEF Ordered, OrdersAreWatched, OrderOf
    <3>8. op'.gen = op.gen /\ op'.epoch = op.epoch /\ op'.tablet = op.tablet
      BY <3>6, <3>7, WrittenGrows
    <3> QED BY <2>1, <3>3, <3>5, <3>8 DEF ThisEpoch, ThisGeneration
  <2> QED BY <1>2, <2>3, <2>4, <2>5
<1>12. CASE Ordered
  <2>1. /\ UNCHANGED <<inbox, epochs, rows, generation>> /\ Grows(calls', calls)
        /\ op'.gen = generation /\ op'.epoch = epochs[op'.tablet]
        /\ interface => op'.tablet \in Shown
    BY <1>12 DEF Ordered, modelVars
  <2>2. \A j \in DOMAIN calls' : IsOrder(calls'[j]) => interface /\ calls'[j].tablet = op'.tablet
    <3>1. \A j \in DOMAIN calls' : IsOrder(calls'[j]) => NewCall(j)
      BY <1>12, <2>1, OrderedWatched DEF NewCall, Added, Grows
    <3> QED BY <1>12, <3>1 DEF Ordered
  <2>3. \A i \in DOMAIN calls' : Live(calls'[i]) => calls'[i].tablet \notin Shown
    <3>1. \A i \in DOMAIN calls' : Live(calls'[i]) => i \in DOMAIN calls /\ calls'[i] = calls[i]
      BY <1>12, <2>1 DEF NewCall, Added, Grows, Ordered, Live, Asks, IsOrder
    <3> QED BY <1>1, <1>3, <3>1 DEF AskedOnce, ThisEpoch
  <2>4. \A i \in DOMAIN inbox' : IsAnswer(inbox'[i]) /\ Live(inbox'[i].call) =>
            inbox'[i].call.tablet \notin Shown
    BY <1>1, <1>4, <2>1 DEF AskedOnce, ThisEpoch
  <2>5. ThisEpoch(op)'
    BY <2>1 DEF ThisEpoch, ThisGeneration
  <2> QED BY <1>2, <2>1, <2>2, <2>3, <2>4, <2>5
<1> QED BY <1>6, <1>7, <1>8, <1>9, <1>10, <1>11, <1>12, Steps

LEMMA SuccessIsRealKept ==
    ASSUME IInv, Next
    PROVE  SuccessIsReal'
<1>1. SuccessIsReal /\ DoneIsWritten /\ OrdersAreWatched /\ Typed
  BY DEF IInv
<1>2. CASE UNCHANGED op
  BY <1>1, <1>2 DEF SuccessIsReal
<1>3. CASE Served
  <2>1. CASE IsOrder(calls[1])
    <3>1. op.status = "pending" /\ op'.status = op.status
      BY <1>1, <1>3, <2>1 DEF Served, TailOf, OrdersAreWatched, OrderOf, OpKept
    <3> QED BY <3>1 DEF SuccessIsReal
  <2> QED BY <1>2, <1>3, <2>1 DEF Served
<1>4. CASE Ordered
  BY <1>4 DEF Ordered, SuccessIsReal
<1>5. CASE Deliver /\ OnOperationReply
  <2> SUFFICES ASSUME op'.status = "success"
               PROVE  op'.written = ToSet(Targets[op'.kind])
    BY DEF SuccessIsReal
  <2>1. /\ op.status = "pending" /\ op \in Op /\ op'.written = op.written /\ op'.kind = op.kind
        /\ op.remaining = 1 /\ ThisEpoch(op) /\ ~op.failed
        /\ Counted(inbox[1]) /\ inbox[1].kind = "reply" /\ 1 \in DOMAIN inbox
    BY <1>1, <1>5, OperationReplyEffect DEF Counted, Received, TailOf
  <2>2. inbox[1].call.target \in op.written
    <3>1. ~EndsBefore(1, op.tablet)
      BY DEF EndsBefore
    <3> QED BY <1>1, <2>1, <3>1 DEF DoneIsWritten, Counted
  <2>3. Outstanding \ {inbox[1].call.target} = {}
    <3>1. inbox[1].call.target \in Outstanding
      BY <2>1, OutstandingIsAwaited DEF Awaited
    <3>2. /\ IsFiniteSet(Outstanding \ {inbox[1].call.target})
          /\ Cardinality(Outstanding \ {inbox[1].call.target}) = 0
      BY <1>1, <2>1, <3>1, OutstandingTargets, FS_RemoveElement DEF OrdersAreWatched
    <3> QED BY <3>2, FS_EmptySet
  <2>4. ToSet(Targets[op.kind]) \subseteq op.written \cup Outstanding
    BY <1>1, <2>1 DEF DoneIsWritten
  <2>5. op.written \subseteq ToSet(Targets[op.kind])
    BY <2>1 DEF Op
  <2> QED BY <2>1, <2>2, <2>3, <2>4, <2>5
<1>6. CASE Deliver /\ Passed
  BY <1>2, <1>5, <1>6, DeliverCounts
<1> QED BY <1>2, <1>3, <1>4, <1>6, RenewedLifetime, Steps
        DEF Announced, Signalled, AppletIdle, Matched, ProfileGot, BusIdle

\* The settings that a row shows, and the operation that sets each.
KindFor(tool) == IF tool = "stylus" THEN "setStylusMode" ELSE "setTouch"
Value(row, tool) == IF tool = "stylus" THEN row.mode ELSE row.touch

SetFor(t, tool) == IsSet(KindFor(tool), t, tool)

RowFollows(tool) ==
    \A i \in DOMAIN rows : Sound(rows[i].id) =>
        Value(rows[i], tool) = mode[rows[i].id][tool] \/ SetFor(rows[i].id, tool)
OpFollows(tool) ==
    \A t \in Tablet : Sound(t) /\ SetFor(t, tool) => op.value = mode[t][tool]
ReplyFollows(tool) ==
    \A i \in DOMAIN inbox :
        inbox[i].kind = "reply" /\ inbox[i].call.kind = "getProperty"
        /\ ThisEpoch(inbox[i].call) /\ Sound(inbox[i].call.tablet) =>
            inbox[i].value[tool] = mode[inbox[i].call.tablet][tool]
Follows(tool) == RowFollows(tool) /\ OpFollows(tool) /\ ReplyFollows(tool)

LEMMA EachFollows ==
    /\ SettingsFollow => Follows("stylus") /\ Follows("touch")
    /\ Follows("stylus")' /\ Follows("touch")' => SettingsFollow'
<1>1. SettingsFollow => Follows("stylus") /\ Follows("touch")
  BY DEF SettingsFollow, Follows, RowFollows, OpFollows, ReplyFollows, KindFor, Value, SetFor
<1>2. Follows("stylus")' /\ Follows("touch")' => SettingsFollow'
  BY DEF SettingsFollow, Follows, RowFollows, OpFollows, ReplyFollows, KindFor, Value, SetFor
<1> QED BY <1>1, <1>2

\* A tablet of which something is set, or answered, is alive.
LEMMA SetLives ==
    ASSUME IInv, NEW t, NEW tool, SetFor(t, tool)
    PROVE  t \in Tablet /\ epochs[t] > 0 /\ op.status = "pending" /\ op.tablet = t /\ ThisEpoch(op)
<1>1. op.status = "pending" /\ op.tablet = t /\ ThisEpoch(op)
  BY DEF SetFor, IsSet
<1>2. op.tablet \in Tablet /\ op.epoch \in 1..nextEpoch /\ nextEpoch \in Nat
  BY <1>1, Pending, Basics
<1> QED BY <1>1, <1>2 DEF ThisEpoch

LEMMA ReplyLives ==
    ASSUME IInv, NEW i \in DOMAIN inbox, inbox[i].kind = "reply", inbox[i].call.kind = "getProperty",
           ThisEpoch(inbox[i].call)
    PROVE  inbox[i].call.tablet \in Tablet /\ epochs[inbox[i].call.tablet] > 0
BY Questions, Basics DEF IsAnswer, Asks, ThisEpoch

\* A step after which the rows, the operation and the answers are as before, and nothing
\* has been set of the tablets that are alive.
LEMMA NothingSet ==
    ASSUME IInv, NEW tool \in {"stylus", "touch"}, Follows(tool),
           UNCHANGED <<rows, epochs, generation, op>>, Grows(inbox', inbox),
           \A t \in Tablet : epochs[t] > 0 /\ Sound(t)' => Sound(t) /\ mode'[t] = mode[t],
           \A j : New(j) /\ inbox'[j].kind = "reply" /\ inbox'[j].call.kind = "getProperty" =>
               inbox'[j].value = mode'[inbox'[j].call.tablet]
    PROVE  Follows(tool)'
<1>1. RowFollows(tool) /\ OpFollows(tool) /\ ReplyFollows(tool)
  BY DEF Follows
<1>2. \A t \in Tablet : SetFor(t, tool)' <=> SetFor(t, tool)
  BY DEF SetFor, IsSet, ThisEpoch, ThisGeneration
<1>3. RowFollows(tool)'
  <2> SUFFICES ASSUME NEW i \in DOMAIN rows, NEW t \in Tablet, t = rows[i].id, Sound(t)'
               PROVE  Value(rows[i], tool) = mode'[t][tool] \/ SetFor(t, tool)'
    <3>1. \A i \in DOMAIN rows : rows[i].id \in Tablet
      BY ShownAlive DEF Shown
    <3> QED BY <3>1 DEF RowFollows, Sound, SetFor, IsSet
  <2>1. epochs[t] > 0
    BY ShownAlive DEF Shown
  <2>2. Value(rows[i], tool) = mode[t][tool] \/ SetFor(t, tool)
    BY <1>1, <2>1 DEF RowFollows
  <2> QED BY <1>2, <2>1, <2>2
<1>4. OpFollows(tool)'
  <2> SUFFICES ASSUME NEW t \in Tablet, Sound(t)', SetFor(t, tool)'
               PROVE  op'.value = mode'[t][tool]
    BY DEF OpFollows
  <2>1. SetFor(t, tool) /\ epochs[t] > 0
    BY <1>2, SetLives
  <2> QED BY <1>1, <2>1 DEF OpFollows
<1>5. ReplyFollows(tool)'
  <2> SUFFICES ASSUME NEW i \in DOMAIN inbox', NEW t, t = inbox'[i].call.tablet,
                      inbox'[i].kind = "reply", inbox'[i].call.kind = "getProperty",
                      ThisEpoch(inbox[i].call)', Sound(t)'
               PROVE  inbox'[i].value[tool] = mode'[t][tool]
    BY DEF ReplyFollows, Sound
  <2>1. CASE i \in DOMAIN inbox
    <3>1. inbox'[i] = inbox[i]
      BY <2>1 DEF Grows
    <3>2. ThisEpoch(inbox[i].call)
      BY <3>1 DEF ThisEpoch, ThisGeneration
    <3>3. t \in Tablet /\ epochs[t] > 0
      BY <2>1, <3>1, <3>2, ReplyLives
    <3> QED BY <1>1, <2>1, <3>1, <3>2, <3>3 DEF ReplyFollows
  <2>2. CASE i \notin DOMAIN inbox
    <3>1. New(i)
      BY <2>2 DEF New, Added
    <3> QED BY <3>1
  <2> QED BY <2>1, <2>2
<1> QED BY <1>3, <1>4, <1>5 DEF Follows

\* What is known of a tablet after a step was known before.
LEMMA SoundBefore ==
    ASSUME IInv, UNCHANGED generation, timeouts' \in {timeouts, timeouts + 1},
           NEW t, t \in drifted => t \in drifted', Sound(t)',
           \A i \in DOMAIN inbox : \/ \E j \in DOMAIN inbox' : inbox'[j] = inbox[i]
                                   \/ ~Owner(inbox[i]) /\ ~Removes(inbox[i], t)
    PROVE  Sound(t)
<1>1. timeouts \in Nat
  BY Basics
<1>2. ~Reset /\ \A i \in DOMAIN inbox : ~Removes(inbox[i], t)
  BY DEF Sound, Reset, Owner, Removes
<1> QED BY <1>1, <1>2 DEF Sound

LEMMA SignalledFollows ==
    ASSUME IInv, NEW tool \in {"stylus", "touch"}, Follows(tool), NEW u \in Tablet, Signalled(u)
    PROVE  Follows(tool)'
<1>1. /\ UNCHANGED <<rows, epochs, generation, op, timeouts>> /\ Grows(inbox', inbox)
      /\ \A j : New(j) => inbox'[j].kind # "reply"
      /\ mode \in [Tablet -> Modes] /\ generation \in Nat
  BY Basics DEF Signalled, AppletIdle, modelVars, Signal, IsSignal, Typed, TypeOK
<1>2. ASSUME NEW t \in Tablet, epochs[t] > 0, Sound(t)'
      PROVE  Sound(t) /\ mode'[t] = mode[t]
  <2>1. \A i \in DOMAIN inbox : \E j \in DOMAIN inbox' : inbox'[j] = inbox[i]
    BY <1>1 DEF Grows
  <2>2. CASE t # u
    <3>1. mode'[t] = mode[t] /\ (t \in drifted => t \in drifted')
      BY <2>2 DEF Signalled
    <3> QED BY <1>1, <1>2, <2>1, <3>1, SoundBefore
  <2>3. CASE t = u /\ Plugged(u)
    <3>1. ~Reset /\ \A i \in DOMAIN inbox : ~Removes(inbox[i], t)
      BY <1>1, <1>2, <2>1 DEF Sound, Reset, Owner, Removes
    <3>2. t \notin present
      BY <2>3 DEF Plugged
    <3> QED BY <1>2, <3>1, <3>2, AliveServed DEF IInv, GoneIsTold
  <2>4. CASE t = u /\ (ProfileSaid(u) \/ Unplugged(u))
    <3>1. (t \in drifted => t \in drifted') /\ (t \notin drifted' => mode' = mode)
      BY <2>4 DEF ProfileSaid, Unplugged
    <3>2. t \notin drifted'
      BY <1>2 DEF Sound
    <3> QED BY <1>1, <1>2, <2>1, <3>1, <3>2, SoundBefore
  <2> QED BY <2>2, <2>3, <2>4 DEF Signalled
<1> QED BY <1>1, <1>2, NothingSet

\* An order is obeyed.
LEMMA ObeyedFollows ==
    ASSUME IInv, NEW tool \in {"stylus", "touch"}, Follows(tool), Served, IsOrder(calls[1]), Obeyed
    PROVE  Follows(tool)'
<1>1. /\ UNCHANGED <<rows, epochs, generation>> /\ Grows(inbox', inbox) /\ OpKept
      /\ timeouts' \in {timeouts, timeouts + 1} /\ 1 \in DOMAIN calls
      /\ \A j : New(j) /\ IsAnswer(inbox'[j]) => IsOrder(inbox'[j].call)
  BY DEF Served, modelVars, TailOf, Signal, IsSignal, IsAnswer
<1>2. /\ OrderOf(calls[1]) /\ OrdersComeFirst /\ mode \in [Tablet -> Modes] /\ Typed /\ TypeOK
  BY <1>1 DEF IInv, OrdersAreWatched, Typed, TypeOK
<1> DEFINE c == calls[1]
<1>3. /\ op.status = "pending" /\ op.kind = c.operation /\ op.tablet = c.tablet /\ op.value = c.value
      /\ c \in Order /\ c.operation \in Operation /\ c.tablet \in Tablet /\ c.target \in ToSet(Targets[c.operation])
      /\ op \in Op
  <2>1. c \in Call
    BY DEF Served
  <2>2. op.status = "pending"
    BY <1>2 DEF OrderOf
  <2> QED BY <1>2, <2>1, <2>2, CallFields, Pending DEF OrderOf, Obeyed
<1>4. /\ drifted \subseteq drifted'
      /\ \A u \in Tablet : u # c.tablet => mode'[u] = mode[u]
      /\ c.operation \in {"setProfile", "setRotation"} => (c.tablet \notin drifted' => mode' = mode)
      /\ c.operation \in {"setStylusMode", "setTouch"} =>
             mode'[c.tablet] = [mode[c.tablet] EXCEPT ![c.target] = c.value]
  BY <1>2, ObeysTypes DEF Obeyed
<1>5. op'.written = op.written \cup {c.target}
  BY <1>3 DEF Obeyed, Op
<1>6. \A t : Sound(t)' => Sound(t) /\ t \notin drifted'
  <2>1. \A i \in DOMAIN inbox : \E j \in DOMAIN inbox' : inbox'[j] = inbox[i]
    BY <1>1 DEF Grows
  <2> QED BY <1>1, <1>4, <2>1, SoundBefore DEF Sound
\* The target that is set is that of the tool when the operation is that for the tool.
<1>7. CASE c.operation = KindFor(tool) /\ c.target = tool
  <2>1. mode'[c.tablet][tool] = op.value
    <3>1. c.operation \in {"setStylusMode", "setTouch"}
      BY <1>7 DEF KindFor
    <3>2. tool \in DOMAIN mode[c.tablet]
      BY <1>2, <1>3 DEF Modes, Tool
    <3> QED BY <1>3, <1>4, <1>7, <3>1, <3>2
  <2>2. \A t \in Tablet : SetFor(t, tool)' => t = c.tablet
    BY <1>1, <1>3 DEF SetFor, IsSet, OpKept
  <2>3. RowFollows(tool)'
    <3> SUFFICES ASSUME NEW i \in DOMAIN rows, NEW t \in Tablet, t = rows[i].id, Sound(t)'
                 PROVE  Value(rows[i], tool) = mode'[t][tool] \/ SetFor(t, tool)'
      <4>1. \A i \in DOMAIN rows : rows[i].id \in Tablet
        BY ShownAlive DEF Shown
      <4> QED BY <1>1, <4>1 DEF RowFollows, Sound, SetFor, IsSet, Removes
    <3>1. CASE t = c.tablet
      <4>1. t \in Shown
        BY DEF Shown
      <4>2. ThisEpoch(op)
        BY <1>1, <1>2, <3>1, <4>1 DEF OrdersComeFirst
      <4> QED BY <1>1, <1>3, <1>5, <1>7, <3>1, <4>2
              DEF SetFor, IsSet, OpKept, ThisEpoch, ThisGeneration
    <3>2. CASE t # c.tablet
      <4>1. Value(rows[i], tool) = mode[t][tool] \/ SetFor(t, tool)
        BY <1>6 DEF Follows, RowFollows
      <4> QED BY <1>3, <1>4, <3>2, <4>1, SetLives
    <3> QED BY <3>1, <3>2
  <2>4. OpFollows(tool)'
    BY <1>1, <2>1, <2>2 DEF OpFollows, OpKept
  <2>5. ReplyFollows(tool)'
    <3> SUFFICES ASSUME NEW i \in DOMAIN inbox', NEW t, t = inbox'[i].call.tablet,
                        inbox'[i].kind = "reply", inbox'[i].call.kind = "getProperty",
                        ThisEpoch(inbox[i].call)', Sound(t)'
                 PROVE  inbox'[i].value[tool] = mode'[t][tool]
      BY DEF ReplyFollows, Sound
    <3>1. i \in DOMAIN inbox /\ inbox'[i] = inbox[i]
      BY <1>1 DEF New, Added, Grows, IsAnswer, IsOrder
    <3>2. ThisEpoch(inbox[i].call)
      BY <1>1, <3>1 DEF ThisEpoch, ThisGeneration
    <3>3. t \in Tablet
      BY <3>1, <3>2, ReplyLives
    <3>4. t # c.tablet
      BY <1>1, <1>2, <3>1, <3>2 DEF OrdersComeFirst, IsAnswer, Asks
    <3> QED BY <1>4, <1>6, <3>1, <3>2, <3>3, <3>4 DEF Follows, ReplyFollows
  <2> QED BY <2>3, <2>4, <2>5 DEF Follows
\* Nothing of the tool is set.
<1>8. CASE ~(c.operation = KindFor(tool) /\ c.target = tool)
  <2>1. \A t \in Tablet : Sound(t)' => Sound(t) /\ mode'[t][tool] = mode[t][tool]
    <3> SUFFICES ASSUME NEW t \in Tablet, Sound(t)', t = c.tablet
                 PROVE  mode'[t][tool] = mode[t][tool]
      BY <1>4, <1>6
    <3>1. CASE c.operation \in {"setProfile", "setRotation"}
      BY <1>4, <1>6, <3>1
    <3>2. CASE c.operation \in {"setStylusMode", "setTouch"}
      <4>1. c.target # tool
        BY <1>3, <1>8, <3>2, TargetSets DEF KindFor
      <4>2. tool \in DOMAIN mode[c.tablet]
        BY <1>2, <1>3 DEF Modes, Tool
      <4>3. [mode[c.tablet] EXCEPT ![c.target] = c.value][tool] = mode[c.tablet][tool]
        BY <4>1, <4>2
      <4> QED BY <1>4, <3>2, <4>3
    <3> QED BY <1>3, <3>1, <3>2, TargetsFacts
  <2>2. \A t \in Tablet : SetFor(t, tool)' <=> SetFor(t, tool)
    BY <1>1, <1>3, <1>5, <1>8 DEF SetFor, IsSet, ThisEpoch, ThisGeneration, OpKept
  <2>3. RowFollows(tool)'
    <3> SUFFICES ASSUME NEW i \in DOMAIN rows, NEW t \in Tablet, t = rows[i].id, Sound(t)'
                 PROVE  Value(rows[i], tool) = mode'[t][tool] \/ SetFor(t, tool)'
      <4>1. \A i \in DOMAIN rows : rows[i].id \in Tablet
        BY ShownAlive DEF Shown
      <4> QED BY <1>1, <4>1 DEF RowFollows, Sound, SetFor, IsSet, Removes
    <3> QED BY <2>1, <2>2 DEF Follows, RowFollows
  <2>4. OpFollows(tool)'
    BY <1>1, <2>1, <2>2 DEF Follows, OpFollows, OpKept
  <2>5. ReplyFollows(tool)'
    <3> SUFFICES ASSUME NEW i \in DOMAIN inbox', NEW t, t = inbox'[i].call.tablet,
                        inbox'[i].kind = "reply", inbox'[i].call.kind = "getProperty",
                        ThisEpoch(inbox[i].call)', Sound(t)'
                 PROVE  inbox'[i].value[tool] = mode'[t][tool]
      BY DEF ReplyFollows, Sound
    <3>1. i \in DOMAIN inbox /\ inbox'[i] = inbox[i]
      BY <1>1 DEF New, Added, Grows, IsAnswer, IsOrder
    <3>2. ThisEpoch(inbox[i].call)
      BY <1>1, <3>1 DEF ThisEpoch, ThisGeneration
    <3>3. t \in Tablet
      BY <3>1, <3>2, ReplyLives
    <3> QED BY <2>1, <3>1, <3>2, <3>3 DEF Follows, ReplyFollows
  <2> QED BY <2>3, <2>4, <2>5 DEF Follows
<1> QED BY <1>7, <1>8

\* A message is delivered, but not about an operation.
LEMMA DeliveredFollows ==
    ASSUME IInv, Next, NEW tool \in {"stylus", "touch"}, Follows(tool), Deliver, Passed, ~OnOperationReply
    PROVE  Follows(tool)'
<1>1. /\ UNCHANGED <<op, generation, mode, drifted, timeouts>> /\ TailOf(inbox', inbox)
      /\ ~Owner(inbox[1]) /\ 1 \in DOMAIN inbox /\ nextEpoch \in Nat
  BY Basics, DeliverCounts DEF Passed, Received, serviceVars, countVars, TailOf
<1>2. ASSUME NEW t \in Tablet, epochs'[t] > 0, Sound(t)'
      PROVE  Sound(t)
  <2>1. ~Removes(inbox[1], t)
    BY <1>2, LivesOn
  <2>2. ASSUME NEW i \in DOMAIN inbox
        PROVE  \/ \E j \in DOMAIN inbox' : inbox'[j] = inbox[i]
               \/ ~Owner(inbox[i]) /\ ~Removes(inbox[i], t)
    <3>1. i = 1 \/ (i - 1 \in DOMAIN inbox' /\ inbox'[i - 1] = inbox[i])
      BY <1>1 DEF TailOf
    <3> QED BY <1>1, <2>1, <3>1
  <2> QED BY <1>1, <1>2, <2>2, SoundBefore
<1>3. RowFollows(tool)'
  <2> SUFFICES ASSUME NEW i \in DOMAIN rows', NEW t, t = rows'[i].id, Sound(t)'
               PROVE  Value(rows'[i], tool) = mode[t][tool] \/ SetFor(t, tool)'
    BY <1>1 DEF RowFollows, Sound, SetFor, IsSet, Removes
  <2>1. t \in Shown'
    BY DEF Shown
  <2>2. t \in Tablet /\ epochs'[t] > 0 /\ epochs'[t] = epochs[t]
    BY <2>1, ShownLives
  <2>3. Sound(t)
    BY <1>2, <2>2
  <2>4. SetFor(t, tool) => SetFor(t, tool)'
    BY <1>1, <2>2 DEF SetFor, IsSet, ThisEpoch, ThisGeneration
  <2>5. ASSUME NEW k \in DOMAIN rows, rows[k].id = t, Value(rows'[i], tool) = Value(rows[k], tool)
        PROVE  Value(rows'[i], tool) = mode[t][tool] \/ SetFor(t, tool)'
    BY <2>3, <2>4, <2>5 DEF Follows, RowFollows
  <2>6. CASE UNCHANGED <<rows, sources>>
    BY <2>5, <2>6
  <2>7. CASE RowAdded
    <3>1. PICK row \in Row :
              /\ Inserted(row) /\ inbox[1].kind = "reply" /\ inbox[1].call.kind = "getProperty"
              /\ ThisEpoch(inbox[1].call) /\ row.id = inbox[1].call.tablet
              /\ row.mode = inbox[1].value["stylus"] /\ row.touch = inbox[1].value["touch"]
      BY <2>7 DEF RowAdded
    <3>2. CASE i \in DOMAIN rows
      BY <2>5, <3>1, <3>2 DEF Inserted, GrowsByOne, Grows
    <3>3. CASE rows'[i] = row
      BY <1>1, <2>3, <3>1, <3>3 DEF Follows, ReplyFollows, Value
    <3> QED BY <3>1, <3>2, <3>3 DEF Inserted, GrowsByOne, Added
  <2>8. CASE RowRemoved
    <3>1. PICK u \in Tablet : Dropped(u)
      BY <2>8 DEF RowRemoved
    <3>2. PICK k \in DOMAIN rows : rows'[i] = rows[k]
      BY <3>1 DEF Dropped
    <3> QED BY <2>5, <3>2
  <2>9. CASE \E k, row : RowChanged(k, row) /\ row.mode = rows[k].mode /\ row.touch = rows[k].touch
    <3>1. PICK k, row : RowChanged(k, row) /\ row.mode = rows[k].mode /\ row.touch = rows[k].touch
      BY <2>9
    <3>2. i \in DOMAIN rows /\ rows[i].id = t /\ Value(rows'[i], tool) = Value(rows[i], tool)
      BY <3>1 DEF RowChanged, Value
    <3> QED BY <2>5, <3>2
  <2> QED BY <2>6, <2>7, <2>8, <2>9, DeliverRows DEF RowStep
<1>4. OpFollows(tool)'
  <2> SUFFICES ASSUME NEW t \in Tablet, Sound(t)', SetFor(t, tool)'
               PROVE  op'.value = mode'[t][tool]
    BY DEF OpFollows
  <2>1. op.status = "pending" /\ op.tablet = t /\ op.gen = generation' /\ epochs'[t] = op.epoch
    BY <1>1 DEF SetFor, IsSet, ThisEpoch, ThisGeneration
  <2>2. op.epoch \in 1..nextEpoch
    BY <2>1, Pending
  <2>3. ThisEpoch(op) /\ epochs'[t] > 0
    BY <1>1, <2>1, <2>2, NoRevival DEF ThisEpoch, ThisGeneration
  <2>4. SetFor(t, tool)
    BY <1>1, <2>3 DEF SetFor, IsSet
  <2> QED BY <1>1, <1>2, <2>3, <2>4 DEF Follows, OpFollows
<1>5. ReplyFollows(tool)'
  <2> SUFFICES ASSUME NEW i \in DOMAIN inbox', NEW t, t = inbox'[i].call.tablet,
                      inbox'[i].kind = "reply", inbox'[i].call.kind = "getProperty",
                      ThisEpoch(inbox[i].call)', Sound(t)'
               PROVE  inbox'[i].value[tool] = mode'[t][tool]
    BY DEF ReplyFollows, Sound
  <2>1. i + 1 \in DOMAIN inbox /\ inbox'[i] = inbox[i + 1]
    BY <1>1 DEF TailOf
  <2>2. /\ t \in Tablet /\ inbox[i + 1].call.epoch \in 1..nextEpoch
    BY <2>1, Questions DEF IsAnswer, Asks
  <2>3. ThisEpoch(inbox[i + 1].call) /\ epochs'[t] > 0
    BY <1>1, <2>1, <2>2, NoRevival DEF ThisEpoch, ThisGeneration
  <2> QED BY <1>1, <1>2, <2>1, <2>2, <2>3 DEF Follows, ReplyFollows
<1> QED BY <1>3, <1>4, <1>5 DEF Follows

\* The result of a call is counted, and an operation that ends well is shown.
LEMMA CountedFollows ==
    ASSUME IInv, Next, NEW tool \in {"stylus", "touch"}, Follows(tool), OnOperationReply
    PROVE  Follows(tool)'
<1>1. /\ Typed /\ OrdersAreWatched /\ RowsAreAlive /\ ErrorsAreOld /\ timeouts \in Nat
      /\ rows \in Seq(Row)
  BY Basics DEF IInv
<1>2. /\ UNCHANGED <<generation, epochs, interface, mode, drifted, timeouts>> /\ TailOf(inbox', inbox)
      /\ 1 \in DOMAIN inbox /\ Counted(inbox[1])
      /\ op.status = "pending" /\ op \in Op /\ op'.kind = op.kind /\ op'.tablet = op.tablet
      /\ op'.value = op.value /\ op'.gen = op.gen /\ op'.epoch = op.epoch /\ op'.written = op.written
      /\ op'.status # "pending" =>
             \/ op'.status = "success"
             \/ ~ThisEpoch(op) \/ op.failed \/ inbox[1].kind = "error"
      /\ op'.status = "success" => ThisEpoch(op)
      /\ IF /\ op'.status = "success" /\ op.kind \in {"setStylusMode", "setTouch"}
            /\ op.tablet \in Shown
         THEN \E k, row :
                  /\ RowChanged(k, row) /\ row.id = op.tablet
                  /\ row.touch = IF op.kind = "setTouch" THEN op.value ELSE rows[k].touch
                  /\ row.mode = IF op.kind = "setTouch" THEN rows[k].mode ELSE op.value
         ELSE UNCHANGED <<rows, sources>>
  <2>1. op.status = "pending" /\ op \in Op /\ op' \in Op
    BY <1>1, OperationReplyEffect
  <2>2. op.remaining \in Nat /\ op.remaining > 0
    BY <1>1, <2>1 DEF Op, OrdersAreWatched
  <2>3. op'.status # "pending" => op.remaining = 1
    BY <1>1, <2>2, OperationReplyEffect
  <2>4. op'.status # "pending" =>
            \/ op'.status = "success"
            \/ ~ThisEpoch(op) \/ op.failed \/ inbox[1].kind = "error"
    BY <1>1, <2>3, OperationReplyEffect DEF IsAnswer
  <2> QED BY <1>1, <2>4, OperationReplyEffect
          DEF Received, TailOf, Counted, serviceVars, countVars
<1>3. \A t : Sound(t)' => Sound(t)
  <2>1. ~Owner(inbox[1]) /\ \A t : ~Removes(inbox[1], t)
    BY <1>2 DEF Counted, IsAnswer, Owner, Removes
  <2>2. \A i \in DOMAIN inbox : i = 1 \/ \E j \in DOMAIN inbox' : inbox'[j] = inbox[i]
    BY <1>2 DEF TailOf
  <2> QED BY <1>2, <2>1, <2>2, SoundBefore
\* One that fails, or is of no effect any more, has set nothing for sure.
<1>4. ASSUME NEW t, Sound(t)', SetFor(t, tool), ~SetFor(t, tool)'
      PROVE  op'.status = "success"
  <2>1. op.tablet = t /\ ThisEpoch(op) /\ op'.status # "pending"
    BY <1>2, <1>4 DEF SetFor, IsSet, ThisEpoch, ThisGeneration
  <2>2. timeouts = 0
    BY <1>2, <1>4 DEF Sound
  <2>3. ~op.failed
    BY <1>1, <1>2, <2>1, <2>2 DEF ErrorsAreOld, ThisEpoch, ThisGeneration
  <2>4. inbox[1].kind # "error"
    <3>1. \A j \in 1..(1 - 1) : ~Owner(inbox[j])
      OBVIOUS
    <3> QED BY <1>1, <1>2, <2>1, <2>2, <3>1 DEF ErrorsAreOld, ThisEpoch, ThisGeneration, Counted
  <2> QED BY <1>2, <2>1, <2>3, <2>4
<1>5. \A t : SetFor(t, tool)' => SetFor(t, tool)
  BY <1>2 DEF SetFor, IsSet, ThisEpoch, ThisGeneration
<1>6. RowFollows(tool)'
  <2> SUFFICES ASSUME NEW i \in DOMAIN rows', NEW t, t = rows'[i].id, Sound(t)'
               PROVE  Value(rows'[i], tool) = mode[t][tool] \/ SetFor(t, tool)'
    BY <1>2 DEF RowFollows, Sound, SetFor, IsSet, Removes
  <2>1. ASSUME i \in DOMAIN rows, rows[i].id = t, Value(rows'[i], tool) = Value(rows[i], tool),
               ~(op'.status = "success" /\ SetFor(t, tool))
        PROVE  Value(rows'[i], tool) = mode[t][tool] \/ SetFor(t, tool)'
    BY <1>3, <1>4, <2>1 DEF Follows, RowFollows
  <2>2. CASE ~(/\ op'.status = "success" /\ op.kind \in {"setStylusMode", "setTouch"}
               /\ op.tablet \in Shown)
    <3>1. UNCHANGED rows
      BY <1>2, <2>2
    <3>2. t \in Shown
      BY <3>1 DEF Shown
    <3>3. SetFor(t, tool) => op.kind \in {"setStylusMode", "setTouch"} /\ op.tablet = t
      BY DEF SetFor, IsSet, KindFor
    <3> QED BY <2>1, <2>2, <3>1, <3>2, <3>3
  <2>3. CASE /\ op'.status = "success" /\ op.kind \in {"setStylusMode", "setTouch"}
             /\ op.tablet \in Shown
    <3>1. PICK k, row :
              /\ RowChanged(k, row) /\ row.id = op.tablet
              /\ row.touch = IF op.kind = "setTouch" THEN op.value ELSE rows[k].touch
              /\ row.mode = IF op.kind = "setTouch" THEN rows[k].mode ELSE op.value
      BY <1>2, <2>3
    <3>2. i \in DOMAIN rows /\ rows[i].id = t
      BY <3>1 DEF RowChanged
    <3>3. CASE i # k
      <4>1. rows'[i] = rows[i] /\ t # op.tablet
        BY <1>1, <3>1, <3>2, <3>3 DEF RowChanged, RowsAreAlive
      <4> QED BY <2>1, <3>2, <4>1 DEF SetFor, IsSet
    <3>4. CASE i = k /\ op.kind # KindFor(tool)
      <4>1. Value(rows'[i], tool) = Value(rows[i], tool)
        BY <2>3, <3>1, <3>4 DEF RowChanged, Value, KindFor
      <4> QED BY <2>1, <3>2, <3>4, <4>1 DEF SetFor, IsSet
    <3>5. CASE i = k /\ op.kind = KindFor(tool)
      <4>1. Value(rows'[i], tool) = op.value /\ t = op.tablet
        BY <3>1, <3>2, <3>5 DEF RowChanged, Value, KindFor
      <4>2. tool \in op.written
        <5>1. op.written = ToSet(Targets[op.kind])
          BY <1>2, <2>3, SuccessIsRealKept DEF SuccessIsReal
        <5> QED BY <3>5, <5>1, TargetSets DEF KindFor
      <4>3. SetFor(t, tool)
        BY <1>2, <2>3, <3>5, <4>1, <4>2 DEF SetFor, IsSet
      <4>4. t \in Tablet
        BY <4>3, SetLives
      <4> QED BY <1>3, <4>1, <4>3, <4>4 DEF Follows, OpFollows
    <3> QED BY <3>3, <3>4, <3>5
  <2> QED BY <2>2, <2>3
<1>7. OpFollows(tool)'
  BY <1>2, <1>3, <1>5 DEF Follows, OpFollows
<1>8. ReplyFollows(tool)'
  <2> SUFFICES ASSUME NEW i \in DOMAIN inbox', NEW t, t = inbox'[i].call.tablet,
                      inbox'[i].kind = "reply", inbox'[i].call.kind = "getProperty",
                      ThisEpoch(inbox[i].call)', Sound(t)'
               PROVE  inbox'[i].value[tool] = mode'[t][tool]
    BY DEF ReplyFollows, Sound
  <2>1. i + 1 \in DOMAIN inbox /\ inbox'[i] = inbox[i + 1]
    BY <1>2 DEF TailOf
  <2>2. ThisEpoch(inbox[i + 1].call)
    BY <1>2, <2>1 DEF ThisEpoch, ThisGeneration
  <2> QED BY <1>2, <1>3, <2>1, <2>2 DEF Follows, ReplyFollows
<1> QED BY <1>6, <1>7, <1>8 DEF Follows

LEMMA FollowsKept ==
    ASSUME IInv, Next, NEW tool \in {"stylus", "touch"}, Follows(tool)
    PROVE  Follows(tool)'
<1>1. inbox \in Seq(Message) /\ timeouts \in Nat /\ mode \in [Tablet -> Modes]
  BY Basics DEF Typed, TypeOK
<1>2. CASE Announced
  <2>1. Reset'
    BY <1>2 DEF Announced, Reset, New, Added
  <2>2. \A t : ~Sound(t)'
    BY <2>1 DEF Sound
  <2>3. RowFollows(tool)' /\ OpFollows(tool)' /\ ReplyFollows(tool)'
    BY <2>1 DEF RowFollows, OpFollows, ReplyFollows, Sound
  <2> QED BY <2>3 DEF Follows
<1>3. CASE \E t \in Tablet : Signalled(t)
  BY <1>3, SignalledFollows
<1>4. CASE Matched \/ ProfileGot
  <2>1. UNCHANGED <<inbox, rows, epochs, generation, op, mode, drifted, timeouts>>
    BY <1>4 DEF Matched, ProfileGot, BusIdle, modelVars, serviceVars, countVars
  <2>2. Grows(inbox', inbox) /\ \A j : ~New(j)
    BY <1>1, <2>1 DEF Grows, New, Added
  <2>3. \A t \in Tablet : Sound(t)' => Sound(t)
    BY <1>1, <2>1, SoundBefore
  <2> QED BY <2>1, <2>2, <2>3, NothingSet
<1>5. CASE Served
  <2>1. /\ UNCHANGED <<rows, epochs, generation>> /\ Grows(inbox', inbox)
        /\ timeouts' \in {timeouts, timeouts + 1}
    BY <1>5 DEF Served, modelVars
  <2>2. \A i \in DOMAIN inbox : \E j \in DOMAIN inbox' : inbox'[j] = inbox[i]
    BY <2>1 DEF Grows
  <2>3. \A j : New(j) /\ inbox'[j].kind = "reply" /\ inbox'[j].call.kind = "getProperty" =>
            inbox'[j].call = calls[1] /\ inbox'[j].value = mode[inbox'[j].call.tablet]
    BY <1>5 DEF Served, Says, IsAnswer, Signal, IsSignal
  <2>4. CASE UNCHANGED <<op, mode, drifted>>
    <3>1. \A t \in Tablet : Sound(t)' => Sound(t)
      BY <2>1, <2>2, <2>4, SoundBefore
    <3> QED BY <2>1, <2>3, <2>4, <3>1, NothingSet
  <2>5. CASE IsOrder(calls[1]) /\ Unheard
    <3>1. timeouts' # 0
      BY <1>1, <2>5 DEF Unheard
    <3>2. RowFollows(tool)' /\ OpFollows(tool)' /\ ReplyFollows(tool)'
      BY <3>1 DEF RowFollows, OpFollows, ReplyFollows, Sound
    <3> QED BY <3>2 DEF Follows
  <2>6. CASE IsOrder(calls[1]) /\ Obeyed
    BY <1>5, <2>6, ObeyedFollows
  <2> QED BY <1>5, <2>4, <2>5, <2>6, OrderSteps DEF NotObeyed, Served
<1>6. CASE Renewed
  <2>1. /\ rows' = <<>> /\ UNCHANGED op
        /\ \A i \in DOMAIN inbox' : ~Current(inbox[i])'
        /\ op.status # "none" => op.gen # generation'
    BY <1>6, RenewedLifetime
  <2>2. RowFollows(tool)'
    BY <2>1 DEF RowFollows
  <2>3. OpFollows(tool)'
    BY <2>1 DEF OpFollows, SetFor, IsSet, ThisEpoch, ThisGeneration
  <2>4. ReplyFollows(tool)'
    BY <2>1 DEF ReplyFollows, ThisEpoch, ThisGeneration, Current, IsAnswer, Mentions
  <2> QED BY <2>2, <2>3, <2>4 DEF Follows
<1>7. CASE Deliver /\ Passed
  BY <1>7, DeliveredFollows, CountedFollows
<1>8. CASE Ordered
  <2>1. /\ UNCHANGED <<inbox, rows, epochs, generation, mode, drifted, timeouts>>
        /\ op.status # "pending" /\ op'.written = {}
    BY <1>8 DEF Ordered, modelVars, serviceVars
  <2>2. \A t : ~SetFor(t, tool) /\ ~SetFor(t, tool)'
    BY <2>1 DEF SetFor, IsSet
  <2>3. \A t : Sound(t)' => Sound(t)
    BY <1>1, <2>1, SoundBefore
  <2>4. RowFollows(tool)'
    <3> SUFFICES ASSUME NEW i \in DOMAIN rows, NEW t, t = rows[i].id, Sound(t)'
                 PROVE  Value(rows[i], tool) = mode[t][tool]
      BY <2>1 DEF RowFollows, Sound, Removes
    <3> QED BY <2>2, <2>3 DEF Follows, RowFollows
  <2>5. OpFollows(tool)'
    BY <2>2 DEF OpFollows
  <2>6. ReplyFollows(tool)'
    <3> SUFFICES ASSUME NEW i \in DOMAIN inbox, NEW t, t = inbox[i].call.tablet,
                        inbox[i].kind = "reply", inbox[i].call.kind = "getProperty",
                        ThisEpoch(inbox[i].call), Sound(t)'
                 PROVE  inbox[i].value[tool] = mode[t][tool]
      BY <2>1 DEF ReplyFollows, Sound, Removes, ThisEpoch, ThisGeneration
    <3> QED BY <2>3 DEF Follows, ReplyFollows
  <2> QED BY <2>4, <2>5, <2>6 DEF Follows
<1> QED BY <1>2, <1>3, <1>4, <1>5, <1>6, <1>7, <1>8, Steps

LEMMA SettingsFollowKept ==
    ASSUME IInv, Next
    PROVE  SettingsFollow'
<1>1. Follows("stylus") /\ Follows("touch")
  BY EachFollows DEF IInv
<1>2. Follows("stylus")' /\ Follows("touch")'
  BY <1>1, FollowsKept
<1> QED BY <1>2, EachFollows

-----------------------------------------------------------------------------
(* The invariant.                                                          *)

LEMMA InitInvariant ==
    ASSUME Init
    PROVE  IInv
<1>1. /\ calls = <<[kind |-> "nameHasOwner", gen |-> 0]>>
      /\ DOMAIN calls = {1} /\ calls[1] = [kind |-> "nameHasOwner", gen |-> 0]
      /\ inbox = <<>> /\ DOMAIN inbox = {} /\ rows = <<>> /\ DOMAIN rows = {}
      /\ op = NoOp /\ op.status = "none"
      /\ epochs = [t \in Tablet |-> 0] /\ generation = 0 /\ nextEpoch = 0 /\ timeouts = 0
      /\ interface = FALSE /\ listening = 0 /\ present = {} /\ heard = {}
  BY DEF Init, NoOp
<1>2. Typed
  <2>1. calls \in Seq(Call)
    <3>1. [kind |-> "nameHasOwner", gen |-> 0] \in Call
      BY DEF Call
    <3> QED BY <1>1, <3>1
  <2>2. mode \in [Tablet -> Modes]
    BY AsInProfileType DEF Init
  <2>3. rows \in Seq(Row) /\ inbox \in Seq(Message)
    BY <1>1
  <2>4. \A i \in DOMAIN inbox : WellFormed(inbox[i])
    BY <1>1
  <2>5. epochs \in [Tablet -> 0..nextEpoch] /\ listening \in 0..generation
    BY <1>1
  <2>6. /\ profile \in [Tablet -> Profile \cup {NoProfile}]
        /\ sources \in [Tablet -> Row \cup {NoSource}]
    BY DEF Init
  <2>7. up \in BOOLEAN /\ interface \in BOOLEAN
    BY DEF Init
  <2>8. present \subseteq Tablet /\ heard \subseteq Tablet /\ drifted \subseteq Tablet
    BY DEF Init
  <2>9. generation \in Nat /\ nextEpoch \in Nat /\ op \in Op \cup {NoOp}
    BY <1>1
  <2>10. TypeOK
    BY <2>1, <2>2, <2>3, <2>4, <2>5, <2>6, <2>7, <2>8, <2>9 DEF TypeOK
  <2> QED BY <2>3, <2>10 DEF Typed
<1>3. Shown = {}
  BY <1>1 DEF Shown
<1>4. Numbered
  BY <1>1 DEF Numbered, NumbersOf, IsOrder, Asks
<1>5. Known
  BY <1>1, FS_EmptySet DEF Known, Asks
<1>6. Listening /\ Dormant
  BY <1>1 DEF Listening, Dormant, IsMatch, Asks, Mentions
<1>7. Owned
  <2>1. up \in BOOLEAN
    BY DEF Init
  <2>2. CASE up
    <3>1. \E i \in DOMAIN calls : calls[i].kind = "nameHasOwner"
      BY <1>1
    <3>2. generation = 0 /\ up
      BY <1>1, <2>2
    <3> QED BY <1>1, <3>1, <3>2 DEF Owned
  <2>3. CASE ~up
    <3>1. interface = up
      BY <1>1, <2>1, <2>3
    <3> QED BY <1>1, <3>1 DEF Owned
  <2> QED BY <2>2, <2>3
<1>8. ErrorsAreOld /\ GoneIsTold /\ PresentIsTold
  BY <1>1 DEF ErrorsAreOld, GoneIsTold, PresentIsTold
<1>9. AskedOnce /\ DiscoveryGoesOn /\ NoSensors
  BY <1>1, <1>3 DEF AskedOnce, DiscoveryGoesOn, NoSensors, Asks
<1>10. OrdersAreWatched /\ DoneIsWritten /\ OrdersComeFirst
  BY <1>1 DEF OrdersAreWatched, DoneIsWritten, OrdersComeFirst, IsOrder, Asks
<1>11. SettingsFollow
  BY <1>1 DEF SettingsFollow, IsSet
<1>12. RowsAreAlive /\ SourcesAreRows /\ SuccessIsReal
  BY <1>1, <1>3 DEF Init, RowsAreAlive, SourcesAreRows, SuccessIsReal
<1> QED BY <1>1, <1>2, <1>4, <1>5, <1>6, <1>7, <1>8, <1>9, <1>10, <1>11, <1>12 DEF IInv

LEMMA NextInvariant ==
    ASSUME IInv, Next
    PROVE  IInv'
<1>1. Typed'
  BY Steps DEF Announced, Signalled, Matched, ProfileGot, Served, Renewed, Passed, Ordered
<1> QED BY <1>1, TimeoutsKept, NumberedKept, KnownKept, ListeningKept, DormantKept, OwnedKept,
           ErrorsAreOldKept, GoneIsToldKept, PresentIsToldKept, AskedOnceKept, DiscoveryGoesOnKept,
           NoSensorsKept, OrdersAreWatchedKept, DoneIsWrittenKept, OrdersComeFirstKept,
           SettingsFollowKept, RowsAreAliveKept, SourcesAreRowsKept, SuccessIsRealKept
        DEF IInv

LEMMA StutterInvariant ==
    ASSUME IInv, UNCHANGED vars
    PROVE  IInv'
<1>1. /\ UNCHANGED <<up, present, profile, mode, heard, drifted, listening, calls, inbox>>
      /\ UNCHANGED <<generation, nextEpoch, epochs, interface, rows, sources, op, timeouts>>
  BY DEF vars, serviceVars, modelVars, countVars
<1>2. Typed' /\ timeouts' \in Nat
  BY <1>1 DEF IInv, Typed, TypeOK
<1>3. Numbered' /\ Known'
  BY <1>1 DEF IInv, Numbered, Known
<1>4. Listening' /\ Dormant'
  BY <1>1 DEF IInv, Listening, Dormant, Current, Mentions
<1>5. Owned' /\ ErrorsAreOld'
  BY <1>1 DEF IInv, Owned, ErrorsAreOld, Reset, Mentions
<1>6. GoneIsTold' /\ PresentIsTold'
  BY <1>1 DEF IInv, GoneIsTold, PresentIsTold, Reset, Removes, Brings
<1>7. AskedOnce' /\ DiscoveryGoesOn'
  BY <1>1 DEF IInv, AskedOnce, DiscoveryGoesOn, Shown, ThisEpoch, ThisGeneration
<1>8. NoSensors'
  BY <1>1 DEF IInv, NoSensors, EndsBefore, Removes, Shown, ThisEpoch, ThisGeneration
<1>9. OrdersAreWatched'
  BY <1>1 DEF IInv, OrdersAreWatched, OrderOf, Outstanding
<1>10. DoneIsWritten'
  BY <1>1 DEF IInv, DoneIsWritten, Outstanding, EndsBefore, Removes, ThisEpoch, ThisGeneration
<1>11. OrdersComeFirst'
  BY <1>1 DEF IInv, OrdersComeFirst, Shown, ThisEpoch, ThisGeneration
<1>12. SettingsFollow'
  BY <1>1 DEF IInv, SettingsFollow, Sound, IsSet, Reset, Removes, ThisEpoch, ThisGeneration
<1>13. RowsAreAlive' /\ SourcesAreRows' /\ SuccessIsReal'
  BY <1>1 DEF IInv, RowsAreAlive, SourcesAreRows, SuccessIsReal, Shown
<1> QED BY <1>2, <1>3, <1>4, <1>5, <1>6, <1>7, <1>8, <1>9, <1>10, <1>11, <1>12, <1>13 DEF IInv

\* The parts of the invariant hold together, whatever the daemon, the bus, the user and
\* the applet do, in whatever order.
THEOREM Invariant == Spec => []IInv
<1>1. Init => IInv
  BY InitInvariant
<1>2. IInv /\ [Next]_vars => IInv'
  BY NextInvariant, StutterInvariant
<1> QED BY <1>1, <1>2, PTL DEF Spec

\* The types are kept.
THEOREM Typing == Spec => []TypeOK
<1>1. IInv => TypeOK
  BY DEF IInv, Typed
<1> QED BY <1>1, Invariant, PTL

\* When nothing is under way, the tablets shown are those of the daemon.
LEMMA QuietShows ==
    ASSUME IInv
    PROVE  ShownArePresent
<1> SUFFICES ASSUME Quiet
             PROVE  Shown = present \ Sensor
  BY DEF ShownArePresent
<1>1. /\ up /\ DOMAIN calls = {} /\ DOMAIN inbox = {} /\ timeouts = 0 /\ ~Reset
  BY DEF Quiet, Reset
<1>2. /\ Owned /\ GoneIsTold /\ PresentIsTold /\ DiscoveryGoesOn /\ NoSensors /\ present \subseteq Tablet
      /\ up \in BOOLEAN /\ interface \in BOOLEAN
  BY Basics DEF IInv, Typed, TypeOK
<1>3. ASSUME NEW t \in Shown
      PROVE  t \in present \ Sensor
  <2>1. t \in Tablet /\ interface /\ epochs[t] > 0
    BY <1>3, ShownAlive
  <2> QED BY <1>1, <1>2, <1>3, <2>1 DEF GoneIsTold, NoSensors
<1>4. ASSUME NEW t \in present \ Sensor
      PROVE  t \in Shown
  <2>1. interface
    BY <1>1, <1>2 DEF Owned
  <2>2. epochs[t] > 0
    BY <1>1, <1>2, <2>1 DEF PresentIsTold
  <2> QED BY <1>1, <1>2, <2>2 DEF DiscoveryGoesOn
<1> QED BY <1>3, <1>4

LEMMA QuietSettings ==
    ASSUME IInv
    PROVE  SettingsAreShown
<1> SUFFICES ASSUME Quiet, NEW i \in DOMAIN rows, rows[i].id \notin drifted
             PROVE  /\ rows[i].mode = mode[rows[i].id]["stylus"]
                    /\ rows[i].touch = mode[rows[i].id]["touch"]
  BY DEF SettingsAreShown
<1>1. DOMAIN calls = {} /\ DOMAIN inbox = {} /\ timeouts = 0
  BY DEF Quiet
<1>2. Sound(rows[i].id)
  BY <1>1 DEF Sound, Reset
<1>3. op.status # "pending"
  <2>1. Outstanding = {}
    BY <1>1 DEF Outstanding
  <2> QED BY <2>1, FS_EmptySet DEF IInv, OrdersAreWatched
<1> QED BY <1>2, <1>3 DEF IInv, SettingsFollow, IsSet

\* The rows of the applet are those of tablets that are there, show what is set, and are
\* what its listeners were told.
THEOREM RowsTrue == Spec => []RowsAreTrue
<1>1. IInv => RowsAreTrue
  BY QuietShows, QuietSettings DEF IInv, RowsAreTrue
<1> QED BY <1>1, Invariant, PTL

\* An operation is reported to have succeeded only if the daemon has done every part of
\* it, whatever was lost, and whoever came and went meanwhile.
THEOREM SuccessReal == Spec => []SuccessIsReal
<1>1. IInv => SuccessIsReal
  BY DEF IInv
<1> QED BY <1>1, Invariant, PTL

-----------------------------------------------------------------------------
(* The directory.                                                          *)

LEMMA InitDirectory ==
    ASSUME Init
    PROVE  Directory!Init
<1>1. present = {} /\ heard = {} /\ rows = <<>> /\ timeouts = 0
  BY DEF Init
<1>2. Shown = {}
  BY <1>1 DEF Shown
<1>3. (timeouts > 0) = FALSE
  BY <1>1
<1> QED BY <1>1, <1>2, <1>3 DEF Directory!Init

\* Each step shows one tablet, or hides one, or all, or is one of the tablets, or a loss,
\* or nothing the user sees.
LEMMA StepDirectory ==
    ASSUME IInv, Next
    PROVE  [Directory!Next]_(Directory!vars)
<1> USE DEF Directory!Next, Directory!vars
<1>1. timeouts \in Nat /\ Known /\ NoSensors /\ NoSensors' /\ present \subseteq Tablet
  BY Basics, NoSensorsKept DEF IInv, Typed, TypeOK
<1>2. CASE UNCHANGED <<present, heard, rows, timeouts>>
  BY <1>2 DEF Shown
<1>3. CASE Announced
  <2>1. UNCHANGED <<heard, rows, timeouts>> /\ present' \in {{}, present}
    BY <1>3 DEF Announced, AppletIdle, modelVars
  <2>2. CASE present' = {}
    <3>1. Directory!AllDisappear
      BY <2>1, <2>2 DEF Directory!AllDisappear, Shown
    <3> QED BY <3>1
  <2> QED BY <1>2, <2>1, <2>2
<1>4. CASE \E t \in Tablet : Signalled(t)
  <2>1. PICK t \in Tablet : Signalled(t)
    BY <1>4
  <2>2. UNCHANGED <<rows, timeouts>>
    BY <2>1 DEF Signalled, AppletIdle, modelVars
  <2>3. CASE ProfileSaid(t)
    BY <1>2, <2>2, <2>3 DEF ProfileSaid
  <2>4. CASE t \in Sensor /\ (Plugged(t) \/ Unplugged(t))
    <3>1. present' \ Sensor = present \ Sensor /\ heard' \ Sensor = heard \ Sensor
      BY <2>4 DEF Plugged, Unplugged
    <3> QED BY <2>2, <3>1 DEF Shown
  <2>5. CASE t \notin Sensor /\ Plugged(t)
    <3>1. Directory!Appear(t)
      BY <2>2, <2>5 DEF Plugged, Directory!Appear, Shown
    <3> QED BY <2>5, <3>1
  <2>6. CASE t \notin Sensor /\ Unplugged(t)
    <3>1. Directory!Disappear(t)
      BY <2>2, <2>6 DEF Unplugged, Directory!Disappear, Shown
    <3> QED BY <2>6, <3>1
  <2> QED BY <2>1, <2>3, <2>4, <2>5, <2>6 DEF Signalled
<1>5. CASE Served
  <2>1. UNCHANGED <<present, heard, rows>> /\ timeouts' \in {timeouts, timeouts + 1}
    BY <1>5 DEF Served, modelVars
  <2>2. CASE timeouts' # timeouts
    <3>1. (timeouts' > 0) = TRUE
      BY <1>1, <2>1, <2>2
    <3>2. Directory!Lose
      BY <2>1, <3>1 DEF Directory!Lose, Shown
    <3> QED BY <3>2
  <2> QED BY <1>2, <2>1, <2>2
<1>6. CASE Renewed
  <2>1. UNCHANGED <<present, heard, timeouts>> /\ rows' = <<>>
    BY <1>6 DEF Renewed, Received, Cleared, serviceVars, countVars
  <2>2. Directory!HideAll
    BY <2>1 DEF Directory!HideAll, Shown
  <2> QED BY <2>2
<1>7. CASE Deliver /\ Passed
  <2>1. UNCHANGED <<present, heard, timeouts>> /\ 1 \in DOMAIN inbox
    BY <1>7 DEF Passed, Received, TailOf, serviceVars, countVars
  <2>2. CASE UNCHANGED <<rows, sources>>
    BY <1>2, <2>1, <2>2
  <2>3. CASE RowAdded
    <3>1. PICK row \in Row :
              /\ Inserted(row) /\ row.id \notin Shown /\ row.id = inbox[1].call.tablet
              /\ inbox[1].kind = "reply" /\ inbox[1].call.kind = "getProperty"
      BY <2>3 DEF RowAdded
    <3>2. Shown' = Shown \cup {row.id}
      BY <3>1, InsertedShown
    <3>3. row.id \in Tablet /\ row.id \notin Sensor /\ row.id \in heard
      BY <1>1, <2>1, <3>1, <3>2, Questions DEF NoSensors, Known, IsAnswer, Asks
    <3>4. Directory!Show(row.id)
      BY <2>1, <3>1, <3>2, <3>3 DEF Directory!Show
    <3> QED BY <3>3, <3>4
  <2>4. CASE RowRemoved
    <3>1. PICK t \in Tablet : Dropped(t)
      BY <2>4 DEF RowRemoved
    <3>2. Shown' = Shown \ {t}
      BY <3>1, DroppedShown
    <3>3. CASE t \in Shown
      <4>1. Directory!Hide(t) /\ t \notin Sensor
        BY <1>1, <2>1, <3>2, <3>3 DEF NoSensors, Directory!Hide
      <4> QED BY <4>1
    <3>4. CASE t \notin Shown
      <4>1. Shown' = Shown
        BY <3>2, <3>4
      <4> QED BY <2>1, <4>1
    <3> QED BY <3>3, <3>4
  <2>5. CASE \E k, row : RowChanged(k, row)
    <3>1. Shown' = Shown
      BY <2>5, ChangedShown
    <3> QED BY <2>1, <3>1
  <2> QED BY <1>7, <2>2, <2>3, <2>4, <2>5, DeliverRows DEF RowStep
<1> QED BY <1>2, <1>3, <1>4, <1>5, <1>6, <1>7, Steps
        DEF Matched, ProfileGot, BusIdle, Ordered, modelVars, serviceVars, countVars

\* The applet keeps a directory of the daemon's tablets: it shows no tablet that was not
\* there, and what is shown changes by one tablet or is emptied.
THEOREM KeepsDirectory == Spec => Directory!Init /\ [][Directory!Next]_(Directory!vars)
<1>1. Init => Directory!Init
  BY InitDirectory
<1>2. IInv /\ [Next]_vars => [Directory!Next]_(Directory!vars)
  <2>1. IInv /\ Next => [Directory!Next]_(Directory!vars)
    BY StepDirectory
  <2>2. UNCHANGED vars => [Directory!Next]_(Directory!vars)
    BY DEF vars, serviceVars, modelVars, countVars, Directory!vars, Shown
  <2> QED BY <2>1, <2>2
<1> QED BY <1>1, <1>2, Invariant, PTL DEF Spec
=============================================================================
