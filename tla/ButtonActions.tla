---------------------------- MODULE ButtonActions ----------------------------
(***************************************************************************)
(* The action of one button: as text in the profile and for xsetwacom, as  *)
(* ButtonShortcut, and in the dialog in which the user selects it.         *)
(*                                                                         *)
(*   text --set--> ButtonShortcut --toString--> text                       *)
(*                      |    ^                                             *)
(*          setShortcut v    | a selector of the dialog                    *)
(*                mouse button, modifiers, recorded key                    *)
(*                                                                         *)
(* The dialog has three selectors for what is one shortcut: what is chosen *)
(* in one resets the others, and the recorder may be waiting for a key     *)
(* while that happens.  The dialog serves events: a tablet that is removed *)
(* or selected loads the page, and may save it, while the dialog is open.  *)
(*                                                                         *)
(* A text is its words, each pressed ("" or "+") or released ("-"), after  *)
(* the word "key" or "button" or none; upper and lower case are one.       *)
(***************************************************************************)
EXTENDS Naturals, Sequences, SequencesExt

CONSTANTS
    Texts,      \* what the profile may contain at first or is edited to by hand
    Reloads,    \* bound: what is loaded while the dialog is open
    KeyPresses, \* bound: keys the user presses, with the modifiers that are down
    MouseButtons  \* bound: mouse buttons the user selects

\* CONVERT_KEY_MAP_DATA, of which the rows of letters and signs are all of one kind.
ConvertKeyMapData ==
    <<<<"alt_l", "alt">>, <<"alt_r", "alt">>, <<"alt", "alt">>,
      <<"ctrl_l", "ctrl">>, <<"ctrl_r", "ctrl">>, <<"ctrl", "ctrl">>,
      <<"pgdn", "pgdown">>, <<"plus", "+">>, <<"minus", "-">>,
      <<"super_l", "meta">>, <<"super_r", "meta">>, <<"super", "meta">>>>

\* Bound: keys of Qt by their names in QKeySequence; some have names of two words.
Spelling ==
    [k \in {"x", "1", "+", "-", "pgdown", "tab", "backtab", "return", "volume down"} |->
        IF k = "volume down" THEN <<"volume", "down">> ELSE <<k>>]
QtKey == DOMAIN Spelling
QtModifiers == <<"meta", "ctrl", "alt", "shift">>   \* in the order of toString()
Boxes == <<"ctrl", "alt", "meta", "shift">>         \* in the order of onModifierChanged
\* Bound: the numbers of buttons.
Numerals == [w \in {"0", "1", "5", "32", "33"} |->
                CASE w = "0" -> 0 [] w = "1" -> 1 [] w = "5" -> 5 [] w = "32" -> 32 [] OTHER -> 33]

\* QKeySequence of at most one key.
NoKey == [modifiers |-> {}, key |-> ""]
QKeySequence == [modifiers : SUBSET ToSet(QtModifiers), key : QtKey \cup {""}]

\* What Qt makes of a key it does not know.
Unresolved == "-1"

ASSUME InputAssumption ==
    /\ Reloads \subseteq Texts
    /\ KeyPresses \subseteq [modifiers : SUBSET ToSet(QtModifiers),
                             key : QtKey \cup ToSet(QtModifiers) \cup {"altgr", Unresolved}]
    /\ MouseButtons \subseteq {Numerals[w] : w \in DOMAIN Numerals} \cap 1..32
    /\ Texts \subseteq [head : {"", "key", "button"},
                       words : Seq([sign : {"", "+", "-"}, word : STRING])]

VARIABLES
    stored,    \* text of the button in the profile
    selected,  \* d->shortcut of the selector on the page
    open,      \* the dialog is open
    given,     \* d->shortcut of the dialog, what it returns
    shortcut,  \* d->shortcut of the widget in it
    changed,   \* the page was told of another action since it was loaded or saved
    combo,     \* mouse button that is shown; 0 for none
    boxes,     \* modifiers that are checked
    recorder,  \* KeySequenceInputButton
    astray     \* ghost: a key Qt does not know was pressed while nothing was recorded

dialogVars == <<open, given, shortcut, combo, boxes, recorder, astray>>
vars == <<stored, selected, changed, dialogVars>>

-----------------------------------------------------------------------------
(* ButtonShortcut. *)

None == [type |-> "NONE", button |-> 0, sequence |-> <<>>]

\* operator==
Same(s, that) == s.type = that.type /\ s.button = that.button /\ s.sequence = that.sequence

FromStorage(w) ==
    LET rows == {i \in DOMAIN ConvertKeyMapData : ConvertKeyMapData[i][1] = w}
    IN  IF rows = {} THEN w ELSE ConvertKeyMapData[CHOOSE i \in rows : TRUE][2]

\* Mutant of ToStorage: the first of several names is written.
TakesFirst(w) ==
    LET rows == {i \in DOMAIN ConvertKeyMapData : ConvertKeyMapData[i][2] = w}
    IN  IF rows = {} THEN w
        ELSE ConvertKeyMapData[CHOOSE i \in rows : \A j \in rows : i <= j][1]

\* The last of several names is the default.
ToStorage(w) ==
    LET rows == {i \in DOMAIN ConvertKeyMapData : ConvertKeyMapData[i][2] = w}
    IN  IF rows = {} THEN w
        ELSE ConvertKeyMapData[CHOOSE i \in rows : \A j \in rows : j <= i][1]

StorageFormat(words) == [i \in DOMAIN words |-> ToStorage(words[i])]

\* normalizeKeySequence: the words up to the first key that is released.
Normalized(text) ==
    LET released == SelectInSeq(text.words, LAMBDA w : w.sign = "-")
        last == IF released = 0 THEN Len(text.words) ELSE released - 1
    IN  [i \in 1..last |-> text.words[i].word]

\* Mutant of SetButton: no button is taken for a button.
SetsZero(n) == IF n <= 32 THEN [None EXCEPT !.type = "BUTTON", !.button = n] ELSE None

SetButton(n) == IF n \in 1..32 THEN [None EXCEPT !.type = "BUTTON", !.button = n] ELSE None

\* QKeySequence(QString): modifiers, and one key with a name of one word.
ParsedByQt(words) ==
    LET names == [i \in DOMAIN words |-> FromStorage(words[i])]
        keys == {k \in QtKey : Spelling[k] = <<Last(names)>>}
    IN  IF names = <<>> \/ ~ToSet(Front(names)) \subseteq ToSet(QtModifiers) \/ keys = {} THEN NoKey
        ELSE [modifiers |-> ToSet(Front(names)), key |-> CHOOSE k \in keys : TRUE]

\* Those of the four modifiers that are in a set, in an order.
InOrder(order, modifiers) ==
    LET Listed(i) == IF order[i] \in modifiers THEN <<order[i]>> ELSE <<>>
    IN  Listed(1) \o Listed(2) \o Listed(3) \o Listed(4)

\* QKeySequence::toString
PrintedByQt(q) == IF q = NoKey THEN <<>> ELSE InOrder(QtModifiers, q.modifiers) \o Spelling[q.key]

\* Only what comes back from Qt as it went in is accepted.
SetKeySequence(words) ==
    LET q == ParsedByQt(words)
    IN  IF q # NoKey /\ StorageFormat(PrintedByQt(q)) = StorageFormat(words)
        THEN [None EXCEPT !.type = "KEYSTROKE", !.sequence = StorageFormat(words)] ELSE None

IsButton(text) ==
    /\ text.head # "key" /\ Len(text.words) = 1
    /\ text.words[1].sign # "-" /\ text.words[1].word \in DOMAIN Numerals

IsModifier(text) ==
    /\ text.head # "button" /\ text.words # <<>>
    /\ \A i \in DOMAIN text.words :
          /\ text.words[i].sign # "-"
          /\ text.words[i].word \in ToSet(QtModifiers) \cup {"super"}

Set(text) ==
    IF text.words = <<>> THEN None
    ELSE IF IsButton(text) THEN SetButton(Numerals[text.words[1].word])
    ELSE IF IsModifier(text)
    THEN [None EXCEPT !.type = "MODIFIER", !.sequence = StorageFormat(Normalized(text))]
    ELSE IF text.head = "button" THEN None
    ELSE SetKeySequence(Normalized(text))

Words(head, sign, words) ==
    [head |-> head, words |-> [i \in DOMAIN words |-> [sign |-> sign, word |-> words[i]]]]

Numeral(n) == CHOOSE w \in DOMAIN Numerals : Numerals[w] = n

AsText(s) ==
    CASE s.type = "NONE"   -> Words("", "", <<"0">>)
      [] s.type = "BUTTON" -> Words("", "", <<Numeral(s.button)>>)
      [] OTHER             -> Words("key", "", s.sequence)

\* What xsetwacom makes of it when it is asked: keys are pressed, and all but modifiers
\* released.
AsReadFromDriver(s) ==
    CASE s.type = "KEYSTROKE" -> LET text == Words("key", "+", s.sequence)
                                 IN  [text EXCEPT !.words =
                                          Append(@, [sign |-> "-", word |-> Last(s.sequence)])]
      [] s.type = "MODIFIER"  -> Words("key", "+", s.sequence)
      [] s.type = "BUTTON"    -> Words("button", "+", <<Numeral(s.button)>>)
      [] OTHER                -> AsText(s)

-----------------------------------------------------------------------------
(* The recorder of keys. *)

Idle(q, old) == [recording |-> FALSE, sequence |-> q, old |-> old]
NewRecorder == Idle(NoKey, NoKey)

GetSequence(r) == IF r.recording THEN r.old ELSE r.sequence

\* Mutant of SetSequence: who waits for a key goes on to.
KeepsRecording(r, q) == [r EXCEPT !.sequence = q]

\* setSequence and clearSequence; recording is cancelled.
SetSequence(r, q) == Idle(q, r.old)

CancelRecording(r) == Idle(r.old, r.old)

-----------------------------------------------------------------------------
(* The dialog. *)

\* Bound: every number of a button can be selected.
ComboOf(s) == s.button

BoxesOf(s) ==
    IF s.type # "MODIFIER" THEN {}
    ELSE {m \in ToSet(Boxes) : \E w \in ToSet(s.sequence) : w = m \/ (m = "meta" /\ w = "super")}

KeyOf(s) == IF s.type = "KEYSTROKE" THEN ParsedByQt(s.sequence) ELSE NoKey

\* updateShortcutWidgets
Updated(r, s) == IF GetSequence(r) = KeyOf(s) THEN r ELSE SetSequence(r, KeyOf(s))

SetShortcut(s, r) ==
    /\ shortcut' = s
    /\ combo' = ComboOf(s)
    /\ boxes' = BoxesOf(s)
    /\ recorder' = Updated(r, s)
    /\ astray' = FALSE

OnButtonActionSelectorClicked ==
    /\ ~open
    /\ open' = TRUE
    /\ given' = selected
    /\ SetShortcut(selected, NewRecorder)
    /\ UNCHANGED <<stored, selected, changed>>

\* exec() returns, and the page is told of an action that is not the one selected now.
Close(returned) ==
    /\ open
    /\ open' = FALSE
    /\ given' = None /\ shortcut' = None /\ combo' = 0 /\ boxes' = {}
    /\ recorder' = NewRecorder /\ astray' = FALSE
    /\ selected' = IF Same(selected, returned) THEN selected ELSE returned
    /\ changed' = (changed \/ ~Same(selected, returned))
    /\ UNCHANGED stored

OnOkClicked == Close(shortcut)

\* What the dialog was opened with is returned, also to a page loaded since then.
Reject == Close(given)

InDialog == open /\ UNCHANGED <<stored, selected, changed, open, given>>

OnMouseSelectionChanged(n) == InDialog /\ n # combo /\ SetShortcut(SetButton(n), recorder)

OnModifierChanged(m) ==
    /\ InDialog
    /\ LET checked == IF m \in boxes THEN boxes \ {m} ELSE boxes \cup {m}
       IN  SetShortcut(Set(Words("", "", InOrder(Boxes, checked))), recorder)

OnClearButtonClicked == InDialog /\ SetShortcut(None, recorder)

\* "key" tells a digit from the number of a mouse button.
OnShortcutChanged(r) == SetShortcut(Set(Words("key", "", PrintedByQt(r.sequence))), r)

ClearKeySequence == InDialog /\ OnShortcutChanged(SetSequence(recorder, NoKey))

\* By a click, or by Return or Space.
StartRecording ==
    /\ InDialog
    /\ ~recorder.recording
    /\ recorder' = [recording |-> TRUE, sequence |-> NoKey, old |-> recorder.sequence]
    /\ UNCHANGED <<shortcut, combo, boxes, astray>>

\* Of modifiers alone nothing is recorded.
RecordKey(press) ==
    /\ recorder.recording
    /\ press.key \in QtKey
    /\ LET backtab == press.key = "backtab" /\ "shift" \in press.modifiers
           q == IF backtab THEN [press EXCEPT !.key = "tab"] ELSE press
           stopped == [recording |-> FALSE, sequence |-> q, old |-> recorder.old]
       IN  IF q = recorder.old
           THEN recorder' = stopped /\ UNCHANGED <<shortcut, combo, boxes, astray>>
           ELSE OnShortcutChanged(stopped)

\* Recording is cancelled, whether there is any or not.
KeyIsUnresolved ==
    /\ recorder' = CancelRecording(recorder)
    /\ astray' = (astray \/ ~recorder.recording)
    /\ UNCHANGED <<shortcut, combo, boxes>>

KeyPressEvent(press) ==
    /\ InDialog
    /\ IF press.key = Unresolved THEN KeyIsUnresolved ELSE RecordKey(press)

-----------------------------------------------------------------------------
(* The page. *)

LoadFromProfile(text) ==
    /\ stored' = text
    /\ selected' = Set(text)
    /\ changed' = FALSE
    /\ UNCHANGED dialogVars

SaveToProfile ==
    /\ stored' = AsText(selected)
    /\ changed' = FALSE
    /\ UNCHANGED <<selected, dialogVars>>

Init ==
    /\ stored \in Texts
    /\ selected = Set(stored)
    /\ changed = FALSE
    /\ open = FALSE
    /\ given = None /\ shortcut = None /\ combo = 0 /\ boxes = {}
    /\ recorder = NewRecorder /\ astray = FALSE

Next ==
    \/ \E t \in (IF open THEN Reloads ELSE Texts) \cup {stored} : LoadFromProfile(t)
    \/ SaveToProfile
    \/ OnButtonActionSelectorClicked
    \/ OnOkClicked
    \/ Reject
    \/ \E n \in MouseButtons : OnMouseSelectionChanged(n)
    \/ \E m \in ToSet(Boxes) : OnModifierChanged(m)
    \/ OnClearButtonClicked
    \/ ClearKeySequence
    \/ StartRecording
    \/ \E p \in KeyPresses : KeyPressEvent(p)

Spec == Init /\ [][Next]_vars

-----------------------------------------------------------------------------
(* Properties. *)

TextWords == {w.word : w \in UNION {ToSet(t.words) : t \in Texts}}
KeyWords == UNION {ToSet(Spelling[k]) : k \in QtKey}
TableWords == UNION {ToSet(ConvertKeyMapData[i]) : i \in DOMAIN ConvertKeyMapData}
Word == TextWords \cup KeyWords \cup TableWords \cup {"shift"}

IsShortcut(s) ==
    /\ s.type \in {"NONE", "BUTTON", "MODIFIER", "KEYSTROKE"}
    /\ s.button \in 0..32 /\ (s.type = "BUTTON") = (s.button # 0)
    /\ (s.type \in {"MODIFIER", "KEYSTROKE"}) = (s.sequence # <<>>)
    /\ s.sequence \in Seq(Word)

TypeOK ==
    /\ IsShortcut(selected) /\ IsShortcut(given) /\ IsShortcut(shortcut)
    /\ combo \in 0..32 /\ boxes \subseteq ToSet(Boxes)
    /\ recorder \in [recording : BOOLEAN, sequence : QKeySequence, old : QKeySequence]
    /\ ~open => ~recorder.recording
    /\ changed \in BOOLEAN /\ astray \in BOOLEAN

\* The three selectors of the dialog show one shortcut, the one that "OK" takes: at most
\* one of them shows anything, also when the shortcut is changed by another one while
\* the recorder waits, when what was recorded could not be taken, or when the recording
\* is cancelled.  Until the shortcut is set again the recorder is left out, if a
\* key that Qt does not know has taken its key away.
SelectorsShowShortcut ==
    open =>
        /\ combo = shortcut.button
        /\ boxes = BoxesOf(shortcut)
        /\ ~astray => /\ GetSequence(recorder) = KeyOf(shortcut)
                      /\ shortcut # None <=>
                             combo # 0 \/ boxes # {} \/ GetSequence(recorder) # NoKey

\* A shortcut that was read or selected is the same when it is read again from where it
\* was written: from the profile, and from the driver, which writes it in its own way.
\* Nothing else is selected than what would be read, unless the page knows of a change:
\* also when the page is loaded for another tablet while the dialog is open, and "Cancel"
\* brings back what was selected for the one before.
WrittenIsRead ==
    /\ Set(AsText(selected)) = selected
    /\ Set(AsReadFromDriver(selected)) = selected
    /\ ~changed => Set(stored) = selected
=============================================================================
