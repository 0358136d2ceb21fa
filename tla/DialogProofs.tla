---------------------------- MODULE DialogProofs ----------------------------
(***************************************************************************)
(* Proofs about the two dialogs of the settings module with a state of     *)
(* their own: the actions of buttons (ButtonActions) and the selection of  *)
(* an area (AreaSelection), for any tablet, screens, texts and input.      *)
(*                                                                         *)
(* ButtonActions: that a shortcut is read again as it was written, and     *)
(* that the selectors show the one shortcut there is, follows from the     *)
(* shapes a shortcut can have: whatever text is read, of the profile, of   *)
(* xsetwacom or of a selector, the outcome is no action, a button, stored  *)
(* modifiers, or words that Qt gives back as it took them.                 *)
(*                                                                         *)
(* AreaSelection: the areas that are kept are the areas that were shown    *)
(* (AreaInv), because a whole number of units is scaled, rounded and       *)
(* turned without loss (UnscaledScaled, ConvertedBack), and because        *)
(* nothing that is shown is larger than the tablet, so that filling the    *)
(* fields one by one ends where it began (FieldsAreFilled).                *)
(***************************************************************************)
EXTENDS ButtonActions, AreaSelection, SequenceTheorems, WellFoundedInduction, TLAPS

\* Texts of the words of the module.
SignedWord == [sign : {"", "+", "-"}, word : Word]
Heads == {"", "key", "button"}
Signs == {"", "+", "-"}
AnyText == [head : {"", "key", "button"}, words : Seq(SignedWord)]

\* Modifiers as they are stored.
StoredModifiers == {"alt", "ctrl", "shift", "super"}

ButtonNumbers == {Numerals[w] : w \in DOMAIN Numerals} \cap 1..32

ButtonOf(n) == [None EXCEPT !.type = "BUTTON", !.button = n]
ModifierOf(words) == [None EXCEPT !.type = "MODIFIER", !.sequence = words]
KeystrokeOf(words) == [None EXCEPT !.type = "KEYSTROKE", !.sequence = words]

\* The shapes of a shortcut: words are in storage format, and those of a keystroke are
\* accepted again.
IsModifiers(words) == words \in Seq(StoredModifiers) /\ words # <<>>
IsKeystroke(words) ==
    /\ words \in Seq(Word)
    /\ StorageFormat(words) = words
    /\ ParsedByQt(words) # NoKey
    /\ StorageFormat(PrintedByQt(ParsedByQt(words))) = words

Valid(s) ==
    \/ s = None
    \/ \E n \in ButtonNumbers : s = ButtonOf(n)
    \/ \E words : IsModifiers(words) /\ s = ModifierOf(words)
    \/ \E words : IsKeystroke(words) /\ s = KeystrokeOf(words)

-----------------------------------------------------------------------------
(* Tables. *)

\* Each name of a key is looked up in the first column or in the second.  Of several rows
\* for one name of Qt the last one is taken.
LEMMA FromStorageTable ==
    \A w : FromStorage(w) =
        CASE w \in {"alt_l", "alt_r", "alt"} -> "alt"
          [] w \in {"ctrl_l", "ctrl_r", "ctrl"} -> "ctrl"
          [] w = "pgdn" -> "pgdown" [] w = "plus" -> "+" [] w = "minus" -> "-"
          [] w \in {"super_l", "super_r", "super"} -> "meta" [] OTHER -> w
BY DEF FromStorage, ConvertKeyMapData

LEMMA ToStorageTable ==
    \A w : ToStorage(w) =
        CASE w = "pgdown" -> "pgdn" [] w = "+" -> "plus" [] w = "-" -> "minus"
          [] w = "meta" -> "super" [] OTHER -> w
BY DEF ToStorage, ConvertKeyMapData

\* What is stored is stored as it is, and read as what it was.
LEMMA StoredTwice ==
    \A w : ToStorage(ToStorage(w)) = ToStorage(w) /\ FromStorage(ToStorage(w)) = FromStorage(w)
BY FromStorageTable, ToStorageTable

\* The sets of names, row by row.
LEMMA QtKeys == QtKey = {"x", "1", "+", "-", "pgdown", "tab", "backtab", "return", "volume down"}
BY DEF QtKey, Spelling

LEMMA ModifierSets ==
    /\ ToSet(QtModifiers) = {"meta", "ctrl", "alt", "shift"}
    /\ ToSet(Boxes) = {"meta", "ctrl", "alt", "shift"}
BY DEF QtModifiers, Boxes, ToSet

LEMMA NumeralTable ==
    /\ DOMAIN Numerals = {"0", "1", "5", "32", "33"}
    /\ Numerals["0"] = 0
    /\ ButtonNumbers \subseteq 1..32
    /\ \A n \in ButtonNumbers : Numeral(n) \in DOMAIN Numerals /\ Numerals[Numeral(n)] = n
BY DEF Numerals, ButtonNumbers, Numeral

\* The words that the tables bring in.
LEMMA WordsOfTables ==
    /\ {"alt", "ctrl", "pgdn", "pgdown", "plus", "+", "minus", "-", "meta", "super", "shift"}
           \subseteq Word
    /\ \A k \in QtKey : Spelling[k] \in Seq(Word) /\ Spelling[k] # <<>>
<1>1. /\ DOMAIN ConvertKeyMapData = 1..12
      /\ ConvertKeyMapData[3] = <<"alt", "alt">> /\ ConvertKeyMapData[6] = <<"ctrl", "ctrl">>
      /\ ConvertKeyMapData[7] = <<"pgdn", "pgdown">> /\ ConvertKeyMapData[8] = <<"plus", "+">>
      /\ ConvertKeyMapData[9] = <<"minus", "-">> /\ ConvertKeyMapData[12] = <<"super", "meta">>
  BY DEF ConvertKeyMapData
<1>2. ASSUME NEW i \in DOMAIN ConvertKeyMapData, NEW a, NEW b, ConvertKeyMapData[i] = <<a, b>>
      PROVE  a \in Word /\ b \in Word
  <2>1. a \in ToSet(<<a, b>>) /\ b \in ToSet(<<a, b>>)
    BY DEF ToSet
  <2>2. a \in TableWords /\ b \in TableWords
    BY <1>2, <2>1 DEF TableWords
  <2>. QED BY <2>2 DEF Word
<1>3. {"alt", "ctrl", "pgdn", "pgdown", "plus", "+", "minus", "-", "meta", "super", "shift"}
          \subseteq Word
  BY <1>1, <1>2 DEF Word
<1>4. ASSUME NEW k \in QtKey PROVE Spelling[k] \in Seq(Word) /\ Spelling[k] # <<>>
  <2>1. ToSet(Spelling[k]) \subseteq Word
    <3>1. ToSet(Spelling[k]) \subseteq KeyWords
      BY DEF KeyWords
    <3>. QED BY <3>1 DEF Word
  <2>2. Spelling[k] = IF k = "volume down" THEN <<"volume", "down">> ELSE <<k>>
    BY QtKeys DEF Spelling
  <2>3. CASE k = "volume down"
    <3>1. Spelling[k] = <<"volume", "down">>
      BY <2>2, <2>3
    <3>2. "volume" \in Word /\ "down" \in Word
      BY <2>1, <3>1 DEF ToSet
    <3>. QED BY <3>1, <3>2
  <2>4. CASE k # "volume down"
    <3>1. Spelling[k] = <<k>>
      BY <2>2, <2>4
    <3>2. k \in Word
      BY <2>1, <3>1 DEF ToSet
    <3>. QED BY <3>1, <3>2
  <2>. QED BY <2>3, <2>4
<1>. QED BY <1>3, <1>4

LEMMA WordStored == \A w \in Word : ToStorage(w) \in Word
BY ToStorageTable, WordsOfTables

-----------------------------------------------------------------------------
(* Words and texts. *)

\* Words in storage format are words again, as many, and stay as they are.
LEMMA FormatTyped ==
    ASSUME NEW words \in Seq(Word)
    PROVE  /\ StorageFormat(words) \in Seq(Word) /\ Len(StorageFormat(words)) = Len(words)
           /\ StorageFormat(words) = <<>> <=> words = <<>>
           /\ \A i \in 1..Len(words) : StorageFormat(words)[i] = ToStorage(words[i])
           /\ StorageFormat(StorageFormat(words)) = StorageFormat(words)
<1>1. /\ DOMAIN words = 1..Len(words)
      /\ StorageFormat(words) = [i \in 1..Len(words) |-> ToStorage(words[i])]
  BY DEF StorageFormat
<1>2. StorageFormat(words) \in Seq(Word) /\ Len(StorageFormat(words)) = Len(words)
  BY <1>1, WordStored
<1>3. StorageFormat(StorageFormat(words)) = StorageFormat(words)
  <2>. DEFINE once == StorageFormat(words)
  <2>1. /\ DOMAIN once = 1..Len(words)
        /\ StorageFormat(once) = [i \in 1..Len(words) |-> ToStorage(once[i])]
    BY <1>1 DEF StorageFormat
  <2>2. \A i \in 1..Len(words) : ToStorage(once[i]) = once[i]
    BY <1>1, StoredTwice
  <2>. HIDE DEF once
  <2>3. [i \in 1..Len(words) |-> ToStorage(once[i])] = [i \in 1..Len(words) |-> once[i]]
    BY <2>2
  <2>4. once = [i \in 1..Len(words) |-> once[i]]
    BY <1>1 DEF once
  <2>. QED BY <2>1, <2>3, <2>4 DEF once
<1>4. StorageFormat(words) = <<>> <=> words = <<>>
  BY <1>2
<1>. QED BY <1>1, <1>2, <1>3, <1>4

\* The parts of a text.
LEMMA WordsTyped ==
    ASSUME NEW text \in AnyText
    PROVE  /\ text.words \in Seq(SignedWord) /\ Len(text.words) \in Nat
           /\ \A i \in 1..Len(text.words) : /\ text.words[i].sign \in {"", "+", "-"}
                                            /\ text.words[i].word \in Word
<1>1. text.words \in Seq(SignedWord)
  BY DEF AnyText
<1>2. \A i \in 1..Len(text.words) : text.words[i] \in SignedWord
  BY <1>1
<1>3. Len(text.words) \in Nat
  BY <1>1
<1>4. \A w \in SignedWord : w.sign \in {"", "+", "-"} /\ w.word \in Word
  BY DEF SignedWord
<1>. QED BY <1>1, <1>2, <1>3, <1>4

\* A set of numbers has a least one.
LEMMA Least ==
    ASSUME NEW S \in SUBSET Nat, S # {}
    PROVE  \E k \in S : \A i \in S : k <= i
<1>. DEFINE R == OpToRel(<, Nat)
<1>1. IsWellFoundedOn(R, Nat)
  BY NatLessThanWellFounded
<1>2. PICK x \in S : \A y \in S : ~ (<<y, x>> \in R)
  <2>. HIDE DEF R
  <2>. QED BY <1>1, WFMin
<1>3. \A y \in S : ~ (y < x)
  BY <1>2 DEF OpToRel
<1>. QED BY <1>3

\* A text is read up to the first word that is released.
LEMMA NormalizedUpTo ==
    ASSUME NEW text \in AnyText, NEW n \in 0..Len(text.words),
           \A i \in 1..n : text.words[i].sign # "-",
           n # Len(text.words) => text.words[n + 1].sign = "-"
    PROVE  Normalized(text) = [i \in 1..n |-> text.words[i].word]
<1>0. text.words \in Seq(SignedWord) /\ Len(text.words) \in Nat
  BY WordsTyped
<1>. DEFINE I == {i \in 1..Len(text.words) : text.words[i].sign = "-"}
            released == SelectInSeq(text.words, LAMBDA w : w.sign = "-")
            last == IF released = 0 THEN Len(text.words) ELSE released - 1
<1>1. released = IF I # {} THEN Min(I) ELSE 0
  BY DEF SelectInSeq
<1>2. CASE n = Len(text.words)
  <2>1. I = {}
    BY <1>2
  <2>2. last = n
    BY <1>1, <1>2, <2>1
  <2>. QED BY <2>2 DEF Normalized
<1>3. CASE n # Len(text.words)
  <2>1. n + 1 \in I /\ \A i \in I : n + 1 <= i
    BY <1>0, <1>3
  <2>2. Min(I) = n + 1
    <3>. HIDE DEF I
    <3>1. \A i \in I : i \in Nat
      BY <1>0 DEF I
    <3>2. Min(I) = CHOOSE x \in I : \A y \in I : x <= y
      BY DEF Min
    <3>3. Min(I) \in I /\ \A y \in I : Min(I) <= y
      BY <2>1, <3>2
    <3>. QED BY <2>1, <3>1, <3>3
  <2>3. released = n + 1
    BY <1>1, <2>1, <2>2
  <2>4. last = n
    BY <2>3
  <2>. QED BY <2>4 DEF Normalized
<1>. QED BY <1>2, <1>3

\* Whatever is left out, what is left is words.
LEMMA NormalizedTyped ==
    ASSUME NEW text \in AnyText
    PROVE  Normalized(text) \in Seq(Word)
<1>0. text.words \in Seq(SignedWord) /\ Len(text.words) \in Nat
  BY WordsTyped
<1>. DEFINE I == {i \in 1..Len(text.words) : text.words[i].sign = "-"}
            released == SelectInSeq(text.words, LAMBDA w : w.sign = "-")
            last == IF released = 0 THEN Len(text.words) ELSE released - 1
<1>1. released = IF I # {} THEN Min(I) ELSE 0
  BY DEF SelectInSeq
<1>2. I # {} => Min(I) \in I
  <2>1. SUFFICES ASSUME I # {} PROVE Min(I) \in I
    OBVIOUS
  <2>2. PICK k \in I : \A i \in I : k <= i
    <3>. HIDE DEF I
    <3>1. I \subseteq Nat /\ I # {}
      BY <1>0, <2>1 DEF I
    <3>. QED BY <3>1, Least
  <2>. HIDE DEF I
  <2>3. Min(I) = CHOOSE x \in I : \A y \in I : x <= y
    BY DEF Min
  <2>. QED BY <2>2, <2>3
<1>3. last \in 0..Len(text.words)
  BY <1>0, <1>1, <1>2
<1>4. last \in Nat /\ \A i \in 1..last : text.words[i].word \in Word
  <2>. HIDE DEF last, released, I
  <2>1. last \in Nat /\ \A i \in 1..last : i \in 1..Len(text.words)
    BY <1>0, <1>3
  <2>. QED BY <2>1, WordsTyped
<1>5. Normalized(text) = [i \in 1..last |-> text.words[i].word]
  BY DEF Normalized
<1>. QED
  <2>. HIDE DEF last, released, I
  <2>. QED BY <1>4, <1>5

-----------------------------------------------------------------------------
(* What Qt makes of words. *)

NamesOf(words) == [i \in DOMAIN words |-> FromStorage(words[i])]
KeysNamed(names) == {k \in QtKey : Spelling[k] = <<Last(names)>>}
Parsed(names) ==
    IF names = <<>> \/ ~ToSet(Front(names)) \subseteq ToSet(QtModifiers) \/ KeysNamed(names) = {}
    THEN NoKey
    ELSE [modifiers |-> ToSet(Front(names)), key |-> CHOOSE k \in KeysNamed(names) : TRUE]

\* It depends on the names of the words alone, which are those of the words as stored.
LEMMA ParsedNames ==
    /\ \A words : ParsedByQt(words) = Parsed(NamesOf(words))
    /\ \A words \in Seq(Word) : ParsedByQt(StorageFormat(words)) = ParsedByQt(words)
<1>1. \A words : ParsedByQt(words) = Parsed(NamesOf(words))
  BY DEF ParsedByQt, Parsed, NamesOf, KeysNamed
<1>2. ASSUME NEW words \in Seq(Word)
      PROVE  NamesOf(StorageFormat(words)) = NamesOf(words)
  <2>1. DOMAIN words = 1..Len(words) /\ DOMAIN StorageFormat(words) = 1..Len(words)
    BY FormatTyped
  <2>2. \A i \in 1..Len(words) : FromStorage(StorageFormat(words)[i]) = FromStorage(words[i])
    BY FormatTyped, StoredTwice
  <2>. QED BY <2>1, <2>2 DEF NamesOf
<1>. QED BY <1>1, <1>2

\* The last word is then the name of a key, and no modifier.
LEMMA ParsedTyped ==
    ASSUME NEW words \in Seq(Word)
    PROVE  /\ ParsedByQt(words) \in QKeySequence
           /\ ParsedByQt(words) # NoKey =>
                  /\ words # <<>>
                  /\ ParsedByQt(words).key \in QtKey
                  /\ words[Len(words)] \notin ToSet(QtModifiers) \cup {"super"}
<1>. DEFINE names == NamesOf(words)
<1>1. CASE ParsedByQt(words) = NoKey
  <2>1. NoKey \in QKeySequence
    BY DEF NoKey, QKeySequence
  <2>. QED BY <1>1, <2>1
<1>2. CASE ParsedByQt(words) # NoKey
  <2>1. /\ names # <<>> /\ ToSet(Front(names)) \subseteq ToSet(QtModifiers) /\ KeysNamed(names) # {}
        /\ ParsedByQt(words) =
               [modifiers |-> ToSet(Front(names)), key |-> CHOOSE k \in KeysNamed(names) : TRUE]
    BY <1>2, ParsedNames DEF Parsed
  <2>2. PICK k \in QtKey : k = ParsedByQt(words).key /\ Spelling[k] = <<Last(names)>>
    <3>1. (CHOOSE k \in KeysNamed(names) : TRUE) \in KeysNamed(names)
      BY <2>1
    <3>. QED BY <2>1, <3>1 DEF KeysNamed
  <2>3. ParsedByQt(words) \in QKeySequence
    <3>1. \A s \in SUBSET ToSet(QtModifiers), j \in QtKey :
              [modifiers |-> s, key |-> j] \in QKeySequence
      BY DEF QKeySequence
    <3>2. ParsedByQt(words) = [modifiers |-> ToSet(Front(names)), key |-> k]
      BY <2>1, <2>2
    <3>. QED BY <2>1, <3>1, <3>2
  <2>4. DOMAIN words = 1..Len(words) /\ Len(words) \in Nat /\ words # <<>>
    <3>1. DOMAIN words = 1..Len(words) /\ Len(words) \in Nat
      OBVIOUS
    <3>2. words = <<>> => names = <<>>
      BY DEF NamesOf
    <3>. QED BY <2>1, <3>1, <3>2
  <2>5. Last(names) = FromStorage(words[Len(words)])
    <3>1. names = [i \in 1..Len(words) |-> FromStorage(words[i])]
      BY <2>4 DEF NamesOf
    <3>2. Len(names) = Len(words) /\ Len(words) \in 1..Len(words)
      BY <2>4, <3>1
    <3>. HIDE DEF names
    <3>. QED BY <3>1, <3>2 DEF Last
  <2>6. Last(names) \notin {"meta", "ctrl", "alt", "shift"}
    <3>1. Spelling[k] = IF k = "volume down" THEN <<"volume", "down">> ELSE <<k>>
      BY QtKeys DEF Spelling
    <3>2. k # "volume down" /\ Last(names) = k
      <4>. HIDE DEF names
      <4>1. k # "volume down"
        <5>1. SUFFICES ASSUME k = "volume down" PROVE FALSE
          OBVIOUS
        <5>2. <<"volume", "down">> = <<Last(names)>>
          BY <2>2, <3>1, <5>1
        <5>3. Len(<<"volume", "down">>) = 2 /\ Len(<<Last(names)>>) = 1
          OBVIOUS
        <5>. QED BY <5>2, <5>3
      <4>2. <<k>> = <<Last(names)>>
        BY <2>2, <3>1, <4>1
      <4>. QED BY <4>1, <4>2
    <3>. QED BY <3>2, QtKeys
  <2>7. words[Len(words)] \notin ToSet(QtModifiers) \cup {"super"}
    BY <2>5, <2>6, FromStorageTable, ModifierSets
  <2>. QED BY <2>2, <2>3, <2>4, <2>7
<1>. QED BY <1>1, <1>2

\* What is made of modifiers and a key is words.
LEMMA InOrderTyped ==
    ASSUME NEW order \in [1..4 -> Word], NEW modifiers
    PROVE  InOrder(order, modifiers) \in Seq(Word)
<1>. DEFINE Listed(i) == IF order[i] \in modifiers THEN <<order[i]>> ELSE <<>>
<1>1. \A i \in 1..4 : Listed(i) \in Seq(Word)
  OBVIOUS
<1>2. InOrder(order, modifiers) = Listed(1) \o Listed(2) \o Listed(3) \o Listed(4)
  BY DEF InOrder
<1>. HIDE DEF Listed
<1>. QED BY <1>1, <1>2

LEMMA OrdersTyped == QtModifiers \in [1..4 -> Word] /\ Boxes \in [1..4 -> Word]
BY WordsOfTables DEF QtModifiers, Boxes

LEMMA PrintedTyped ==
    ASSUME NEW q, q = NoKey \/ q.key \in QtKey
    PROVE  PrintedByQt(q) \in Seq(Word)
<1>1. CASE q = NoKey
  BY <1>1 DEF PrintedByQt
<1>2. CASE q # NoKey
  <2>1. InOrder(QtModifiers, q.modifiers) \in Seq(Word)
    BY InOrderTyped, OrdersTyped
  <2>2. Spelling[q.key] \in Seq(Word)
    BY <1>2, WordsOfTables
  <2>. QED BY <1>2, <2>1, <2>2 DEF PrintedByQt
<1>. QED BY <1>1, <1>2

-----------------------------------------------------------------------------
(* What is read is valid. *)

\* Numbers outside of 1..32 are no action.
LEMMA ButtonValid ==
    /\ SetButton(0) = None
    /\ \A n \in ButtonNumbers : SetButton(n) = ButtonOf(n)
    /\ \A w \in DOMAIN Numerals : Valid(SetButton(Numerals[w]))
<1>1. SetButton(0) = None
  BY DEF SetButton
<1>2. \A n \in ButtonNumbers : SetButton(n) = ButtonOf(n)
  BY NumeralTable DEF SetButton, ButtonOf
<1>3. ASSUME NEW w \in DOMAIN Numerals PROVE Valid(SetButton(Numerals[w]))
  <2>1. CASE Numerals[w] \in 1..32
    <3>1. Numerals[w] \in ButtonNumbers
      BY <2>1 DEF ButtonNumbers
    <3>. QED BY <1>2, <3>1 DEF Valid
  <2>2. CASE Numerals[w] \notin 1..32
    BY <2>2 DEF SetButton, Valid
  <2>. QED BY <2>1, <2>2
<1>. QED BY <1>1, <1>2, <1>3

\* Words that Qt does not give back are no action.
LEMMA KeySequenceValid ==
    ASSUME NEW words \in Seq(Word)
    PROVE  Valid(SetKeySequence(words))
<1>. DEFINE kept == StorageFormat(words)
            q == ParsedByQt(words)
<1>1. CASE q # NoKey /\ StorageFormat(PrintedByQt(q)) = kept
  <2>1. SetKeySequence(words) = KeystrokeOf(kept)
    BY <1>1 DEF SetKeySequence, KeystrokeOf
  <2>2. kept \in Seq(Word) /\ StorageFormat(kept) = kept /\ ParsedByQt(kept) = q
    BY FormatTyped, ParsedNames
  <2>3. IsKeystroke(kept)
    BY <1>1, <2>2 DEF IsKeystroke
  <2>. QED BY <2>1, <2>3 DEF Valid
<1>2. CASE ~(q # NoKey /\ StorageFormat(PrintedByQt(q)) = kept)
  BY <1>2 DEF SetKeySequence, Valid
<1>. QED BY <1>1, <1>2

\* Nothing of modifiers is left out.
LEMMA ModifiersRead ==
    ASSUME NEW text \in AnyText, text.words # <<>>, IsModifier(text)
    PROVE  /\ Normalized(text) = [i \in 1..Len(text.words) |-> text.words[i].word]
           /\ IsModifiers(StorageFormat(Normalized(text)))
<1>1. /\ text.words \in Seq(SignedWord) /\ Len(text.words) \in Nat
      /\ DOMAIN text.words = 1..Len(text.words)
  <2>1. text.words \in Seq(SignedWord)
    BY WordsTyped
  <2>. QED BY <2>1
<1>2. \A i \in 1..Len(text.words) :
          /\ text.words[i].sign # "-"
          /\ text.words[i].word \in {"meta", "ctrl", "alt", "shift", "super"}
  BY <1>1, ModifierSets DEF IsModifier
<1>3. Normalized(text) = [i \in 1..Len(text.words) |-> text.words[i].word]
  BY <1>1, <1>2, NormalizedUpTo
<1>4. Normalized(text) \in Seq(Word) /\ Len(Normalized(text)) = Len(text.words)
  BY <1>1, <1>3, NormalizedTyped
<1>5. \A i \in 1..Len(text.words) : StorageFormat(Normalized(text))[i] \in StoredModifiers
  <2>1. \A i \in 1..Len(text.words) :
            StorageFormat(Normalized(text))[i] = ToStorage(text.words[i].word)
    BY <1>3, <1>4, FormatTyped
  <2>2. \A w \in {"meta", "ctrl", "alt", "shift", "super"} : ToStorage(w) \in StoredModifiers
    BY ToStorageTable DEF StoredModifiers
  <2>. QED BY <1>2, <2>1, <2>2
<1>6. /\ StorageFormat(Normalized(text)) \in Seq(Word)
      /\ Len(StorageFormat(Normalized(text))) = Len(text.words)
  BY <1>4, FormatTyped
<1>7. Len(text.words) # 0
  BY <1>1
<1>8. /\ StorageFormat(Normalized(text)) \in Seq(StoredModifiers)
      /\ StorageFormat(Normalized(text)) # <<>>
  BY <1>1, <1>5, <1>6, <1>7
<1>. QED BY <1>3, <1>8 DEF IsModifiers

\* Whatever text is read.
LEMMA SetIsValid ==
    ASSUME NEW text \in AnyText
    PROVE  Valid(Set(text))
<1>1. CASE text.words = <<>>
  BY <1>1 DEF Set, Valid
<1>2. CASE text.words # <<>> /\ IsButton(text)
  <2>1. text.words[1].word \in DOMAIN Numerals
    BY <1>2 DEF IsButton
  <2>2. Set(text) = SetButton(Numerals[text.words[1].word])
    BY <1>2 DEF Set
  <2>. QED BY <2>1, <2>2, ButtonValid
<1>3. CASE text.words # <<>> /\ ~IsButton(text) /\ IsModifier(text)
  <2>1. Set(text) = ModifierOf(StorageFormat(Normalized(text)))
    BY <1>3 DEF Set, ModifierOf
  <2>2. IsModifiers(StorageFormat(Normalized(text)))
    BY <1>3, ModifiersRead
  <2>. QED BY <2>1, <2>2 DEF Valid
<1>4. CASE text.words # <<>> /\ ~IsButton(text) /\ ~IsModifier(text)
  <2>1. Set(text) = None \/ Set(text) = SetKeySequence(Normalized(text))
    BY <1>4 DEF Set
  <2>2. Valid(SetKeySequence(Normalized(text)))
    BY NormalizedTyped, KeySequenceValid
  <2>. QED BY <2>1, <2>2 DEF Valid
<1>. QED BY <1>1, <1>2, <1>3, <1>4

\* A text that is written.
LEMMA WordsAreText ==
    ASSUME NEW h \in Heads, NEW g \in Signs, NEW ws \in Seq(Word)
    PROVE  /\ Words(h, g, ws) \in AnyText
           /\ Words(h, g, ws).head = h
           /\ Len(Words(h, g, ws).words) = Len(ws)
           /\ \A i \in 1..Len(ws) : /\ Words(h, g, ws).words[i].sign = g
                                    /\ Words(h, g, ws).words[i].word = ws[i]
<1>1. DOMAIN ws = 1..Len(ws) /\ Len(ws) \in Nat
  OBVIOUS
<1>. DEFINE signed == [i \in 1..Len(ws) |-> [sign |-> g, word |-> ws[i]]]
<1>2. Words(h, g, ws) = [head |-> h, words |-> signed]
  BY <1>1 DEF Words
<1>3. \A w \in Word : [sign |-> g, word |-> w] \in SignedWord
  BY DEF SignedWord, Signs
<1>4. signed \in Seq(SignedWord) /\ Len(signed) = Len(ws)
  BY <1>1, <1>3
<1>5. \A i \in 1..Len(ws) : signed[i].sign = g /\ signed[i].word = ws[i]
  OBVIOUS
<1>. HIDE DEF signed
<1>6. Words(h, g, ws) \in AnyText
  <2>1. \A y \in Seq(SignedWord), x \in Heads : [head |-> x, words |-> y] \in AnyText
    BY DEF AnyText, Heads
  <2>. QED BY <1>2, <1>4, <2>1
<1>. QED BY <1>2, <1>4, <1>5, <1>6

\* The word of one button is read as its number.
LEMMA NumeralIsRead ==
    ASSUME NEW h \in Heads, h # "key", NEW g \in Signs, g # "-", NEW w \in DOMAIN Numerals
    PROVE  Set(Words(h, g, <<w>>)) = SetButton(Numerals[w])
<1>. DEFINE x == [i \in 1..1 |-> [sign |-> g, word |-> w]]
<1>1. DOMAIN <<w>> = 1..1 /\ <<w>>[1] = w
  OBVIOUS
<1>2. Words(h, g, <<w>>) = [head |-> h, words |-> x]
  <2>1. Words(h, g, <<w>>) =
            [head |-> h, words |-> [i \in DOMAIN <<w>> |-> [sign |-> g, word |-> <<w>>[i]]]]
    BY DEF Words
  <2>2. [i \in 1..1 |-> [sign |-> g, word |-> <<w>>[i]]] = x
    BY <1>1
  <2>. QED BY <1>1, <2>1, <2>2
<1>3. Len(x) = 1 /\ x[1].sign = g /\ x[1].word = w
  OBVIOUS
<1>. HIDE DEF x
<1>4. x # <<>>
  <2>1. Len(<<>>) = 0
    OBVIOUS
  <2>2. x = <<>> => Len(x) = Len(<<>>)
    OBVIOUS
  <2>. QED BY ONLY <1>3, <2>1, <2>2
<1>5. PICK text : text = Words(h, g, <<w>>) /\ text.head = h /\ text.words = x
  BY <1>2
<1>6. IsButton(text)
  BY <1>3, <1>5 DEF IsButton
<1>7. Set(text) = SetButton(Numerals[w])
  BY <1>3, <1>4, <1>5, <1>6 DEF Set
<1>. QED BY <1>5, <1>7

\* A text with one more word that is released.
LEMMA ReleasedIsText ==
    ASSUME NEW text \in AnyText, NEW r \in Signs, NEW w \in Word
    PROVE  \E more \in AnyText :
               /\ more = [text EXCEPT !.words = Append(@, [sign |-> r, word |-> w])]
               /\ more.head = text.head
               /\ Len(more.words) = Len(text.words) + 1
               /\ \A i \in 1..Len(text.words) : more.words[i] = text.words[i]
               /\ more.words[Len(text.words) + 1].sign = r
<1>1. [sign |-> r, word |-> w] \in SignedWord
  BY DEF SignedWord, Signs
<1>2. PICK a \in SignedWord : a = [sign |-> r, word |-> w] /\ a.sign = r
  BY <1>1
<1>3. /\ text.words \in Seq(SignedWord) /\ text.head \in Heads
      /\ text = [head |-> text.head, words |-> text.words]
  BY DEF AnyText, Heads
<1>4. PICK h \in Heads, x \in Seq(SignedWord) :
          h = text.head /\ x = text.words /\ text = [head |-> h, words |-> x]
  BY <1>3
<1>5. \A y \in Seq(SignedWord) : [head |-> h, words |-> y] \in AnyText
  BY DEF AnyText, Heads
<1>6. PICK y \in Seq(SignedWord) : y = Append(x, a)
  <2>1. Append(x, a) \in Seq(SignedWord)
    OBVIOUS
  <2>. QED BY <2>1
<1>7. Len(y) = Len(x) + 1 /\ y[Len(x) + 1] = a /\ \A i \in 1..Len(x) : y[i] = x[i]
  BY <1>6
<1>8. [text EXCEPT !.words = Append(@, a)] = [head |-> h, words |-> y]
  <2>1. [[head |-> h, words |-> x] EXCEPT !.words = y] = [head |-> h, words |-> y]
    OBVIOUS
  <2>2. Append(text.words, a) = y
    BY <1>4, <1>6
  <2>. QED BY ONLY <1>4, <2>1, <2>2
<1>9. PICK more \in AnyText : more = [head |-> h, words |-> y] /\ more.head = h /\ more.words = y
  BY <1>5
<1>. QED BY <1>2, <1>4, <1>7, <1>8, <1>9

-----------------------------------------------------------------------------
(* What is valid is read as it is written. *)

\* Stored words are stored as they are.
LEMMA ModifiersKept ==
    ASSUME NEW words, IsModifiers(words)
    PROVE  words \in Seq(Word) /\ Len(words) \in Nat \ {0} /\ StorageFormat(words) = words
<1>1. words \in Seq(StoredModifiers) /\ words # <<>>
  BY DEF IsModifiers
<1>2. StoredModifiers \subseteq Word
  BY WordsOfTables DEF StoredModifiers
<1>3. words \in Seq(Word) /\ Len(words) \in Nat \ {0} /\ DOMAIN words = 1..Len(words)
  BY <1>1, <1>2
<1>4. \A w \in StoredModifiers : ToStorage(w) = w
  BY ToStorageTable DEF StoredModifiers
<1>5. \A i \in 1..Len(words) : ToStorage(words[i]) = words[i]
  BY <1>1, <1>4
<1>6. words = [i \in 1..Len(words) |-> words[i]]
  BY <1>3
<1>7. StorageFormat(words) = [i \in 1..Len(words) |-> ToStorage(words[i])]
  BY <1>3 DEF StorageFormat
<1>8. [i \in 1..Len(words) |-> ToStorage(words[i])] = [i \in 1..Len(words) |-> words[i]]
  BY <1>5
<1>. QED BY <1>3, <1>6, <1>7, <1>8

\* A text that begins with words that are pressed, and ends there or goes on with one
\* that is released, is read as those words.
LEMMA ReadWords ==
    ASSUME NEW text \in AnyText, NEW ws \in Seq(Word), Len(ws) <= Len(text.words),
           \A i \in 1..Len(ws) : text.words[i].sign # "-" /\ text.words[i].word = ws[i],
           Len(ws) # Len(text.words) => text.words[Len(ws) + 1].sign = "-"
    PROVE  Normalized(text) = ws
<1>1. Len(ws) \in 0..Len(text.words) /\ DOMAIN ws = 1..Len(ws)
  <2>1. Len(text.words) \in Nat
    BY WordsTyped
  <2>2. Len(ws) \in Nat /\ DOMAIN ws = 1..Len(ws)
    OBVIOUS
  <2>. QED BY <2>1, <2>2
<1>2. Normalized(text) = [i \in 1..Len(ws) |-> text.words[i].word]
  BY <1>1, NormalizedUpTo
<1>3. ws = [i \in 1..Len(ws) |-> ws[i]]
  BY <1>1
<1>. QED BY <1>2, <1>3

\* Modifiers that are pressed are read as modifiers.
LEMMA ModifiersAreRead ==
    ASSUME NEW text \in AnyText, text.head = "key", NEW words, IsModifiers(words),
           Len(text.words) = Len(words),
           \A i \in 1..Len(words) : text.words[i].sign # "-" /\ text.words[i].word = words[i]
    PROVE  Set(text) = ModifierOf(words)
<1>1. words \in Seq(Word) /\ Len(words) \in Nat \ {0} /\ StorageFormat(words) = words
  BY ModifiersKept
<1>2. Normalized(text) = words
  BY <1>1, ReadWords
<1>3. text.words \in Seq(SignedWord) /\ DOMAIN text.words = 1..Len(words) /\ text.words # <<>>
  <2>1. text.words \in Seq(SignedWord)
    BY WordsTyped
  <2>. QED BY <1>1, <2>1
<1>4. \A i \in 1..Len(words) : words[i] \in ToSet(QtModifiers) \cup {"super"}
  <2>1. words \in Seq(StoredModifiers)
    BY DEF IsModifiers
  <2>2. \A i \in 1..Len(words) : words[i] \in StoredModifiers
    BY <2>1
  <2>. QED BY <2>2, ModifierSets DEF StoredModifiers
<1>5. IsModifier(text) /\ ~IsButton(text)
  BY <1>3, <1>4 DEF IsModifier, IsButton
<1>. QED BY <1>1, <1>2, <1>3, <1>5 DEF Set, ModifierOf

\* A keystroke is read as one, its key being released or not.
LEMMA KeystrokeIsRead ==
    ASSUME NEW text \in AnyText, text.head = "key", NEW words, IsKeystroke(words),
           Len(words) <= Len(text.words),
           \A i \in 1..Len(words) : text.words[i].sign # "-" /\ text.words[i].word = words[i],
           Len(words) # Len(text.words) => text.words[Len(words) + 1].sign = "-"
    PROVE  Set(text) = KeystrokeOf(words)
<1>1. /\ words \in Seq(Word) /\ StorageFormat(words) = words
      /\ ParsedByQt(words) # NoKey
      /\ StorageFormat(PrintedByQt(ParsedByQt(words))) = words
  BY DEF IsKeystroke
<1>2. Normalized(text) = words
  BY <1>1, ReadWords
<1>3. words # <<>> /\ words[Len(words)] \notin ToSet(QtModifiers) \cup {"super"}
  BY <1>1, ParsedTyped
<1>4. Len(words) \in Nat \ {0} /\ Len(words) \in 1..Len(words)
  BY <1>1, <1>3
<1>5. text.words # <<>> /\ DOMAIN text.words = 1..Len(text.words) /\ Len(text.words) \in Nat
  <2>1. text.words \in Seq(SignedWord)
    BY WordsTyped
  <2>. QED BY <1>4, <2>1
<1>6. ~IsButton(text)
  BY DEF IsButton
<1>7. ~IsModifier(text)
  <2>1. Len(words) \in DOMAIN text.words /\ text.words[Len(words)].word = words[Len(words)]
    BY <1>4, <1>5
  <2>. QED BY <1>3, <2>1 DEF IsModifier
<1>8. Set(text) = SetKeySequence(words)
  BY <1>2, <1>5, <1>6, <1>7 DEF Set
<1>. QED BY <1>1, <1>8 DEF SetKeySequence, KeystrokeOf

\* The fields of the four shapes.
LEMMA ShapesAre ==
    /\ None.type = "NONE" /\ None.button = 0 /\ None.sequence = <<>>
    /\ \A n : /\ ButtonOf(n).type = "BUTTON" /\ ButtonOf(n).button = n
              /\ ButtonOf(n).sequence = <<>>
    /\ \A words : /\ ModifierOf(words).type = "MODIFIER" /\ ModifierOf(words).button = 0
                  /\ ModifierOf(words).sequence = words
    /\ \A words : /\ KeystrokeOf(words).type = "KEYSTROKE" /\ KeystrokeOf(words).button = 0
                  /\ KeystrokeOf(words).sequence = words
BY DEF None, ButtonOf, ModifierOf, KeystrokeOf

\* A shortcut is read again as it was written, from the profile and from the driver.
LEMMA ValidIsRead ==
    ASSUME NEW s, Valid(s)
    PROVE  Set(AsText(s)) = s /\ Set(AsReadFromDriver(s)) = s
<1>1. "" \in Signs /\ "+" \in Signs /\ "-" \in Signs /\ "" # "-" /\ "+" # "-"
  BY DEF Signs
<1>2. "" \in Heads /\ "key" \in Heads /\ "button" \in Heads /\ "" # "key" /\ "button" # "key"
  BY DEF Heads
<1>3. CASE s = None
  <2>1. AsText(s) = Words("", "", <<"0">>) /\ AsReadFromDriver(s) = AsText(s)
    BY <1>3, ShapesAre DEF AsText, AsReadFromDriver
  <2>2. Set(AsText(s)) = SetButton(0)
    <3>1. "0" \in DOMAIN Numerals /\ Numerals["0"] = 0
      BY NumeralTable
    <3>2. \A h \in Heads, g \in Signs :
              h # "key" /\ g # "-" => Set(Words(h, g, <<"0">>)) = SetButton(0)
      BY <3>1, NumeralIsRead
    <3>. QED BY ONLY <1>1, <1>2, <2>1, <3>2
  <2>. QED BY <1>3, <2>1, <2>2, ButtonValid
<1>4. ASSUME NEW n \in ButtonNumbers, s = ButtonOf(n)
      PROVE  Set(AsText(s)) = s /\ Set(AsReadFromDriver(s)) = s
  <2>1. s.type = "BUTTON" /\ s.button = n
    BY <1>4, ShapesAre
  <2>2. /\ AsText(s) = Words("", "", <<Numeral(n)>>)
        /\ AsReadFromDriver(s) = Words("button", "+", <<Numeral(n)>>)
    BY <2>1 DEF AsText, AsReadFromDriver
  <2>3. Numeral(n) \in DOMAIN Numerals /\ Numerals[Numeral(n)] = n
    BY NumeralTable
  <2>4. Set(AsText(s)) = SetButton(n) /\ Set(AsReadFromDriver(s)) = SetButton(n)
    <3>1. \A h \in Heads, g \in Signs :
              h # "key" /\ g # "-" => Set(Words(h, g, <<Numeral(n)>>)) = SetButton(n)
      BY <2>3, NumeralIsRead
    <3>. QED BY ONLY <1>1, <1>2, <2>2, <3>1
  <2>. QED BY <1>4, <2>4, ButtonValid
<1>5. ASSUME NEW words, IsModifiers(words), s = ModifierOf(words)
      PROVE  Set(AsText(s)) = s /\ Set(AsReadFromDriver(s)) = s
  <2>1. s.type = "MODIFIER" /\ s.sequence = words
    BY <1>5, ShapesAre
  <2>2. words \in Seq(Word)
    BY <1>5, ModifiersKept
  <2>3. AsText(s) = Words("key", "", words) /\ AsReadFromDriver(s) = Words("key", "+", words)
    BY <2>1 DEF AsText, AsReadFromDriver
  <2>4. ASSUME NEW h \in Heads, h = "key", NEW g \in Signs, g # "-"
        PROVE  Set(Words(h, g, words)) = s
    <3>. DEFINE text == Words(h, g, words)
    <3>1. /\ text \in AnyText /\ text.head = h /\ Len(text.words) = Len(words)
          /\ \A i \in 1..Len(words) : text.words[i].sign = g /\ text.words[i].word = words[i]
      BY <2>2, WordsAreText
    <3>. HIDE DEF text
    <3>2. Set(text) = s
      BY <1>5, <2>4, <3>1, ModifiersAreRead
    <3>. QED BY <3>2 DEF text
  <2>. QED BY <1>1, <1>2, <2>3, <2>4
<1>6. ASSUME NEW words, IsKeystroke(words), s = KeystrokeOf(words)
      PROVE  Set(AsText(s)) = s /\ Set(AsReadFromDriver(s)) = s
  <2>1. s.type = "KEYSTROKE" /\ s.sequence = words
    BY <1>6, ShapesAre
  <2>2. words \in Seq(Word) /\ words # <<>> /\ Len(words) \in Nat
    <3>1. words \in Seq(Word) /\ ParsedByQt(words) # NoKey
      BY <1>6 DEF IsKeystroke
    <3>. QED BY <3>1, ParsedTyped
  <2>3. ASSUME NEW h \in Heads, h = "key", NEW g \in Signs, g # "-"
        PROVE  \E text \in AnyText :
                   /\ text = Words(h, g, words) /\ text.head = "key" /\ Len(text.words) = Len(words)
                   /\ \A i \in 1..Len(words) : text.words[i].sign # "-" /\ text.words[i].word = words[i]
    <3>. DEFINE text == Words(h, g, words)
    <3>1. /\ text \in AnyText /\ text.head = h /\ Len(text.words) = Len(words)
          /\ \A i \in 1..Len(words) : text.words[i].sign = g /\ text.words[i].word = words[i]
      BY <2>2, WordsAreText
    <3>. HIDE DEF text
    <3>2. text = Words(h, g, words)
      BY DEF text
    <3>. QED BY <2>3, <3>1, <3>2
  <2>4. Set(AsText(s)) = s
    <3>1. AsText(s) = Words("key", "", words)
      BY <2>1 DEF AsText
    <3>2. PICK text \in AnyText :
              /\ text = AsText(s) /\ text.head = "key" /\ Len(text.words) = Len(words)
              /\ \A i \in 1..Len(words) : text.words[i].sign # "-" /\ text.words[i].word = words[i]
      BY <1>1, <1>2, <2>3, <3>1
    <3>3. Set(text) = s
      BY <1>6, <2>2, <3>2, KeystrokeIsRead
    <3>. QED BY <3>2, <3>3
  <2>5. Set(AsReadFromDriver(s)) = s
    <3>1. AsReadFromDriver(s) = [Words("key", "+", words) EXCEPT !.words =
                                     Append(@, [sign |-> "-", word |-> Last(words)])]
      BY <2>1 DEF AsReadFromDriver
    <3>2. PICK text \in AnyText :
              /\ text = Words("key", "+", words) /\ text.head = "key" /\ Len(text.words) = Len(words)
              /\ \A i \in 1..Len(words) : text.words[i].sign # "-" /\ text.words[i].word = words[i]
      BY <1>1, <1>2, <2>3
    <3>3. Last(words) \in Word
      BY <2>2 DEF Last
    <3>4. PICK more \in AnyText :
              /\ more = AsReadFromDriver(s) /\ more.head = "key"
              /\ Len(more.words) = Len(words) + 1
              /\ \A i \in 1..Len(words) : more.words[i] = text.words[i]
              /\ more.words[Len(words) + 1].sign = "-"
      <4>1. PICK r \in Signs : r = "-"
        BY <1>1
      <4>2. PICK more \in AnyText :
                /\ more = [text EXCEPT !.words = Append(@, [sign |-> r, word |-> Last(words)])]
                /\ more.head = text.head /\ Len(more.words) = Len(text.words) + 1
                /\ \A i \in 1..Len(text.words) : more.words[i] = text.words[i]
                /\ more.words[Len(text.words) + 1].sign = r
        BY <3>3, ReleasedIsText
      <4>3. more = AsReadFromDriver(s)
        BY ONLY <3>1, <3>2, <4>1, <4>2
      <4>. QED BY <3>2, <4>1, <4>2, <4>3
    <3>5. Set(more) = s
      BY <1>6, <2>2, <3>2, <3>4, KeystrokeIsRead
    <3>. QED BY <3>4, <3>5
  <2>. QED BY <2>4, <2>5
<1>. QED BY <1>3, <1>4, <1>5, <1>6 DEF Valid

-----------------------------------------------------------------------------
(* What the selectors show of a valid shortcut. *)

LEMMA NoKeyTyped == NoKey \in QKeySequence
BY DEF NoKey, QKeySequence

\* A valid shortcut holds what its kind has, and what it shows fits the selectors.
LEMMA ValidTyped ==
    ASSUME NEW s, Valid(s)
    PROVE  /\ IsShortcut(s)
           /\ ComboOf(s) \in 0..32 /\ BoxesOf(s) \subseteq ToSet(Boxes) /\ KeyOf(s) \in QKeySequence
<1>1. BoxesOf(s) \subseteq ToSet(Boxes)
  BY DEF BoxesOf
<1>2. CASE s = None
  <2>1. s.type = "NONE" /\ s.button = 0 /\ s.sequence = <<>> /\ <<>> \in Seq(Word)
    BY <1>2, ShapesAre
  <2>. QED BY <1>1, <2>1, NoKeyTyped DEF IsShortcut, ComboOf, KeyOf
<1>3. ASSUME NEW n \in ButtonNumbers, s = ButtonOf(n)
      PROVE  IsShortcut(s) /\ ComboOf(s) \in 0..32 /\ KeyOf(s) \in QKeySequence
  <2>1. s.type = "BUTTON" /\ s.button = n /\ s.sequence = <<>> /\ <<>> \in Seq(Word)
    BY <1>3, ShapesAre
  <2>2. n \in 1..32
    BY NumeralTable
  <2>. QED BY <2>1, <2>2, NoKeyTyped DEF IsShortcut, ComboOf, KeyOf
<1>4. ASSUME NEW words, IsModifiers(words), s = ModifierOf(words)
      PROVE  IsShortcut(s) /\ ComboOf(s) \in 0..32 /\ KeyOf(s) \in QKeySequence
  <2>1. s.type = "MODIFIER" /\ s.button = 0 /\ s.sequence = words
    BY <1>4, ShapesAre
  <2>2. words \in Seq(Word) /\ words # <<>>
    BY <1>4, ModifiersKept DEF IsModifiers
  <2>. QED BY <2>1, <2>2, NoKeyTyped DEF IsShortcut, ComboOf, KeyOf
<1>5. ASSUME NEW words, IsKeystroke(words), s = KeystrokeOf(words)
      PROVE  IsShortcut(s) /\ ComboOf(s) \in 0..32 /\ KeyOf(s) \in QKeySequence
  <2>1. s.type = "KEYSTROKE" /\ s.button = 0 /\ s.sequence = words
    BY <1>5, ShapesAre
  <2>2. words \in Seq(Word) /\ ParsedByQt(words) # NoKey
    BY <1>5 DEF IsKeystroke
  <2>3. words # <<>> /\ ParsedByQt(words) \in QKeySequence
    BY <2>2, ParsedTyped
  <2>. QED BY <2>1, <2>2, <2>3 DEF IsShortcut, ComboOf, KeyOf
<1>. QED BY <1>1, <1>2, <1>3, <1>4, <1>5 DEF Valid

\* Each kind but none shows in the selector of that kind.
LEMMA ValidShown ==
    ASSUME NEW s, Valid(s)
    PROVE  s # None <=> ComboOf(s) # 0 \/ BoxesOf(s) # {} \/ KeyOf(s) # NoKey
<1>1. CASE s = None
  BY <1>1, ShapesAre DEF ComboOf, BoxesOf, KeyOf
<1>2. ASSUME NEW n \in ButtonNumbers, s = ButtonOf(n)
      PROVE  s # None /\ ComboOf(s) # 0
  <2>1. s.type = "BUTTON" /\ s.button = n /\ None.type = "NONE"
    BY <1>2, ShapesAre
  <2>2. n \in 1..32
    BY NumeralTable
  <2>. QED BY <2>1, <2>2 DEF ComboOf
<1>3. ASSUME NEW words, IsModifiers(words), s = ModifierOf(words)
      PROVE  s # None /\ BoxesOf(s) # {}
  <2>1. s.type = "MODIFIER" /\ s.sequence = words /\ None.type = "NONE"
    BY <1>3, ShapesAre
  <2>2. words \in Seq(StoredModifiers) /\ Len(words) \in Nat \ {0}
    BY <1>3, ModifiersKept DEF IsModifiers
  <2>3. words[1] \in {"alt", "ctrl", "shift", "super"} /\ words[1] \in ToSet(words)
    <3>1. words[1] \in StoredModifiers /\ 1 \in DOMAIN words
      BY <2>2
    <3>. QED BY <3>1 DEF StoredModifiers, ToSet
  <2>4. \E m \in ToSet(Boxes) : words[1] = m \/ (m = "meta" /\ words[1] = "super")
    BY <2>3, ModifierSets
  <2>5. BoxesOf(s) =
            {m \in ToSet(Boxes) : \E w \in ToSet(words) : w = m \/ (m = "meta" /\ w = "super")}
    BY <2>1 DEF BoxesOf
  <2>6. BoxesOf(s) # {}
    BY <2>3, <2>4, <2>5
  <2>. QED BY <2>1, <2>6
<1>4. ASSUME NEW words, IsKeystroke(words), s = KeystrokeOf(words)
      PROVE  s # None /\ KeyOf(s) # NoKey
  <2>1. s.type = "KEYSTROKE" /\ s.sequence = words /\ None.type = "NONE"
    BY <1>4, ShapesAre
  <2>2. ParsedByQt(words) # NoKey
    BY <1>4 DEF IsKeystroke
  <2>. QED BY <2>1, <2>2 DEF KeyOf
<1>. QED BY <1>1, <1>2, <1>3, <1>4 DEF Valid

-----------------------------------------------------------------------------
(* The dialog and the page. *)

Recorder == [recording : BOOLEAN, sequence : QKeySequence, old : QKeySequence]

\* What the selectors show is what the widget has; the recorder may have lost its key.
Shown ==
    /\ combo = ComboOf(shortcut)
    /\ boxes = BoxesOf(shortcut)
    /\ ~astray => GetSequence(recorder) = KeyOf(shortcut)

\* Of the text in the profile is known that it is read as a shortcut, and as which one
\* while the page knows of no change.
IInv ==
    /\ Valid(selected) /\ Valid(given) /\ Valid(shortcut) /\ Valid(Set(stored))
    /\ astray \in BOOLEAN /\ changed \in BOOLEAN /\ (~changed => Set(stored) = selected)
    /\ combo \in 0..32 /\ boxes \subseteq ToSet(Boxes) /\ recorder \in Recorder
    /\ ~open => ~recorder.recording
    /\ open => Shown

\* The recorder, idle or not.
LEMMA RecorderFields ==
    /\ \A r \in Recorder : /\ r.recording \in BOOLEAN /\ r.sequence \in QKeySequence
                           /\ r.old \in QKeySequence
    /\ \A q \in QKeySequence, o \in QKeySequence :
           Idle(q, o) \in Recorder /\ ~Idle(q, o).recording /\ Idle(q, o).sequence = q
    /\ NewRecorder \in Recorder /\ ~NewRecorder.recording
    /\ \A q \in QKeySequence, o \in QKeySequence, b \in BOOLEAN :
           [recording |-> b, sequence |-> q, old |-> o] \in Recorder
<1>1. NoKey \in QKeySequence
  BY NoKeyTyped
<1>. QED BY <1>1 DEF Recorder, Idle, NewRecorder

\* Any way of setting the shortcut leaves the selectors showing it.
LEMMA SetShortcutShows ==
    ASSUME NEW s, Valid(s), NEW r \in Recorder, SetShortcut(s, r)
    PROVE  /\ Valid(shortcut')
           /\ combo' \in 0..32 /\ boxes' \subseteq ToSet(Boxes) /\ recorder' \in Recorder
           /\ astray' = FALSE
           /\ Shown'
<1>1. /\ shortcut' = s /\ combo' = ComboOf(s) /\ boxes' = BoxesOf(s) /\ recorder' = Updated(r, s)
      /\ astray' = FALSE
  BY DEF SetShortcut
<1>2. ComboOf(s) \in 0..32 /\ BoxesOf(s) \subseteq ToSet(Boxes) /\ KeyOf(s) \in QKeySequence
  BY ValidTyped
<1>3. Updated(r, s) \in Recorder /\ GetSequence(Updated(r, s)) = KeyOf(s)
  <2>1. CASE GetSequence(r) = KeyOf(s)
    BY <2>1 DEF Updated
  <2>2. CASE GetSequence(r) # KeyOf(s)
    <3>1. Updated(r, s) = Idle(KeyOf(s), r.old) /\ r.old \in QKeySequence
      BY <2>2, RecorderFields DEF Updated, SetSequence
    <3>. QED BY <1>2, <3>1, RecorderFields DEF GetSequence
  <2>. QED BY <2>1, <2>2
<1>. QED BY <1>1, <1>2, <1>3 DEF Shown

\* The texts of the profile are texts of the words of the module.
LEMMA TextsAreAny == Texts \subseteq AnyText
<1>. DEFINE Raw == [sign : {"", "+", "-"}, word : STRING]
<1>1. ASSUME NEW t \in Texts PROVE t \in AnyText
  <2>1. /\ t.head \in {"", "key", "button"} /\ t.words \in Seq(Raw)
        /\ t = [head |-> t.head, words |-> t.words]
    BY InputAssumption DEF InputAssumption
  <2>2. \A x \in Raw : x.word \in Word => x \in SignedWord
    BY DEF SignedWord
  <2>. HIDE DEF Raw
  <2>3. DOMAIN t.words = 1..Len(t.words) /\ Len(t.words) \in Nat
    <3>1. t.words \in Seq(Raw)
      BY <2>1
    <3>. QED BY <3>1
  <2>4. ASSUME NEW i \in 1..Len(t.words) PROVE t.words[i] \in SignedWord
    <3>1. t.words \in Seq(Raw)
      BY <2>1
    <3>2. t.words[i] \in Raw
      BY <3>1
    <3>3. t.words[i] \in ToSet(t.words)
      BY <2>3 DEF ToSet
    <3>4. t.words[i] \in UNION {ToSet(x.words) : x \in Texts}
      BY <3>3
    <3>5. t.words[i].word \in TextWords
      BY <3>4 DEF TextWords
    <3>6. t.words[i].word \in Word
      BY <3>5 DEF Word
    <3>. QED BY <2>2, <3>2, <3>6
  <2>5. t.words \in Seq(SignedWord)
    <3>1. t.words \in Seq(Raw)
      BY <2>1
    <3>2. t.words = [i \in 1..Len(t.words) |-> t.words[i]]
      BY <2>3, <3>1
    <3>3. [i \in 1..Len(t.words) |-> t.words[i]] \in Seq(SignedWord)
      BY <2>3, <2>4
    <3>. QED BY <3>2, <3>3
  <2>. QED BY <2>1, <2>5 DEF AnyText
<1>. QED BY <1>1

-----------------------------------------------------------------------------
(* The invariant. *)

\* The page is loaded and the dialog is closed.
LEMMA InitIsInvariant == Init => IInv
<1>. SUFFICES ASSUME Init PROVE IInv
  OBVIOUS
<1>1. stored \in AnyText /\ selected = Set(stored) /\ ~open /\ changed = FALSE
  BY TextsAreAny DEF Init
<1>2. Valid(selected) /\ Valid(Set(stored))
  BY <1>1, SetIsValid
<1>3. /\ given = None /\ shortcut = None /\ combo = 0 /\ boxes = {}
      /\ recorder = NewRecorder /\ astray = FALSE
  BY DEF Init
<1>4. Valid(None)
  BY DEF Valid
<1>5. recorder \in Recorder /\ ~recorder.recording
  BY <1>3, NoKeyTyped, RecorderFields
<1>6. combo \in 0..32 /\ boxes \subseteq ToSet(Boxes) /\ Valid(given) /\ Valid(shortcut)
  BY <1>3, <1>4
<1>7. changed \in BOOLEAN /\ Set(stored) = selected
  BY <1>1
<1>8. astray \in BOOLEAN
  BY <1>3
<1>. QED BY ONLY <1>1, <1>2, <1>5, <1>6, <1>7, <1>8 DEF IInv

\* In the dialog only the shortcut of the widget changes.
LEMMA DialogStep ==
    ASSUME IInv, InDialog, NEW s, Valid(s), NEW r \in Recorder, SetShortcut(s, r)
    PROVE  IInv'
<1>1. /\ open /\ open' /\ stored' = stored /\ selected' = selected /\ changed' = changed
      /\ given' = given
  BY DEF InDialog
<1>2. /\ Valid(shortcut') /\ combo' \in 0..32 /\ boxes' \subseteq ToSet(Boxes) /\ recorder' \in Recorder
      /\ astray' = FALSE /\ Shown'
  BY SetShortcutShows
<1>. QED BY <1>1, <1>2 DEF IInv

\* What was recorded is set as a text with the word "key".
LEMMA RecordedStep ==
    ASSUME IInv, InDialog, NEW r \in Recorder, r.sequence = NoKey \/ r.sequence.key \in QtKey,
           OnShortcutChanged(r)
    PROVE  IInv'
<1>1. PrintedByQt(r.sequence) \in Seq(Word)
  BY PrintedTyped
<1>2. "key" \in Heads /\ "" \in Signs
  BY DEF Heads, Signs
<1>3. Words("key", "", PrintedByQt(r.sequence)) \in AnyText
  BY <1>1, <1>2, WordsAreText
<1>4. Valid(Set(Words("key", "", PrintedByQt(r.sequence))))
  BY <1>3, SetIsValid
<1>. QED BY <1>4, DialogStep DEF OnShortcutChanged

\* Whatever shortcut the dialog returns, the page has it afterwards, or one that is the
\* same, and knows when it is another one.
LEMMA CloseStep ==
    ASSUME IInv, NEW s, Valid(s), Close(s)
    PROVE  IInv'
<1>1. /\ ~open' /\ given' = None /\ shortcut' = None /\ combo' = 0 /\ boxes' = {}
      /\ recorder' = NewRecorder /\ astray' = FALSE /\ stored' = stored
      /\ selected' = IF Same(selected, s) THEN selected ELSE s
      /\ changed' = (changed \/ ~Same(selected, s))
  BY DEF Close
<1>2. Valid(given') /\ Valid(shortcut')
  BY <1>1 DEF Valid
<1>3. recorder' \in Recorder /\ ~recorder'.recording
  BY <1>1, RecorderFields
<1>4. Valid(selected') /\ Valid(Set(stored)')
  BY <1>1 DEF IInv
<1>5. changed' \in BOOLEAN
  BY <1>1 DEF IInv
<1>6. ~changed' => Set(stored)' = selected'
  <2>1. SUFFICES ASSUME ~changed' PROVE Set(stored') = selected'
    BY <1>1
  <2>2. ~changed /\ Same(selected, s)
    BY <1>1, <2>1
  <2>. QED BY <1>1, <2>2 DEF IInv
<1>7. astray' \in BOOLEAN
  BY <1>1
<1>8. combo' \in 0..32 /\ boxes' \subseteq ToSet(Boxes)
  BY <1>1
<1>. QED BY ONLY <1>1, <1>2, <1>3, <1>4, <1>5, <1>6, <1>7, <1>8 DEF IInv

\* A key that is recorded: nothing changes if it is the old one, and otherwise it is set.
LEMMA RecordStep ==
    ASSUME IInv, InDialog, NEW p \in KeyPresses, RecordKey(p)
    PROVE  IInv'
<1>. DEFINE backtab == p.key = "backtab" /\ "shift" \in p.modifiers
            q == IF backtab THEN [p EXCEPT !.key = "tab"] ELSE p
            stopped == [recording |-> FALSE, sequence |-> q, old |-> recorder.old]
<1>1. /\ recorder.recording /\ p.key \in QtKey
      /\ IF q = recorder.old
         THEN recorder' = stopped /\ UNCHANGED <<shortcut, combo, boxes, astray>>
         ELSE OnShortcutChanged(stopped)
  BY DEF RecordKey
<1>2. q \in QKeySequence /\ q.key \in QtKey
  <2>1. p = [modifiers |-> p.modifiers, key |-> p.key] /\ p.modifiers \in SUBSET ToSet(QtModifiers)
    BY InputAssumption DEF InputAssumption
  <2>2. "tab" \in QtKey
    BY QtKeys
  <2>3. PICK k \in QtKey : q = [modifiers |-> p.modifiers, key |-> k]
    BY <1>1, <2>1, <2>2
  <2>. HIDE DEF q
  <2>. QED BY <2>1, <2>3 DEF QKeySequence
<1>. HIDE DEF q
<1>3. recorder.old \in QKeySequence
  BY RecorderFields DEF IInv
<1>4. stopped \in Recorder /\ stopped.sequence = q /\ ~stopped.recording
  BY <1>2, <1>3, RecorderFields
<1>. HIDE DEF stopped
<1>5. CASE q = recorder.old
  <2>1. recorder' = stopped /\ UNCHANGED <<shortcut, combo, boxes, astray>>
    BY <1>1, <1>5
  <2>2. GetSequence(recorder') = GetSequence(recorder)
    BY <1>1, <1>4, <1>5, <2>1 DEF GetSequence
  <2>3. /\ open /\ open' /\ stored' = stored /\ selected' = selected /\ changed' = changed
        /\ given' = given
    BY DEF InDialog
  <2>. QED BY <1>4, <2>1, <2>2, <2>3 DEF IInv, Shown
<1>6. CASE q # recorder.old
  BY <1>1, <1>2, <1>4, <1>6, RecordedStep
<1>. QED BY <1>5, <1>6

\* A key that Qt does not know: who records has the old sequence as before, and otherwise
\* the ghost says that the sequence is lost.
LEMMA UnresolvedStep ==
    ASSUME IInv, InDialog, KeyIsUnresolved
    PROVE  IInv'
<1>1. /\ open /\ open' /\ stored' = stored /\ selected' = selected /\ changed' = changed
      /\ given' = given
  BY DEF InDialog
<1>2. /\ recorder' = Idle(recorder.old, recorder.old)
      /\ astray' = (astray \/ ~recorder.recording)
      /\ UNCHANGED <<shortcut, combo, boxes>>
  BY DEF KeyIsUnresolved, CancelRecording
<1>3. recorder \in Recorder /\ recorder.old \in QKeySequence /\ recorder.recording \in BOOLEAN
  BY RecorderFields DEF IInv
<1>4. recorder' \in Recorder /\ ~recorder'.recording /\ recorder'.sequence = recorder.old
  BY <1>2, <1>3, RecorderFields
<1>5. recorder.recording => GetSequence(recorder') = GetSequence(recorder)
  BY <1>4 DEF GetSequence
<1>6. astray' \in BOOLEAN /\ (~astray' => ~astray /\ recorder.recording)
  BY <1>2, <1>3 DEF IInv
<1>7. Shown'
  BY <1>1, <1>2, <1>5, <1>6 DEF IInv, Shown
<1>. QED BY <1>1, <1>2, <1>4, <1>6, <1>7 DEF IInv

\* Step by step; only the recorder of keys may be waiting while another selector is used.
LEMMA StepKeepsInvariant == IInv /\ [Next]_vars => IInv'
<1>. SUFFICES ASSUME IInv, [Next]_vars PROVE IInv'
  OBVIOUS
<1>1. ASSUME NEW t \in Texts \cup {stored}, LoadFromProfile(t) PROVE IInv'
  <2>1. Valid(Set(t))
    BY TextsAreAny, SetIsValid DEF IInv
  <2>2. stored' = t /\ selected' = Set(t) /\ changed' = FALSE /\ UNCHANGED dialogVars
    BY <1>1 DEF LoadFromProfile
  <2>. QED BY <2>1, <2>2 DEF IInv, Shown, dialogVars
<1>2. CASE SaveToProfile
  <2>1. stored' = AsText(selected) /\ changed' = FALSE /\ UNCHANGED <<selected, dialogVars>>
    BY <1>2 DEF SaveToProfile
  <2>2. Set(AsText(selected)) = selected
    BY ValidIsRead DEF IInv
  <2>3. Set(stored') = selected
    BY <2>1, <2>2
  <2>. QED BY <2>1, <2>3 DEF IInv, Shown, dialogVars
<1>3. CASE OnButtonActionSelectorClicked
  <2>1. /\ open' /\ SetShortcut(selected, NewRecorder) /\ given' = selected
        /\ stored' = stored /\ selected' = selected /\ changed' = changed
    BY <1>3 DEF OnButtonActionSelectorClicked
  <2>2. Valid(selected) /\ NewRecorder \in Recorder
    BY RecorderFields DEF IInv
  <2>3. /\ Valid(shortcut') /\ combo' \in 0..32 /\ boxes' \subseteq ToSet(Boxes)
        /\ recorder' \in Recorder /\ astray' = FALSE /\ Shown'
    BY <2>1, <2>2, SetShortcutShows
  <2>. QED BY <2>1, <2>3 DEF IInv
<1>4. CASE OnOkClicked
  BY <1>4, CloseStep DEF OnOkClicked, IInv
<1>5. CASE Reject
  BY <1>5, CloseStep DEF Reject, IInv
<1>6. ASSUME NEW n \in MouseButtons, OnMouseSelectionChanged(n) PROVE IInv'
  <2>1. n \in ButtonNumbers
    BY InputAssumption DEF InputAssumption, ButtonNumbers
  <2>2. Valid(SetButton(n))
    BY <2>1, ButtonValid DEF Valid
  <2>. QED BY <1>6, <2>2, DialogStep DEF OnMouseSelectionChanged, IInv
<1>7. ASSUME NEW m \in ToSet(Boxes), OnModifierChanged(m) PROVE IInv'
  <2>1. PICK checked : InDialog /\ SetShortcut(Set(Words("", "", InOrder(Boxes, checked))), recorder)
    BY <1>7 DEF OnModifierChanged
  <2>2. "" \in Heads /\ "" \in Signs
    BY DEF Heads, Signs
  <2>3. InOrder(Boxes, checked) \in Seq(Word)
    BY OrdersTyped, InOrderTyped
  <2>4. Words("", "", InOrder(Boxes, checked)) \in AnyText
    BY <2>2, <2>3, WordsAreText
  <2>5. Valid(Set(Words("", "", InOrder(Boxes, checked))))
    BY <2>4, SetIsValid
  <2>. QED BY <2>1, <2>5, DialogStep DEF IInv
<1>8. CASE OnClearButtonClicked
  <2>1. Valid(None)
    BY DEF Valid
  <2>. QED BY <1>8, <2>1, DialogStep DEF OnClearButtonClicked, IInv
<1>9. CASE ClearKeySequence
  <2>1. SetSequence(recorder, NoKey) = Idle(NoKey, recorder.old) /\ recorder.old \in QKeySequence
    BY RecorderFields DEF SetSequence, IInv
  <2>2. SetSequence(recorder, NoKey) \in Recorder /\ SetSequence(recorder, NoKey).sequence = NoKey
    BY <2>1, NoKeyTyped, RecorderFields
  <2>. QED BY <1>9, <2>2, RecordedStep DEF ClearKeySequence
<1>10. CASE StartRecording
  <2>1. /\ InDialog /\ ~recorder.recording /\ UNCHANGED <<shortcut, combo, boxes, astray>>
        /\ recorder' = [recording |-> TRUE, sequence |-> NoKey, old |-> recorder.sequence]
    BY <1>10 DEF StartRecording
  <2>2. recorder.sequence \in QKeySequence
    BY RecorderFields DEF IInv
  <2>3. recorder' \in Recorder
    BY <2>1, <2>2, NoKeyTyped, RecorderFields
  <2>4. GetSequence(recorder') = GetSequence(recorder)
    BY <2>1 DEF GetSequence
  <2>5. /\ open /\ open' /\ stored' = stored /\ selected' = selected /\ changed' = changed
        /\ given' = given
    BY <2>1 DEF InDialog
  <2>. QED BY <2>1, <2>3, <2>4, <2>5 DEF IInv, Shown
<1>11. ASSUME NEW p \in KeyPresses, KeyPressEvent(p) PROVE IInv'
  <2>1. InDialog /\ IF p.key = Unresolved THEN KeyIsUnresolved ELSE RecordKey(p)
    BY <1>11 DEF KeyPressEvent
  <2>2. CASE p.key = Unresolved
    BY <2>1, <2>2, UnresolvedStep
  <2>3. CASE p.key # Unresolved
    BY <2>1, <2>3, RecordStep
  <2>. QED BY <2>2, <2>3
<1>12. CASE UNCHANGED vars
  BY <1>12 DEF IInv, Shown, vars, dialogVars
<1>13. (IF open THEN Reloads ELSE Texts) \subseteq Texts
  BY InputAssumption DEF InputAssumption
<1>14. CASE \E t \in (IF open THEN Reloads ELSE Texts) \cup {stored} : LoadFromProfile(t)
  BY <1>1, <1>13, <1>14
<1>. QED BY <1>14, <1>2, <1>3, <1>4, <1>5, <1>6, <1>7, <1>8, <1>9, <1>10, <1>11, <1>12 DEF Next

\* In all states.
LEMMA Invariant == Spec => []IInv
BY InitIsInvariant, StepKeepsInvariant, PTL DEF Spec

-----------------------------------------------------------------------------
(* Theorems. *)

\* The shortcuts of the page and of the dialog are of one kind each, and hold what that
\* kind has: a button has its number, keys and modifiers their words.
THEOREM Typing == Spec => []TypeOK
<1>1. IInv => TypeOK
  <2>. SUFFICES ASSUME IInv PROVE TypeOK
    OBVIOUS
  <2>1. IsShortcut(selected) /\ IsShortcut(given) /\ IsShortcut(shortcut)
    BY ValidTyped DEF IInv
  <2>. QED BY <2>1 DEF IInv, TypeOK, Recorder
<1>. QED BY <1>1, Invariant, PTL

\* The selectors of ButtonActionSelectionWidget show the shortcut that "OK" takes, for
\* whatever texts, keys and buttons: none of its handlers leaves one of them behind.
THEOREM SelectorsShow == Spec => []SelectorsShowShortcut
<1>1. IInv => SelectorsShowShortcut
  <2>. SUFFICES ASSUME IInv, open PROVE
           /\ Shown
           /\ ~astray => (shortcut # None <=>
                             combo # 0 \/ boxes # {} \/ GetSequence(recorder) # NoKey)
    BY DEF SelectorsShowShortcut, Shown, ComboOf
  <2>1. Shown /\ Valid(shortcut)
    BY DEF IInv
  <2>. QED BY <2>1, ValidShown DEF Shown
<1>. QED BY <1>1, Invariant, PTL

\* ButtonShortcut reads what it has written, and what the driver made of it, as the same
\* shortcut; the page, while it reports no change, has what would be read.
THEOREM WritingIsRead == Spec => []WrittenIsRead
<1>1. IInv => WrittenIsRead
  BY ValidIsRead DEF IInv, WrittenIsRead
<1>. QED BY <1>1, Invariant, PTL

-----------------------------------------------------------------------------
(* AreaSelection: numbers. *)

LEMMA LargestOfRange ==
    ASSUME NEW n \in Nat, NEW S \in SUBSET (1..n), S # {}
    PROVE  \E m \in S : \A k \in S : k <= m
<1> DEFINE D == {n - k : k \in S}
<1>1. D \subseteq Nat /\ D # {}
  <2>1. \A k \in S : n - k \in Nat
    OBVIOUS
  <2> QED BY <2>1
<1>2. PICK x \in D : \A y \in D : ~(<<y, x>> \in OpToRel(<, Nat))
  <2> HIDE DEF D
  <2> QED BY <1>1, WFMin, NatLessThanWellFounded, Zenon
<1>3. \A y \in D : ~(y < x)
  <2> SUFFICES ASSUME NEW y \in D, y < x PROVE FALSE
    OBVIOUS
  <2>1. <<y, x>> \in Nat \X Nat /\ <<y, x>>[1] < <<y, x>>[2]
    BY <1>1
  <2> HIDE DEF D
  <2>2. <<y, x>> \in OpToRel(<, Nat)
    BY <2>1, Zenon DEF OpToRel
  <2> QED BY <1>2, <2>2
<1>4. PICK m \in S : x = n - m
  OBVIOUS
<1>5. \A k \in S : ~(n - k < n - m)
  BY <1>3, <1>4
<1> QED BY <1>5

-----------------------------------------------------------------------------
(* Lengths: units, and pixels of the widget. *)

LEMMA QuotientPositive ==
    ASSUME NEW a \in Nat, a > 0, NEW d \in Nat, d > 0, a % d = 0
    PROVE  a \div d \in Nat /\ a \div d > 0
OBVIOUS

\* The quotient of a multiple and something less than the divisor.
LEMMA QuotientOf ==
    ASSUME NEW n \in Nat, n > 0, NEW v \in Int
    PROVE  (2 * (v * n) + n) \div (2 * n) = v
OBVIOUS

LEMMA LongerIs == Longer \in Nat /\ Longer >= Width /\ Longer >= Height /\ Longer >= 10
BY SizeAssumption DEF Longer, Larger

LEMMA ScaleIsPositive ==
    Num \in Nat /\ Num > 0 /\ Den \in Nat /\ Den > 0
<1> DEFINE pixels == TargetSize - 2 * ExtraMargin
           units == Longer + 2 * OutOfBoundsUnits
           Fits(d) == /\ pixels % d = 0 /\ units % d = 0
                      /\ \A e \in (d + 1)..units : pixels % e # 0 \/ units % e # 0
           S == {d \in 1..units : pixels % d = 0 /\ units % d = 0}
<1>1. pixels \in Nat /\ pixels > 0
  BY SizeAssumption DEF ExtraMargin
<1>2. units \in Nat /\ units > 0
  BY LongerIs DEF OutOfBoundsUnits
<1> HIDE DEF pixels, units
<1>3. S \subseteq 1..units /\ S # {}
  BY <1>1, <1>2
<1>4. PICK m \in S : \A k \in S : k <= m
  BY <1>2, <1>3, LargestOfRange
<1>5. Fits(m)
  BY <1>2, <1>4
<1>6. \E d \in 1..units : Fits(d)
  BY <1>4, <1>5
<1> DEFINE c == CHOOSE d \in 1..units : Fits(d)
<1>7. c \in 1..units /\ Fits(c)
  BY <1>6
<1>8. ScaleFactor = [num |-> pixels \div c, den |-> units \div c]
  BY DEF ScaleFactor, pixels, units
<1> HIDE DEF c
<1>9. c \in Nat /\ c > 0 /\ pixels % c = 0 /\ units % c = 0
  BY <1>2, <1>7
<1> QED BY <1>1, <1>2, <1>8, <1>9, QuotientPositive DEF Num, Den

LEMMA RoundedType ==
    ASSUME NEW v \in Int
    PROVE  Rounded(v) \in Int
BY ScaleIsPositive DEF Rounded

\* A whole number of units is not rounded.
LEMMA RoundedUnits ==
    ASSUME NEW v \in Int
    PROVE  Rounded(v * Num) = v
<1>1. Num \in Nat /\ Num > 0
  BY ScaleIsPositive
<1>2. (2 * (v * Num) + Num) \div (2 * Num) = v
  BY <1>1, QuotientOf
<1>3. (2 * ((-v) * Num) + Num) \div (2 * Num) = -v
  BY <1>1, QuotientOf
<1>4. (-v) * Num = -(v * Num) /\ v * Num \in Int
  BY <1>1
<1>5. -2 * (v * Num) + Num = 2 * ((-v) * Num) + Num
  BY <1>1, <1>4
<1> QED BY <1>2, <1>3, <1>5 DEF Rounded

LEMMA QuotientAtMost ==
    ASSUME NEW n \in Nat, n > 0, NEW k \in Nat, NEW v \in Int, v <= k * n
    PROVE  (2 * v + n) \div (2 * n) <= k
<1> DEFINE q == (2 * v + n) \div (2 * n)
<1>1. q \in Int /\ q * (2 * n) <= 2 * v + n
  OBVIOUS
<1>2. q * (2 * n) = 2 * (q * n)
  BY <1>1
<1>3. ASSUME q >= k + 1 PROVE FALSE
  <2> HIDE DEF q
  <2>1. q * n >= (k + 1) * n
    BY <1>1, <1>3
  <2>2. (k + 1) * n = k * n + n /\ q * n \in Int /\ k * n \in Int
    BY <1>1
  <2> QED BY <1>1, <1>2, <2>1, <2>2
<1> QED BY <1>1, <1>3

\* What is not longer than k units is not after it was rounded.
LEMMA RoundedAtMost ==
    ASSUME NEW k \in Nat, NEW v \in Int, v <= k * Num
    PROVE  Rounded(v) <= k
<1>1. Num \in Nat /\ Num > 0
  BY ScaleIsPositive
<1>2. CASE v >= 0
  BY <1>1, <1>2, QuotientAtMost DEF Rounded
<1>3. CASE ~(v >= 0)
  <2>1. -2 * v + Num \in Nat
    BY <1>1, <1>3
  <2>2. (-2 * v + Num) \div (2 * Num) \in Nat
    BY <1>1, <2>1
  <2> QED BY <1>3, <2>2 DEF Rounded
<1> QED BY <1>2, <1>3

-----------------------------------------------------------------------------
(* Areas. *)

Extent(a) == a.w > 0 /\ a.h > 0
FitsIn(a, r) == a.w <= Tablet(r).w /\ a.h <= Tablet(r).h

\* Not larger than the tablet as it is shown.
IsSized(a, r) == a.w <= Display(r).w /\ a.h <= Display(r).h

LEMMA AreaIs ==
    ASSUME NEW a \in Area
    PROVE  /\ a = [x |-> a.x, y |-> a.y, w |-> a.w, h |-> a.h]
           /\ a.x \in Int /\ a.y \in Int /\ a.w \in Int /\ a.h \in Int
BY DEF Area

LEMMA EmptyIs == \A a \in Area : IsEmpty(a) <=> ~Extent(a)
BY AreaIs DEF IsEmpty, Extent

LEMMA TabletIs ==
    ASSUME NEW r
    PROVE  /\ Tablet(r) \in Area /\ Extent(Tablet(r)) /\ FitsIn(Tablet(r), r)
           /\ Tablet(r).w \in Nat /\ Tablet(r).h \in Nat
           /\ Tablet(r).x = 0 /\ Tablet(r).y = 0
BY SizeAssumption DEF Tablet, Area, Extent, FitsIn

LEMMA MarginIs == Margin \in Int /\ OutOfBounds \in Nat /\ Handle \in Nat /\ Handle > 0
BY ScaleIsPositive, LongerIs DEF Margin, OutOfBounds, OutOfBoundsUnits, ExtraMargin, Handle

LEMMA ScaledIsArea ==
    ASSUME NEW a \in Area
    PROVE  /\ Scaled(a) \in Area
           /\ Scaled(a).w = a.w * Num /\ Scaled(a).h = a.h * Num
BY ScaleIsPositive, MarginIs DEF Scaled, Area

LEMMA UnscaledIsArea ==
    ASSUME NEW a \in Area
    PROVE  Unscaled(a) \in Area
<1>1. a.x - Margin \in Int /\ a.y - Margin \in Int /\ a.w \in Int /\ a.h \in Int
  BY MarginIs DEF Area
<1> QED BY <1>1, RoundedType DEF Unscaled, Area

\* What is shown is what was selected.
LEMMA UnscaledScaled ==
    ASSUME NEW a \in Area
    PROVE  Unscaled(Scaled(a)) = a
<1>1. a.x \in Int /\ a.y \in Int /\ a.w \in Int /\ a.h \in Int
  BY AreaIs
<1>2. /\ (a.x * Num + Margin) - Margin = a.x * Num
      /\ (a.y * Num + Margin) - Margin = a.y * Num
  <2>1. a.x * Num \in Int /\ a.y * Num \in Int
    BY <1>1, ScaleIsPositive
  <2> QED BY <2>1, MarginIs
<1>3. /\ Rounded(a.x * Num) = a.x /\ Rounded(a.y * Num) = a.y
      /\ Rounded(a.w * Num) = a.w /\ Rounded(a.h * Num) = a.h
  BY <1>1, RoundedUnits
<1>4. Unscaled(Scaled(a)) = [x |-> a.x, y |-> a.y, w |-> a.w, h |-> a.h]
  BY <1>2, <1>3 DEF Unscaled, Scaled
<1> QED BY <1>4, AreaIs

LEMMA DisplayIs ==
    ASSUME NEW r
    PROVE  /\ Display(r) \in Area
           /\ Display(r).w = Tablet(r).w * Num /\ Display(r).h = Tablet(r).h * Num
           /\ Display(r).w \in Nat /\ Display(r).h \in Nat
<1>1. Tablet(r) \in Area /\ Tablet(r).w \in Nat /\ Tablet(r).h \in Nat
  BY TabletIs
<1> QED BY <1>1, ScaledIsArea, ScaleIsPositive DEF Display

LEMMA ScaledIsSized ==
    ASSUME NEW a \in Area, NEW r, FitsIn(a, r)
    PROVE  IsSized(Scaled(a), r)
<1>1. /\ a.w \in Int /\ a.h \in Int /\ Tablet(r).w \in Nat /\ Tablet(r).h \in Nat
      /\ Num \in Nat /\ Num > 0
  BY AreaIs, TabletIs, ScaleIsPositive
<1>2. a.w * Num <= Tablet(r).w * Num /\ a.h * Num <= Tablet(r).h * Num
  BY <1>1 DEF FitsIn
<1> QED BY <1>2, ScaledIsArea, DisplayIs DEF IsSized

LEMMA UnscaledFits ==
    ASSUME NEW a \in Area, NEW r, IsSized(a, r)
    PROVE  FitsIn(Unscaled(a), r)
<1>1. /\ a.w \in Int /\ a.h \in Int /\ Tablet(r).w \in Nat /\ Tablet(r).h \in Nat
      /\ a.w <= Tablet(r).w * Num /\ a.h <= Tablet(r).h * Num
  BY AreaIs, TabletIs, DisplayIs DEF IsSized
<1> QED BY <1>1, RoundedAtMost DEF Unscaled, FitsIn

\* With other sides.
LEMMA Resized ==
    ASSUME NEW a \in Area, NEW width \in Int, NEW height \in Int
    PROVE  [a EXCEPT !.w = width, !.h = height]
              = [x |-> a.x, y |-> a.y, w |-> width, h |-> height]
<1> DEFINE b == [a EXCEPT !.w = width, !.h = height]
<1>1. b \in Area /\ b.x = a.x /\ b.y = a.y /\ b.w = width /\ b.h = height
  BY DEF Area
<1> HIDE DEF b
<1>2. b = [x |-> b.x, y |-> b.y, w |-> b.w, h |-> b.h]
  BY <1>1, AreaIs
<1> QED BY <1>1, <1>2 DEF b

LEMMA EdgesGiveWay ==
    ASSUME NEW a \in Area, NEW r
    PROVE  /\ FarEdgesGiveWay(a, r) \in Area /\ IsSized(FarEdgesGiveWay(a, r), r)
           /\ NearEdgesGiveWay(a, r) \in Area /\ IsSized(NearEdgesGiveWay(a, r), r)
           /\ IsSized(a, r) => FarEdgesGiveWay(a, r) = a
<1>1. /\ Display(r).w \in Nat /\ Display(r).h \in Nat
      /\ a = [x |-> a.x, y |-> a.y, w |-> a.w, h |-> a.h]
      /\ a.x \in Int /\ a.y \in Int /\ a.w \in Int /\ a.h \in Int
  BY AreaIs, DisplayIs
<1>2. FarEdgesGiveWay(a, r) = [x |-> a.x, y |-> a.y, w |-> Smaller(a.w, Display(r).w),
                               h |-> Smaller(a.h, Display(r).h)]
  <2> DEFINE width == Smaller(a.w, Display(r).w)
             height == Smaller(a.h, Display(r).h)
  <2>1. FarEdgesGiveWay(a, r) = [a EXCEPT !.w = width, !.h = height]
    BY DEF FarEdgesGiveWay
  <2>2. width \in Int /\ height \in Int
    BY <1>1 DEF Smaller
  <2> HIDE DEF width, height
  <2>3. [a EXCEPT !.w = width, !.h = height]
           = [x |-> a.x, y |-> a.y, w |-> width, h |-> height]
    BY <2>2, Resized
  <2> QED BY <2>1, <2>3 DEF width, height
<1> QED BY <1>1, <1>2 DEF NearEdgesGiveWay, Area, IsSized, Smaller, Larger

-----------------------------------------------------------------------------
(* The view: setting a selection. *)

\* A view whose area is not larger than the tablet.
IsView(v, r) == v \in View /\ IsSized(v.area, r)

\* The choice and the warning are the same.
SameChoice(u, v) == u.full = v.full /\ u.warning = v.warning

LEMMA ViewIs ==
    ASSUME NEW v \in View
    PROVE  /\ v.area \in Area /\ v.fields \in Area /\ v.locked \in BOOLEAN
           /\ v.full \in BOOLEAN /\ v.warning \in BOOLEAN
           /\ v.ratio \in [w : Int, h : Int]
BY DEF View

LEMMA WithAreaIs ==
    ASSUME NEW v \in View, NEW a \in Area
    PROVE  /\ [v EXCEPT !.area = a] \in View
           /\ [v EXCEPT !.area = a].area = a
           /\ [v EXCEPT !.area = a].fields = v.fields
           /\ SameChoice([v EXCEPT !.area = a], v)
BY DEF View, SameChoice

LEMMA WithRatioIs ==
    ASSUME NEW v \in View
    PROVE  /\ WithRatio(v) \in View
           /\ WithRatio(v).area = v.area /\ WithRatio(v).fields = v.fields
           /\ SameChoice(WithRatio(v), v)
<1> DEFINE q == [w |-> v.area.w, h |-> v.area.h]
<1>1. q \in [w : Int, h : Int]
  BY ViewIs, AreaIs
<1> HIDE DEF q
<1>2. /\ [v EXCEPT !.ratio = q] \in View
      /\ [v EXCEPT !.ratio = q].area = v.area
      /\ [v EXCEPT !.ratio = q].fields = v.fields
      /\ SameChoice([v EXCEPT !.ratio = q], v)
  BY <1>1 DEF View, SameChoice
<1>3. WithRatio(v) = [v EXCEPT !.ratio = q] \/ WithRatio(v) = v
  BY DEF WithRatio, q
<1> QED BY <1>2, <1>3 DEF SameChoice

\* setSelection of the widget.
LEMMA SetAreaIs ==
    ASSUME NEW v \in View, NEW a \in Area, NEW r
    PROVE  /\ IsView(SetArea(v, a, r), r)
           /\ SetArea(v, a, r).fields = v.fields
           /\ SameChoice(SetArea(v, a, r), v)
           /\ Extent(a) /\ FitsIn(a, r) => SetArea(v, a, r).area = Scaled(a)
<1> DEFINE b == Scaled(IF a.w > 0 /\ a.h > 0 THEN a ELSE Tablet(r))
           x == [v EXCEPT !.area = b]
           u == WithRatio(x)
           c == FarEdgesGiveWay(u.area, r)
<1>1. b \in Area /\ (Extent(a) => b = Scaled(a))
  BY ScaledIsArea, TabletIs DEF Extent
<1> HIDE DEF b
<1>2. x \in View /\ x.area = b /\ x.fields = v.fields /\ SameChoice(x, v)
  BY <1>1, WithAreaIs
<1> HIDE DEF x
<1>3. u \in View /\ u.area = b /\ u.fields = v.fields /\ SameChoice(u, v)
  BY <1>2, WithRatioIs DEF SameChoice
<1> HIDE DEF u
<1>4. c \in Area /\ IsSized(c, r) /\ (Extent(a) /\ FitsIn(a, r) => c = Scaled(a))
  BY <1>1, <1>3, EdgesGiveWay, ScaledIsSized
<1> HIDE DEF c
<1>5. /\ [u EXCEPT !.area = c] \in View /\ [u EXCEPT !.area = c].area = c
      /\ [u EXCEPT !.area = c].fields = u.fields /\ SameChoice([u EXCEPT !.area = c], u)
  BY <1>3, <1>4, WithAreaIs
<1>6. SetArea(v, a, r) = [u EXCEPT !.area = c]
  BY DEF SetArea, b, x, u, c
<1> QED BY <1>3, <1>4, <1>5, <1>6 DEF IsView, SameChoice

\* What a field that is set leaves.
FieldIsSet(u, v, f, value, r) ==
    /\ IsView(u, r)
    /\ SameChoice(u, v)
    /\ u.fields = [v.fields EXCEPT ![f] = value]
    /\ v.fields[f] = value => u = v
    /\ v.fields[f] # value /\ Extent(u.fields) /\ FitsIn(u.fields, r) => u.area = Scaled(u.fields)

LEMMA SetFieldIs ==
    ASSUME NEW v, NEW r, IsView(v, r), NEW f \in Field, NEW value \in Int
    PROVE  FieldIsSet(SetField(v, f, value, r), v, f, value, r)
<1> DEFINE x == [v EXCEPT !.fields[f] = value]
           u == SetField(v, f, value, r)
<1>1. v \in View /\ v.fields \in Area
  BY ViewIs DEF IsView
<1>2. CASE v.fields[f] = value
  <2>1. u = v
    BY <1>2 DEF SetField
  <2>2. v.fields = [v.fields EXCEPT ![f] = value]
    BY <1>1, <1>2 DEF Area, Field
  <2> QED BY <1>2, <2>1, <2>2 DEF FieldIsSet, SameChoice
<1>3. CASE v.fields[f] # value
  <2> DEFINE g == [v.fields EXCEPT ![f] = value]
  <2>1. g \in Area
    BY <1>1 DEF Area, Field
  <2>2. x = [v EXCEPT !.fields = g]
    BY <1>1 DEF View
  <2> HIDE DEF g
  <2>3. x \in View /\ x.fields = g /\ x.area = v.area /\ SameChoice(x, v)
    BY <1>1, <2>1, <2>2 DEF View, SameChoice
  <2>4. u = OnFineTuneValuesChanged(x, r)
    BY <1>3 DEF SetField
  <2> HIDE DEF x, u
  <2>5. /\ IsView(SetArea(x, g, r), r) /\ SetArea(x, g, r).fields = g
        /\ SameChoice(SetArea(x, g, r), x)
        /\ Extent(g) /\ FitsIn(g, r) => SetArea(x, g, r).area = Scaled(g)
    BY <2>1, <2>3, SetAreaIs
  <2>6. u = IF Extent(g) THEN SetArea(x, g, r) ELSE x
    BY <2>3, <2>4 DEF OnFineTuneValuesChanged, Extent
  <2>7. IsView(x, r)
    BY <2>3 DEF IsView
  <2>8. FieldIsSet(u, v, f, value, r)
    BY <1>3, <2>3, <2>5, <2>6, <2>7 DEF FieldIsSet, SameChoice, g
  <2> QED BY <2>8 DEF u
<1> QED BY <1>2, <1>3

\* Filling the fields one after the other.
LEMMA FieldsAreFilled ==
    ASSUME NEW v, NEW r, IsView(v, r)
    PROVE  LET u == OnSelectionChanged(v, r)
               selection == Unscaled(v.area)
           IN  /\ IsView(u, r) /\ SameChoice(u, v) /\ u.fields = selection
               /\ Extent(selection) => Unscaled(u.area) = selection
<1> DEFINE s == Unscaled(v.area)
           x == SetField(v, "x", s.x, r)
           y == SetField(x, "y", s.y, r)
           w == SetField(y, "w", s.w, r)
           h == SetField(w, "h", s.h, r)
<1>1. s \in Area /\ FitsIn(s, r) /\ v.fields \in Area
  BY ViewIs, UnscaledIsArea, UnscaledFits DEF IsView
<1>2. OnSelectionChanged(v, r) = h
  <2> DEFINE Step(g, n) == IF n = 0 THEN v
                           ELSE SetField(g[n - 1], FieldOrder[n], s[FieldOrder[n]], r)
             Steps(g) == [n \in 0..4 |-> Step(g, n)]
             g == [n \in 0..4 |-> CASE n = 0 -> v [] n = 1 -> x [] n = 2 -> y [] n = 3 -> w
                                    [] OTHER -> h]
             filled == CHOOSE f : f = Steps(f)
  <2>1. OnSelectionChanged(v, r) = filled[4]
    BY DEF OnSelectionChanged
  <2> HIDE DEF Step, filled
  <2>2. /\ FieldOrder[1] = "x" /\ FieldOrder[2] = "y" /\ FieldOrder[3] = "w"
        /\ FieldOrder[4] = "h"
    BY DEF FieldOrder
  <2>3. /\ s["x"] = s.x /\ s["y"] = s.y /\ s["w"] = s.w /\ s["h"] = s.h
    OBVIOUS
  <2> HIDE DEF x, y, w, h
  <2>4. /\ DOMAIN g = 0..4
        /\ g[0] = v /\ g[1] = x /\ g[2] = y /\ g[3] = w /\ g[4] = h
    OBVIOUS
  <2> HIDE DEF g
  <2>5. /\ Step(g, 0) = v /\ Step(g, 1) = x /\ Step(g, 2) = y /\ Step(g, 3) = w
        /\ Step(g, 4) = h
    <3> HIDE DEF s
    <3> QED BY <2>2, <2>4 DEF Step, x, y, w, h
  <2>6. \A n \in 0..4 : g[n] = Step(g, n)
    <3>1. \A n \in 0..4 : n = 0 \/ n = 1 \/ n = 2 \/ n = 3 \/ n = 4
      OBVIOUS
    <3> QED BY <2>4, <2>5, <3>1
  <2>7. g = Steps(g)
    <3>1. g = [n \in 0..4 |-> g[n]]
      BY <2>4 DEF g
    <3> QED BY <2>6, <3>1
  <2>8. filled = Steps(filled)
    BY <2>7, Zenon DEF filled
  <2>9. \A n \in 0..4 : filled[n] = Step(filled, n)
    BY <2>8
  <2>10. filled[0] = v
    BY <2>9 DEF Step
  <2>11. filled[1] = x
    BY <2>2, <2>9, <2>10 DEF Step, x
  <2>12. filled[2] = y
    BY <2>2, <2>9, <2>11 DEF Step, y
  <2>13. filled[3] = w
    BY <2>2, <2>9, <2>12 DEF Step, w
  <2>14. filled[4] = h
    BY <2>2, <2>9, <2>13 DEF Step, h
  <2> QED BY <2>1, <2>14
<1>3. s.x \in Int /\ s.y \in Int /\ s.w \in Int /\ s.h \in Int
  BY <1>1, AreaIs
<1>4. Unscaled(v.area) = s
  OBVIOUS
<1> HIDE DEF s
<1>5. "x" \in Field /\ "y" \in Field /\ "w" \in Field /\ "h" \in Field
  BY DEF Field
<1>6. FieldIsSet(x, v, "x", s.x, r)
  BY <1>3, <1>5, SetFieldIs
<1> HIDE DEF x
<1>7. FieldIsSet(y, x, "y", s.y, r)
  <2>1. IsView(x, r)
    BY <1>6 DEF FieldIsSet
  <2> QED BY <1>3, <1>5, <2>1, SetFieldIs
<1> HIDE DEF y
<1>8. FieldIsSet(w, y, "w", s.w, r)
  <2>1. IsView(y, r)
    BY <1>7 DEF FieldIsSet
  <2> QED BY <1>3, <1>5, <2>1, SetFieldIs
<1> HIDE DEF w
<1>9. FieldIsSet(h, w, "h", s.h, r)
  <2>1. IsView(w, r)
    BY <1>8 DEF FieldIsSet
  <2> QED BY <1>3, <1>5, <2>1, SetFieldIs
<1> HIDE DEF h
<1>10. IsView(h, r) /\ SameChoice(h, v)
  BY <1>6, <1>7, <1>8, <1>9 DEF FieldIsSet, SameChoice
<1>11. h.fields = s
  <2>1. /\ x.fields = [v.fields EXCEPT !["x"] = s.x]
        /\ y.fields = [x.fields EXCEPT !["y"] = s.y]
        /\ w.fields = [y.fields EXCEPT !["w"] = s.w]
        /\ h.fields = [w.fields EXCEPT !["h"] = s.h]
    BY <1>6, <1>7, <1>8, <1>9 DEF FieldIsSet
  <2>2. x.fields \in Area /\ x.fields.x = s.x
    BY <1>1, <1>3, <2>1 DEF Area
  <2>3. y.fields \in Area /\ y.fields.x = s.x /\ y.fields.y = s.y
    BY <1>1, <1>3, <2>1, <2>2 DEF Area
  <2>4. w.fields \in Area /\ w.fields.x = s.x /\ w.fields.y = s.y /\ w.fields.w = s.w
    BY <1>1, <1>3, <2>1, <2>3 DEF Area
  <2>5. /\ h.fields \in Area /\ h.fields.x = s.x /\ h.fields.y = s.y /\ h.fields.w = s.w
        /\ h.fields.h = s.h
    BY <1>1, <1>3, <2>1, <2>4 DEF Area
  <2>6. /\ h.fields = [x |-> h.fields.x, y |-> h.fields.y, w |-> h.fields.w, h |-> h.fields.h]
        /\ s = [x |-> s.x, y |-> s.y, w |-> s.w, h |-> s.h]
    BY <1>1, <2>5, AreaIs
  <2> QED BY <2>5, <2>6
<1>12. ASSUME Extent(s)
       PROVE  Unscaled(h.area) = s
  <2>1. Unscaled(Scaled(s)) = s
    BY <1>1, UnscaledScaled
  <2>2. CASE w.fields["h"] # s.h
    BY <1>1, <1>9, <1>11, <1>12, <2>1, <2>2 DEF FieldIsSet
  <2>3. CASE w.fields["h"] = s.h
    <3>1. h = w
      BY <1>9, <2>3 DEF FieldIsSet
    <3>2. CASE y.fields["w"] # s.w
      BY <1>1, <1>8, <1>11, <1>12, <2>1, <3>1, <3>2 DEF FieldIsSet
    <3>3. CASE y.fields["w"] = s.w
      <4>1. w = y
        BY <1>8, <3>3 DEF FieldIsSet
      <4>2. CASE x.fields["y"] # s.y
        BY <1>1, <1>7, <1>11, <1>12, <2>1, <3>1, <4>1, <4>2 DEF FieldIsSet
      <4>3. CASE x.fields["y"] = s.y
        <5>1. y = x
          BY <1>7, <4>3 DEF FieldIsSet
        <5>2. CASE v.fields["x"] # s.x
          BY <1>1, <1>6, <1>11, <1>12, <2>1, <3>1, <4>1, <5>1, <5>2 DEF FieldIsSet
        <5>3. CASE v.fields["x"] = s.x
          <6>1. x = v
            BY <1>6, <5>3 DEF FieldIsSet
          <6> QED BY <1>4, <3>1, <4>1, <5>1, <6>1
        <5> QED BY <5>2, <5>3
      <4> QED BY <4>2, <4>3
    <3> QED BY <3>2, <3>3
  <2> QED BY <2>2, <2>3
<1> QED BY <1>2, <1>4, <1>10, <1>11, <1>12

\* What is selected is shown, field by field, if it has an extent and fits the tablet.
LEMMA SelectionIsSet ==
    ASSUME NEW v \in View, NEW a \in Area, NEW r
    PROVE  LET u == SetSelection(v, a, r)
           IN  /\ IsView(u, r) /\ SameChoice(u, v)
               /\ Extent(a) /\ FitsIn(a, r) => Unscaled(u.area) = a
<1> DEFINE x == SetArea(v, a, r)
<1>1. /\ IsView(x, r) /\ SameChoice(x, v)
      /\ Extent(a) /\ FitsIn(a, r) => Unscaled(x.area) = a
  BY SetAreaIs, UnscaledScaled
<1> HIDE DEF x
<1>2. /\ IsView(OnSelectionChanged(x, r), r) /\ SameChoice(OnSelectionChanged(x, r), x)
      /\ Extent(Unscaled(x.area)) =>
            Unscaled(OnSelectionChanged(x, r).area) = Unscaled(x.area)
  BY <1>1, FieldsAreFilled
<1> QED BY <1>1, <1>2 DEF SetSelection, SameChoice, x

LEMMA WithChoiceIs ==
    ASSUME NEW v \in View, NEW full \in BOOLEAN, NEW warning \in BOOLEAN
    PROVE  LET u == [v EXCEPT !.full = full, !.warning = warning]
           IN  u \in View /\ u.full = full /\ u.warning = warning /\ u.area = v.area
BY DEF View

\* What selecting an area, or the tablet, leaves.
LEMMA SelectOfIs ==
    ASSUME NEW v \in View, NEW a \in Area, NEW r, NEW s
    PROVE  LET u == SelectOf(v, a, r, s)
               f == SelectFullTablet(v, r, s)
           IN  /\ IsView(u, r) /\ (u.warning <=> IsMonitor(s))
               /\ u.full => GetSelection(u) = Tablet(r)
               /\ Extent(a) /\ FitsIn(a, r) => GetSelection(u) = a
               /\ IsFull(a, r) => GetSelection(u) = Tablet(r)
               /\ IsView(f, r) /\ (f.warning <=> IsMonitor(s))
               /\ f.full /\ GetSelection(f) = Tablet(r)
<1> DEFINE monitor == IsMonitor(s)
           full == [v EXCEPT !.full = TRUE, !.warning = monitor]
           part == [v EXCEPT !.full = FALSE, !.warning = monitor]
           f == SelectFullTablet(v, r, s)
           p == SelectPartOfTablet(v, a, r, s)
<1>1. monitor \in BOOLEAN
  BY DEF IsMonitor
<1>2. monitor <=> IsMonitor(s)
  OBVIOUS
<1>3. f = SetSelection(full, Tablet(r), r) /\ p = SetSelection(part, a, r)
  BY DEF SelectFullTablet, SelectPartOfTablet, ClearSelection
<1> HIDE DEF monitor
<1>4. /\ full \in View /\ full.full = TRUE /\ full.warning = monitor
      /\ part \in View /\ part.full = FALSE /\ part.warning = monitor
  BY <1>1, WithChoiceIs
<1> HIDE DEF full, part, f, p
<1>5. IsView(f, r) /\ f.full = TRUE /\ f.warning = monitor /\ Unscaled(f.area) = Tablet(r)
  <2>1. /\ IsView(f, r) /\ SameChoice(f, full)
        /\ Extent(Tablet(r)) /\ FitsIn(Tablet(r), r) => Unscaled(f.area) = Tablet(r)
    BY <1>3, <1>4, SelectionIsSet, TabletIs
  <2>2. f.full = full.full /\ f.warning = full.warning
    BY <2>1 DEF SameChoice
  <2> QED BY <1>4, <2>1, <2>2, TabletIs
<1>6. /\ IsView(p, r) /\ p.full = FALSE /\ p.warning = monitor
      /\ Extent(a) /\ FitsIn(a, r) => Unscaled(p.area) = a
  <2>1. /\ IsView(p, r) /\ SameChoice(p, part)
        /\ Extent(a) /\ FitsIn(a, r) => Unscaled(p.area) = a
    BY <1>3, <1>4, SelectionIsSet
  <2>2. p.full = part.full /\ p.warning = part.warning
    BY <2>1 DEF SameChoice
  <2> QED BY <1>4, <2>1, <2>2
<1>7. SelectOf(v, a, r, s) = IF IsFull(a, r) THEN f ELSE p
  BY DEF SelectOf, f, p
<1>8. IsFull(a, r) /\ Extent(a) => a = Tablet(r)
  BY EmptyIs DEF IsFull
<1>9. LET u == SelectOf(v, a, r, s)
      IN  /\ IsView(u, r) /\ (u.warning <=> IsMonitor(s))
          /\ u.full => GetSelection(u) = Tablet(r)
          /\ Extent(a) /\ FitsIn(a, r) => GetSelection(u) = a
          /\ IsFull(a, r) => GetSelection(u) = Tablet(r)
  BY <1>2, <1>5, <1>6, <1>7, <1>8 DEF GetSelection
<1>10. IsView(f, r) /\ (f.warning <=> IsMonitor(s)) /\ f.full /\ GetSelection(f) = Tablet(r)
  BY <1>2, <1>5 DEF GetSelection
<1> QED BY <1>9, <1>10 DEF f

-----------------------------------------------------------------------------
(* The controller: areas as the tablet is turned, and as it is built. *)

LEMMA ConvertedIsArea ==
    ASSUME NEW a \in Area, NEW r
    PROVE  ConvertToRotation(a, r) \in Area /\ ConvertFromRotation(a, r) \in Area
<1>1. /\ a.x \in Int /\ a.y \in Int /\ a.w \in Int /\ a.h \in Int
      /\ Width \in Int /\ Height \in Int
  BY AreaIs, SizeAssumption
<1> QED BY <1>1 DEF ConvertToRotation, ConvertFromRotation, Area

\* What is turned and turned back is what it was.
LEMMA ConvertedBack ==
    ASSUME NEW a \in Area, NEW r \in Rotation
    PROVE  ConvertToRotation(ConvertFromRotation(a, r), r) = a
<1>1. /\ a.x \in Int /\ a.y \in Int /\ a.w \in Int /\ a.h \in Int
      /\ Width \in Int /\ Height \in Int
      /\ a = [x |-> a.x, y |-> a.y, w |-> a.w, h |-> a.h]
  BY AreaIs, SizeAssumption
<1>2. /\ Height - a.w - (Height - a.x - a.w) = a.x
      /\ Width - a.h - (Width - a.y - a.h) = a.y
      /\ Width - a.w - (Width - a.w - a.x) = a.x
      /\ Height - a.h - (Height - a.h - a.y) = a.y
  BY <1>1
<1>3. CASE r = "cw"
  <2> DEFINE b == [x |-> a.y, y |-> Height - a.x - a.w, w |-> a.h, h |-> a.w]
  <2>1. ConvertFromRotation(a, r) = b
    BY <1>3 DEF ConvertFromRotation
  <2>2. ConvertToRotation(b, r) = [x |-> Height - b.h - b.y, y |-> b.x, w |-> b.h, h |-> b.w]
    BY <1>3 DEF ConvertToRotation
  <2> QED BY <1>1, <1>2, <2>1, <2>2
<1>4. CASE r = "ccw"
  <2> DEFINE b == [x |-> Width - a.y - a.h, y |-> a.x, w |-> a.h, h |-> a.w]
  <2>1. ConvertFromRotation(a, r) = b
    BY <1>4 DEF ConvertFromRotation
  <2>2. ConvertToRotation(b, r) = [x |-> b.y, y |-> Width - b.w - b.x, w |-> b.h, h |-> b.w]
    BY <1>4 DEF ConvertToRotation
  <2> QED BY <1>1, <1>2, <2>1, <2>2
<1>5. CASE r = "half"
  <2> DEFINE b == [x |-> Width - a.w - a.x, y |-> Height - a.h - a.y, w |-> a.w, h |-> a.h]
  <2>1. ConvertFromRotation(a, r) = b
    BY <1>5 DEF ConvertFromRotation
  <2>2. ConvertToRotation(b, r)
           = [x |-> Width - b.w - b.x, y |-> Height - b.h - b.y, w |-> b.w, h |-> b.h]
    BY <1>5 DEF ConvertToRotation
  <2> QED BY <1>1, <1>2, <2>1, <2>2
<1>6. CASE r = "none"
  BY <1>6 DEF ConvertToRotation, ConvertFromRotation
<1> QED BY <1>3, <1>4, <1>5, <1>6 DEF Rotation

\* The corners of the area of the tablet as it is built are, turned, those of the area
\* that was shown.
LEMMA CornersAreTurned ==
    ASSUME NEW a \in Area, NEW r \in Rotation
    PROVE  {TurnPoint(p, r) : p \in Corners(ConvertFromRotation(a, r))} = Corners(a)
<1>1. /\ a.x \in Int /\ a.y \in Int /\ a.w \in Int /\ a.h \in Int
      /\ Width \in Int /\ Height \in Int
  BY AreaIs, SizeAssumption
<1> DEFINE P(x, y) == [x |-> x, y |-> y]
           C(b) == {P(b.x, b.y), P(b.x, b.y + b.h), P(b.x + b.w, b.y), P(b.x + b.w, b.y + b.h)}
<1>2. \A b : Corners(b) = C(b)
  BY DEF Corners
<1>3. CASE r = "cw"
  <2> DEFINE b == [x |-> a.y, y |-> Height - a.x - a.w, w |-> a.h, h |-> a.w]
  <2>1. ConvertFromRotation(a, r) = b
    BY <1>3 DEF ConvertFromRotation
  <2>2. \A p : TurnPoint(p, r) = P(Height - p.y, p.x)
    BY <1>3 DEF TurnPoint
  <2>3. {TurnPoint(p, r) : p \in C(b)}
           = {P(Height - b.y, b.x), P(Height - (b.y + b.h), b.x),
              P(Height - b.y, b.x + b.w), P(Height - (b.y + b.h), b.x + b.w)}
    BY <2>2
  <2>4. Height - b.y = a.x + a.w /\ Height - (b.y + b.h) = a.x /\ b.x = a.y /\ b.w = a.h
    BY <1>1
  <2> QED BY <1>2, <2>1, <2>3, <2>4
<1>4. CASE r = "ccw"
  <2> DEFINE b == [x |-> Width - a.y - a.h, y |-> a.x, w |-> a.h, h |-> a.w]
  <2>1. ConvertFromRotation(a, r) = b
    BY <1>4 DEF ConvertFromRotation
  <2>2. \A p : TurnPoint(p, r) = P(p.y, Width - p.x)
    BY <1>4 DEF TurnPoint
  <2>3. {TurnPoint(p, r) : p \in C(b)}
           = {P(b.y, Width - b.x), P(b.y + b.h, Width - b.x),
              P(b.y, Width - (b.x + b.w)), P(b.y + b.h, Width - (b.x + b.w))}
    BY <2>2
  <2>4. Width - b.x = a.y + a.h /\ Width - (b.x + b.w) = a.y /\ b.y = a.x /\ b.h = a.w
    BY <1>1
  <2> QED BY <1>2, <2>1, <2>3, <2>4
<1>5. CASE r = "half"
  <2> DEFINE b == [x |-> Width - a.w - a.x, y |-> Height - a.h - a.y, w |-> a.w, h |-> a.h]
  <2>1. ConvertFromRotation(a, r) = b
    BY <1>5 DEF ConvertFromRotation
  <2>2. \A p : TurnPoint(p, r) = P(Width - p.x, Height - p.y)
    BY <1>5 DEF TurnPoint
  <2>3. {TurnPoint(p, r) : p \in C(b)}
           = {P(Width - b.x, Height - b.y), P(Width - b.x, Height - (b.y + b.h)),
              P(Width - (b.x + b.w), Height - b.y),
              P(Width - (b.x + b.w), Height - (b.y + b.h))}
    BY <2>2
  <2>4. /\ Width - b.x = a.x + a.w /\ Width - (b.x + b.w) = a.x
        /\ Height - b.y = a.y + a.h /\ Height - (b.y + b.h) = a.y
    BY <1>1
  <2> QED BY <1>2, <2>1, <2>3, <2>4
<1>6. CASE r = "none"
  <2>1. ConvertFromRotation(a, r) = a /\ \A p : TurnPoint(p, r) = p
    BY <1>6 DEF ConvertFromRotation, TurnPoint
  <2> QED BY <2>1
<1> QED BY <1>3, <1>4, <1>5, <1>6 DEF Rotation

\* An area of the tablet as it is turned has an extent when it has one as it is built.
LEMMA ConvertedIsEmpty ==
    ASSUME NEW a \in Area, NEW r
    PROVE  /\ IsEmpty(ConvertFromRotation(a, r)) <=> ~Extent(a)
           /\ IsEmpty(ConvertToRotation(a, r)) <=> ~Extent(a)
<1>1. a.w \in Int /\ a.h \in Int
  BY AreaIs
<1>2. /\ \/ /\ ConvertFromRotation(a, r).w = a.h /\ ConvertFromRotation(a, r).h = a.w
         \/ /\ ConvertFromRotation(a, r).w = a.w /\ ConvertFromRotation(a, r).h = a.h
      /\ \/ /\ ConvertToRotation(a, r).w = a.h /\ ConvertToRotation(a, r).h = a.w
         \/ /\ ConvertToRotation(a, r).w = a.w /\ ConvertToRotation(a, r).h = a.h
  BY DEF ConvertFromRotation, ConvertToRotation
<1> QED BY <1>1, <1>2 DEF IsEmpty, Extent

LEMMA NoAreaIs == NoArea \in Area /\ ~Extent(NoArea)
BY DEF NoArea, Area, Extent

\* The geometry a map can know stands for the full tablet, however that is turned.
LEMMA GeometriesAre ==
    ASSUME NEW g \in Geometries
    PROVE  g \in Area /\ \A r \in Rotation : IsFull(ConvertToRotation(g, r), r)
<1>1. CASE g = NoArea
  <2>1. \A r : IsEmpty(ConvertToRotation(NoArea, r))
    BY NoAreaIs, ConvertedIsEmpty
  <2> QED BY <1>1, <2>1, NoAreaIs DEF IsFull
<1>2. CASE g = Tablet("none")
  <2>1. Width \in Int /\ Height \in Int
    BY SizeAssumption
  <2>2. g = [x |-> 0, y |-> 0, w |-> Width, h |-> Height]
    BY <1>2 DEF Tablet
  <2>3. ASSUME NEW r \in Rotation PROVE ConvertToRotation(g, r) = Tablet(r)
    <3>1. CASE r = "cw"
      <4>1. ConvertToRotation(g, r) = [x |-> Height - g.h - g.y, y |-> g.x, w |-> g.h, h |-> g.w]
        BY <3>1 DEF ConvertToRotation
      <4> QED BY <2>1, <2>2, <3>1, <4>1 DEF Tablet
    <3>2. CASE r = "ccw"
      <4>1. ConvertToRotation(g, r) = [x |-> g.y, y |-> Width - g.w - g.x, w |-> g.h, h |-> g.w]
        BY <3>2 DEF ConvertToRotation
      <4> QED BY <2>1, <2>2, <3>2, <4>1 DEF Tablet
    <3>3. CASE r = "half"
      <4>1. ConvertToRotation(g, r)
               = [x |-> Width - g.w - g.x, y |-> Height - g.h - g.y, w |-> g.w, h |-> g.h]
        BY <3>3 DEF ConvertToRotation
      <4> QED BY <2>1, <2>2, <3>3, <4>1 DEF Tablet
    <3>4. CASE r = "none"
      BY <2>2, <3>4 DEF ConvertToRotation, Tablet
    <3> QED BY <3>1, <3>2, <3>3, <3>4 DEF Rotation
  <2>4. g \in Area
    BY <2>1, <2>2 DEF Area
  <2> QED BY <2>3, <2>4 DEF IsFull
<1> QED BY <1>1, <1>2 DEF Geometries

\* b is what the map has for an area a that was shown with the tablet turned by r: the
\* area as the tablet is built, or what the map knows of the tablet if there is no extent.
StandsFor(b, a, r) ==
    IF Extent(a) THEN b = ConvertFromRotation(a, r) ELSE b \in Geometries

\* The areas of some screen spaces.
IsAreaMap(m) == \A s \in DOMAIN m : s \in Space /\ m[s] \in Area

\* n is m with what stands for area a of s.
Sets(n, m, s, a, r) ==
    /\ DOMAIN n = DOMAIN m \cup {s}
    /\ StandsFor(n[s], a, r)
    /\ \A t \in DOMAIN m : t # s => n[t] = m[t]

LEMMA SetMappingIs ==
    ASSUME NEW m, IsAreaMap(m), NEW s \in Space, NEW a \in Area, NEW r,
           page.geometry \in Geometries
    PROVE  /\ IsAreaMap(SetMapping(m, s, a, r))
           /\ Sets(SetMapping(m, s, a, r), m, s, a, r)
<1> DEFINE c == ConvertFromRotation(a, r)
           b == IF IsEmpty(c) THEN page.geometry ELSE c
           n == [t \in DOMAIN m \cup {s} |-> IF t # s THEN m[t] ELSE b]
<1>1. SetMapping(m, s, a, r) = n
  BY DEF SetMapping, WithMapping
<1>2. b \in Area
  BY ConvertedIsArea, GeometriesAre
<1>3. StandsFor(b, a, r)
  BY ConvertedIsEmpty DEF StandsFor
<1> HIDE DEF b
<1>4. /\ DOMAIN n = DOMAIN m \cup {s} /\ n[s] = b
      /\ \A t \in DOMAIN m : t # s => n[t] = m[t]
  OBVIOUS
<1> HIDE DEF n
<1>5. Sets(n, m, s, a, r)
  BY <1>3, <1>4 DEF Sets
<1>6. IsAreaMap(n)
  BY <1>2, <1>4 DEF IsAreaMap
<1> QED BY <1>1, <1>5, <1>6

\* What is got for a space: what was shown, or the full tablet for an area of no extent.
Gets(g, b, r) ==
    \A a \in Area, q \in Rotation : StandsFor(b, a, q) =>
        /\ Extent(a) /\ q = r => g = a
        /\ ~Extent(a) => IsFull(g, r)

LEMMA GetMappingIs ==
    ASSUME NEW m, IsAreaMap(m), NEW s, NEW r \in Rotation, page.geometry \in Geometries
    PROVE  /\ GetMapping(m, s, r) \in Area
           /\ s \in DOMAIN m => Gets(GetMapping(m, s, r), m[s], r)
<1>1. MappingOf(m, s) \in Area /\ (s \in DOMAIN m => MappingOf(m, s) = m[s])
  BY GeometriesAre DEF MappingOf, IsAreaMap
<1>2. GetMapping(m, s, r) = ConvertToRotation(MappingOf(m, s), r)
  BY DEF GetMapping
<1>3. ASSUME s \in DOMAIN m, NEW a \in Area, NEW q \in Rotation, StandsFor(m[s], a, q)
      PROVE  /\ Extent(a) /\ q = r => GetMapping(m, s, r) = a
             /\ ~Extent(a) => IsFull(GetMapping(m, s, r), r)
  <2>1. GetMapping(m, s, r) = ConvertToRotation(m[s], r)
    BY <1>1, <1>2, <1>3
  <2>2. ASSUME Extent(a), q = r PROVE ConvertToRotation(m[s], r) = a
    BY <1>3, <2>2, ConvertedBack DEF StandsFor
  <2>3. ASSUME ~Extent(a) PROVE IsFull(ConvertToRotation(m[s], r), r)
    BY <1>3, <2>3, GeometriesAre DEF StandsFor
  <2> QED BY <2>1, <2>2, <2>3
<1>4. s \in DOMAIN m => Gets(GetMapping(m, s, r), m[s], r)
  BY <1>3 DEF Gets
<1> QED BY <1>1, <1>2, <1>4, ConvertedIsArea

-----------------------------------------------------------------------------
(* The controller: going to a screen space. *)

\* The selection of the view is an area of the tablet as it is shown.
LEMMA SelectionIs ==
    ASSUME NEW v, NEW r, IsView(v, r)
    PROVE  v \in View /\ GetSelection(v) \in Area /\ FitsIn(GetSelection(v), r)
BY ViewIs, UnscaledIsArea, UnscaledFits DEF IsView, GetSelection

\* A view that shows an area of a space, or the full tablet.
ShowsSpace(v, r, s) ==
    /\ IsView(v, r)
    /\ v.warning <=> IsMonitor(s)
    /\ v.full => GetSelection(v) = Tablet(r)

\* It shows what stands in the map for the space.
ShowsKept(v, b, r) ==
    \A a \in Area, q \in Rotation : StandsFor(b, a, q) =>
        /\ Extent(a) /\ q = r /\ FitsIn(a, r) => GetSelection(v) = a
        /\ ~Extent(a) => GetSelection(v) = Tablet(r)

LEMMA ToSpaceIs ==
    ASSUME NEW m, IsAreaMap(m), NEW r \in Rotation, NEW v, IsView(v, r),
           NEW from \in Space, NEW to \in Space, page.geometry \in Geometries
    PROVE  LET now == ToSpace(m, v, from, to, r)
           IN  /\ now.map = SetMapping(m, from, GetSelection(v), r)
               /\ ShowsSpace(now.view, r, to)
               /\ to \in DOMAIN now.map => ShowsKept(now.view, now.map[to], r)
<1> DEFINE kept == SetMapping(m, from, GetSelection(v), r)
           b == GetMapping(kept, to, r)
           u == SelectOf(v, b, r, to)
<1>1. v \in View /\ GetSelection(v) \in Area
  BY SelectionIs
<1>2. IsAreaMap(kept)
  BY <1>1, SetMappingIs
<1> HIDE DEF kept
<1>3. b \in Area /\ (to \in DOMAIN kept => Gets(b, kept[to], r))
  BY <1>2, GetMappingIs
<1> HIDE DEF b
<1>4. /\ ShowsSpace(u, r, to)
      /\ Extent(b) /\ FitsIn(b, r) => GetSelection(u) = b
      /\ IsFull(b, r) => GetSelection(u) = Tablet(r)
  <2>1. /\ IsView(u, r) /\ (u.warning <=> IsMonitor(to))
        /\ u.full => GetSelection(u) = Tablet(r)
        /\ Extent(b) /\ FitsIn(b, r) => GetSelection(u) = b
        /\ IsFull(b, r) => GetSelection(u) = Tablet(r)
    BY <1>1, <1>3, SelectOfIs
  <2> HIDE DEF u
  <2> QED BY <2>1 DEF ShowsSpace
<1>5. ToSpace(m, v, from, to, r) = [map |-> kept, view |-> u]
  BY DEF ToSpace, kept, b, u
<1> HIDE DEF u
<1>6. ToSpace(m, v, from, to, r).map = kept /\ ToSpace(m, v, from, to, r).view = u
  BY <1>5
<1>7. to \in DOMAIN kept => ShowsKept(u, kept[to], r)
  BY <1>3, <1>4 DEF Gets, ShowsKept
<1> QED BY <1>4, <1>6, <1>7 DEF kept

\* What the dialog begins with.
LEMMA SetupIs ==
    ASSUME NEW m, IsAreaMap(m), NEW r \in Rotation, page.geometry \in Geometries
    PROVE  IsView(SetupController(m, r), r)
<1> DEFINE n == NewView(r)
           c == SetSelection(n, Tablet(r), r)
           b == GetMapping(m, Desktop, r)
<1>1. n \in View
  <2>1. Display(r) \in Area /\ NoArea \in Area
    BY DisplayIs, NoAreaIs
  <2>2. [w |-> 1, h |-> 1] \in [w : Int, h : Int]
    OBVIOUS
  <2> QED BY <2>1, <2>2 DEF NewView, View
<1> HIDE DEF n
<1>2. IsView(c, r)
  BY <1>1, TabletIs, SelectionIsSet
<1>3. SetupController(m, r) = SelectOf(c, b, r, Desktop)
  BY DEF SetupController, ClearSelection, n
<1> HIDE DEF c
<1>4. b \in Area
  BY GetMappingIs
<1> HIDE DEF b
<1>5. c \in View
  BY <1>2 DEF IsView
<1>6. IsView(SelectOf(c, b, r, Desktop), r)
  BY <1>4, <1>5, SelectOfIs
<1> QED BY <1>3, <1>6

\* The spaces to go to.
LEMMA SpacesAre ==
    /\ Desktop \in Space
    /\ \A s \in Space : NextSpace(s) \in Space
<1>1. /\ Len(Cycle) \in Nat /\ Len(Cycle) > 0 /\ DOMAIN Cycle = 1..Len(Cycle)
      /\ \A i \in 1..Len(Cycle) : Cycle[i] \in ToSet(Cycle)
  <2> DEFINE S == ToSet(Cycle)
  <2>1. Cycle \in Seq(S) /\ Cycle # <<>>
    BY SpaceAssumption
  <2> HIDE DEF S
  <2> QED BY <2>1 DEF S
<1>2. \A i \in 1..Len(Cycle) : Cycle[i] \in Space
  BY <1>1 DEF Space
<1>3. Desktop \in Space
  BY <1>1, <1>2 DEF Desktop
<1>4. ASSUME NEW s \in Space
      PROVE  NextSpace(s) \in Space
  <2>1. CASE s \in Elsewhere
    <3>1. Smaller(2, Len(Cycle)) \in 1..Len(Cycle)
      BY <1>1 DEF Smaller
    <3> QED BY <1>2, <2>1, <3>1 DEF NextSpace
  <2>2. CASE s \notin Elsewhere
    <3> DEFINE i == CHOOSE i \in DOMAIN Cycle : Cycle[i] = s
    <3>1. \E j \in DOMAIN Cycle : Cycle[j] = s
      BY <2>2, SMT DEF Space, ToSet
    <3>2. i \in 1..Len(Cycle)
      BY <1>1, <3>1
    <3>3. NextSpace(s) = Cycle[(i % Len(Cycle)) + 1]
      BY <2>2 DEF NextSpace
    <3> HIDE DEF i
    <3>4. (i % Len(Cycle)) + 1 \in 1..Len(Cycle)
      BY <1>1, <3>2
    <3> QED BY <1>2, <3>3, <3>4
  <2> QED BY <2>1, <2>2
<1> QED BY <1>3, <1>4

-----------------------------------------------------------------------------
(* The mouse. *)

LEMMA BetweenIs ==
    ASSUME NEW low \in Int, NEW v \in Int, NEW high \in Int
    PROVE  /\ Between(low, v, high) \in Int
           /\ low <= high => low <= Between(low, v, high) /\ Between(low, v, high) <= high
BY DEF Between

LEMMA ProportionalIs ==
    ASSUME view \in View, view.locked, NEW axis \in {"x", "y"}, NEW v \in Int,
           LandsOnGrid(v, axis)
    PROVE  Proportional(v, axis) \in Int
<1> DEFINE along == view.ratio[Size[axis]]
           across == view.ratio[Size[Across[axis]]]
<1>1. along \in Int /\ across \in Int
  BY ViewIs DEF Size, Across
<1>2. along > 0
  BY DEF LandsOnGrid
<1> HIDE DEF along, across
<1>3. (v * across) \div along \in Int
  BY <1>1, <1>2
<1> QED BY <1>3 DEF Proportional, along, across

\* What an axis names.
LEMMA AxisIs ==
    ASSUME NEW axis \in {"x", "y"}
    PROVE  \/ axis = "x" /\ Size[axis] = "w" /\ Across[axis] = "y" /\ Size[Across[axis]] = "h"
           \/ axis = "y" /\ Size[axis] = "h" /\ Across[axis] = "x" /\ Size[Across[axis]] = "w"
BY DEF Size, Across

\* The edges of an area near the tablet, one by one.
LEMMA NearTabletIs ==
    ASSUME NEW a \in Area
    PROVE  LET d == Display(rotation)
           IN  NearTablet(a) <=> /\ d.x - OutOfBounds <= a.x /\ d.y - OutOfBounds <= a.y
                                 /\ a.x + a.w <= d.x + d.w + OutOfBounds
                                 /\ a.y + a.h <= d.y + d.h + OutOfBounds
                                 /\ a.w >= Handle /\ a.h >= Handle
BY DEF NearTablet, Size

LEMMA FarEdgesAre ==
    ASSUME NEW a \in Area, NEW r
    PROVE  FarEdgesGiveWay(a, r) = [x |-> a.x, y |-> a.y, w |-> Smaller(a.w, Display(r).w),
                                    h |-> Smaller(a.h, Display(r).h)]
<1> DEFINE width == Smaller(a.w, Display(r).w)
           height == Smaller(a.h, Display(r).h)
<1>1. FarEdgesGiveWay(a, r) = [a EXCEPT !.w = width, !.h = height]
  BY DEF FarEdgesGiveWay
<1>2. width \in Int /\ height \in Int
  BY AreaIs, DisplayIs DEF Smaller
<1> HIDE DEF width, height
<1>3. [a EXCEPT !.w = width, !.h = height]
         = [x |-> a.x, y |-> a.y, w |-> width, h |-> height]
  BY <1>2, Resized
<1> QED BY <1>1, <1>3 DEF width, height

\* Making it fit does not take an area away from the tablet.
LEMMA StaysNear ==
    ASSUME NEW a \in Area, NearTablet(a),
           Display(rotation).w >= Handle, Display(rotation).h >= Handle
    PROVE  NearTablet(FarEdgesGiveWay(a, rotation)) /\ NearTablet(NearEdgesGiveWay(a, rotation))
<1> DEFINE d == Display(rotation)
           f == FarEdgesGiveWay(a, rotation)
           n == NearEdgesGiveWay(a, rotation)
<1>1. /\ a.x \in Int /\ a.y \in Int /\ a.w \in Int /\ a.h \in Int
      /\ d.x \in Int /\ d.y \in Int /\ d.w \in Int /\ d.h \in Int
      /\ Handle \in Int /\ OutOfBounds \in Int
  BY AreaIs, DisplayIs, MarginIs
<1>2. f \in Area /\ n \in Area
  BY EdgesGiveWay
<1>3. f.x = a.x /\ f.y = a.y /\ f.w = Smaller(a.w, d.w) /\ f.h = Smaller(a.h, d.h)
  BY FarEdgesAre
<1>4. /\ n.x = a.x + Larger(0, a.w - d.w) /\ n.y = a.y + Larger(0, a.h - d.h)
      /\ n.w = Smaller(a.w, d.w) /\ n.h = Smaller(a.h, d.h)
  BY DEF NearEdgesGiveWay
<1>5. /\ d.x - OutOfBounds <= a.x /\ d.y - OutOfBounds <= a.y
      /\ a.x + a.w <= d.x + d.w + OutOfBounds /\ a.y + a.h <= d.y + d.h + OutOfBounds
      /\ a.w >= Handle /\ a.h >= Handle /\ d.w >= Handle /\ d.h >= Handle
  BY NearTabletIs
<1> HIDE DEF d, f, n
<1>6. /\ d.x - OutOfBounds <= f.x /\ d.y - OutOfBounds <= f.y
      /\ f.x + f.w <= d.x + d.w + OutOfBounds /\ f.y + f.h <= d.y + d.h + OutOfBounds
      /\ f.w >= Handle /\ f.h >= Handle
  BY <1>1, <1>3, <1>5 DEF Smaller
<1>7. /\ d.x - OutOfBounds <= n.x /\ d.y - OutOfBounds <= n.y
      /\ n.x + n.w <= d.x + d.w + OutOfBounds /\ n.y + n.h <= d.y + d.h + OutOfBounds
      /\ n.w >= Handle /\ n.h >= Handle
  BY <1>1, <1>4, <1>5 DEF Smaller, Larger
<1> QED BY <1>2, <1>6, <1>7, NearTabletIs DEF d, f, n

\* What a move of the mouse leaves: an area that fits, and, with free proportions, is as
\* near the tablet as it was.
Moves(u) ==
    /\ IsView(u, rotation) /\ SameChoice(u, view)
    /\ ~view.locked /\ NearTablet(view.area) => NearTablet(u.area)

LEMMA MovedIs ==
    ASSUME IsView(view, rotation), NEW p \in Area, NEW b,
           b = FarEdgesGiveWay(p, rotation) \/ b = NearEdgesGiveWay(p, rotation),
           ~view.locked /\ NearTablet(view.area) => NearTablet(p)
    PROVE  Moves([view EXCEPT !.area = b])
<1> DEFINE u == [view EXCEPT !.area = b]
<1>1. b \in Area /\ IsSized(b, rotation) /\ view \in View
  BY EdgesGiveWay DEF IsView
<1>2. u \in View /\ u.area = b /\ SameChoice(u, view)
  BY <1>1, WithAreaIs
<1>3. ASSUME ~view.locked, NearTablet(view.area)
      PROVE  NearTablet(b)
  <2>1. NearTablet(p)
    BY <1>3
  <2>2. Display(rotation).w >= Handle /\ Display(rotation).h >= Handle
    <3>1. view.area \in Area
      BY <1>1, ViewIs
    <3>2. view.area.w >= Handle /\ view.area.h >= Handle
      BY <1>3, <3>1, NearTabletIs
    <3>3. view.area.w <= Display(rotation).w /\ view.area.h <= Display(rotation).h
      BY DEF IsView, IsSized
    <3>4. /\ view.area.w \in Int /\ view.area.h \in Int /\ Handle \in Int
          /\ Display(rotation).w \in Int /\ Display(rotation).h \in Int
      BY <3>1, AreaIs, DisplayIs, MarginIs
    <3> QED BY <3>2, <3>3, <3>4
  <2> QED BY <2>1, <2>2, StaysNear
<1> HIDE DEF u
<1>4. Moves(u)
  BY <1>1, <1>2, <1>3 DEF Moves, IsView
<1> QED BY <1>4 DEF u

LEMMA UnmovedIs ==
    ASSUME IsView(view, rotation)
    PROVE  Moves(view)
BY DEF Moves, SameChoice

\* Numbers of the area and the tablet.
LEMMA NumbersAre ==
    ASSUME IsView(view, rotation)
    PROVE  LET a == view.area
               d == Display(rotation)
           IN  /\ a \in Area /\ d \in Area
               /\ a.x \in Int /\ a.y \in Int /\ a.w \in Int /\ a.h \in Int
               /\ d.x \in Int /\ d.y \in Int /\ d.w \in Int /\ d.h \in Int
               /\ Handle \in Nat /\ OutOfBounds \in Nat
BY ViewIs, AreaIs, DisplayIs, MarginIs DEF IsView

LEMMA DragFarIs ==
    ASSUME IsView(view, rotation), NEW axis \in {"x", "y"}, NEW at \in Int, DragFar(axis, at)
    PROVE  Moves(view')
<1> DEFINE a == view.area
           d == Display(rotation)
           low == a[axis] + Handle
           high == d[axis] + d[Size[axis]] + OutOfBounds
           end == Between(low, at, high)
           size == end - a[axis]
           across == Proportional(size, axis)
           both == [a EXCEPT ![Size[axis]] = size, ![Size[Across[axis]]] = across]
           one == [a EXCEPT ![Size[axis]] = size]
           pulled == IF view.locked THEN both ELSE one
<1>1. /\ a \in Area /\ d \in Area
      /\ a.x \in Int /\ a.y \in Int /\ a.w \in Int /\ a.h \in Int
      /\ d.x \in Int /\ d.y \in Int /\ d.w \in Int /\ d.h \in Int
      /\ Handle \in Nat /\ OutOfBounds \in Nat
  BY NumbersAre
<1>2. /\ LandsOnGrid(size, axis)
      /\ \/ view' = view /\ view.locked
         \/ view' = [view EXCEPT !.area = NearEdgesGiveWay(pulled, rotation)]
  BY DEF DragFar
<1> HIDE DEF a, d
<1>3. a[axis] \in Int /\ low \in Int /\ high \in Int
  BY <1>1, AxisIs
<1> HIDE DEF low, high
<1>4. end \in Int /\ (low <= high => low <= end /\ end <= high)
  BY <1>3, BetweenIs
<1> HIDE DEF end
<1>5. size \in Int
  BY <1>3, <1>4
<1> HIDE DEF size
<1>6. view.locked => across \in Int
  BY <1>2, <1>5, ProportionalIs DEF IsView
<1> HIDE DEF across
<1>7. one \in Area
  BY <1>1, <1>5, AxisIs DEF Area
<1>8. view.locked => both \in Area
  BY <1>1, <1>5, <1>6, AxisIs DEF Area
<1>9. ASSUME NearTablet(a)
      PROVE  NearTablet(one)
  <2>1. /\ d.x - OutOfBounds <= a.x /\ d.y - OutOfBounds <= a.y
        /\ a.x + a.w <= d.x + d.w + OutOfBounds /\ a.y + a.h <= d.y + d.h + OutOfBounds
        /\ a.w >= Handle /\ a.h >= Handle
    BY <1>1, <1>9, NearTabletIs DEF d
  <2>2. CASE axis = "x"
    <3>1. Size[axis] = "w"
      BY <2>2 DEF Size
    <3>2. one.x = a.x /\ one.y = a.y /\ one.w = size /\ one.h = a.h
      BY <1>1, <3>1 DEF Area
    <3>3. low = a.x + Handle /\ high = d.x + d.w + OutOfBounds /\ size = end - a.x
      BY <2>2, <3>1 DEF low, high, size
    <3>4. one.w >= Handle /\ one.x + one.w <= d.x + d.w + OutOfBounds
      BY <1>1, <1>4, <2>1, <3>2, <3>3
    <3> HIDE DEF one
    <3> QED BY <1>7, <2>1, <3>2, <3>4, NearTabletIs DEF d
  <2>3. CASE axis = "y"
    <3>1. Size[axis] = "h"
      BY <2>3 DEF Size
    <3>2. one.x = a.x /\ one.y = a.y /\ one.w = a.w /\ one.h = size
      BY <1>1, <3>1 DEF Area
    <3>3. low = a.y + Handle /\ high = d.y + d.h + OutOfBounds /\ size = end - a.y
      BY <2>3, <3>1 DEF low, high, size
    <3>4. one.h >= Handle /\ one.y + one.h <= d.y + d.h + OutOfBounds
      BY <1>1, <1>4, <2>1, <3>2, <3>3
    <3> HIDE DEF one
    <3> QED BY <1>7, <2>1, <3>2, <3>4, NearTabletIs DEF d
  <2> QED BY <2>2, <2>3
<1>10. pulled \in Area /\ (~view.locked /\ NearTablet(view.area) => NearTablet(pulled))
  BY <1>7, <1>8, <1>9 DEF a
<1> HIDE DEF pulled
<1>11. CASE view' = view
  BY <1>11, UnmovedIs
<1>12. CASE view' = [view EXCEPT !.area = NearEdgesGiveWay(pulled, rotation)]
  <2> DEFINE b == NearEdgesGiveWay(pulled, rotation)
  <2>1. b = NearEdgesGiveWay(pulled, rotation)
    OBVIOUS
  <2> HIDE DEF b
  <2>2. Moves([view EXCEPT !.area = b])
    BY <1>10, <2>1, MovedIs
  <2> QED BY <1>12, <2>2 DEF b
<1> QED BY <1>2, <1>11, <1>12

LEMMA DragNearIs ==
    ASSUME IsView(view, rotation), NEW axis \in {"x", "y"}, NEW at \in Int, DragNear(axis, at)
    PROVE  Moves(view')
<1> DEFINE a == view.area
           d == Display(rotation)
           low == d[axis] - OutOfBounds
           high == a[axis] + a[Size[axis]] - Handle
           start == Between(low, at, high)
           shift == start - a[axis]
           across == Proportional(shift, axis)
           both == [a EXCEPT ![axis] = @ + shift, ![Size[axis]] = @ - shift,
                             ![Across[axis]] = a[Across[axis]] + across,
                             ![Size[Across[axis]]] = @ - across]
           one == [a EXCEPT ![axis] = @ + shift, ![Size[axis]] = @ - shift]
           pulled == IF view.locked THEN both ELSE one
<1>1. /\ a \in Area /\ d \in Area
      /\ a.x \in Int /\ a.y \in Int /\ a.w \in Int /\ a.h \in Int
      /\ d.x \in Int /\ d.y \in Int /\ d.w \in Int /\ d.h \in Int
      /\ Handle \in Nat /\ OutOfBounds \in Nat
  BY NumbersAre
<1>2. /\ LandsOnGrid(shift, axis)
      /\ \/ view' = view /\ view.locked
         \/ view' = [view EXCEPT !.area = FarEdgesGiveWay(pulled, rotation)]
  BY DEF DragNear
<1> HIDE DEF a, d
<1>3. a[axis] \in Int /\ low \in Int /\ high \in Int
  BY <1>1, AxisIs
<1> HIDE DEF low, high
<1>4. start \in Int /\ (low <= high => low <= start /\ start <= high)
  BY <1>3, BetweenIs
<1> HIDE DEF start
<1>5. shift \in Int
  BY <1>3, <1>4
<1> HIDE DEF shift
<1>6. view.locked => across \in Int
  BY <1>2, <1>5, ProportionalIs DEF IsView
<1> HIDE DEF across
<1>7. one \in Area
  BY <1>1, <1>5, AxisIs DEF Area
<1>8. view.locked => both \in Area
  BY <1>1, <1>5, <1>6, AxisIs DEF Area
<1>9. ASSUME NearTablet(a)
      PROVE  NearTablet(one)
  <2>1. /\ d.x - OutOfBounds <= a.x /\ d.y - OutOfBounds <= a.y
        /\ a.x + a.w <= d.x + d.w + OutOfBounds /\ a.y + a.h <= d.y + d.h + OutOfBounds
        /\ a.w >= Handle /\ a.h >= Handle
    BY <1>1, <1>9, NearTabletIs DEF d
  <2>2. CASE axis = "x"
    <3>1. Size[axis] = "w"
      BY <2>2 DEF Size
    <3>2. one.x = a.x + shift /\ one.y = a.y /\ one.w = a.w - shift /\ one.h = a.h
      BY <1>1, <2>2, <3>1 DEF Area
    <3>3. low = d.x - OutOfBounds /\ high = a.x + a.w - Handle /\ shift = start - a.x
      BY <2>2, <3>1 DEF low, high, shift
    <3>4. /\ one.w >= Handle /\ one.x + one.w <= d.x + d.w + OutOfBounds
          /\ d.x - OutOfBounds <= one.x
      BY <1>1, <1>4, <2>1, <3>2, <3>3
    <3> HIDE DEF one
    <3> QED BY <1>7, <2>1, <3>2, <3>4, NearTabletIs DEF d
  <2>3. CASE axis = "y"
    <3>1. Size[axis] = "h"
      BY <2>3 DEF Size
    <3>2. one.x = a.x /\ one.y = a.y + shift /\ one.w = a.w /\ one.h = a.h - shift
      BY <1>1, <2>3, <3>1 DEF Area
    <3>3. low = d.y - OutOfBounds /\ high = a.y + a.h - Handle /\ shift = start - a.y
      BY <2>3, <3>1 DEF low, high, shift
    <3>4. /\ one.h >= Handle /\ one.y + one.h <= d.y + d.h + OutOfBounds
          /\ d.y - OutOfBounds <= one.y
      BY <1>1, <1>4, <2>1, <3>2, <3>3
    <3> HIDE DEF one
    <3> QED BY <1>7, <2>1, <3>2, <3>4, NearTabletIs DEF d
  <2> QED BY <2>2, <2>3
<1>10. pulled \in Area /\ (~view.locked /\ NearTablet(view.area) => NearTablet(pulled))
  BY <1>7, <1>8, <1>9 DEF a
<1> HIDE DEF pulled
<1>11. CASE view' = view
  BY <1>11, UnmovedIs
<1>12. CASE view' = [view EXCEPT !.area = FarEdgesGiveWay(pulled, rotation)]
  <2> DEFINE b == FarEdgesGiveWay(pulled, rotation)
  <2>1. b = FarEdgesGiveWay(pulled, rotation)
    OBVIOUS
  <2> HIDE DEF b
  <2>2. Moves([view EXCEPT !.area = b])
    BY <1>10, <2>1, MovedIs
  <2> QED BY <1>12, <2>2 DEF b
<1> QED BY <1>2, <1>11, <1>12

\* A point of the widget.
IsPoint(p) == p.x \in Int /\ p.y \in Int

LEMMA DragAreaIs ==
    ASSUME IsView(view, rotation), IsPoint(point), NEW m, IsPoint(m), DragArea(m)
    PROVE  Moves(view')
<1> DEFINE a == view.area
           d == Display(rotation)
           To(axis) == a[axis] + (m[axis] - point[axis]) * Den
           Low(axis) == d[axis] - OutOfBounds
           High(axis) == d[axis] + d[Size[axis]] + OutOfBounds - a[Size[axis]]
           Moved(axis) == IF To(axis) < Low(axis) \/ High(axis) < To(axis) THEN a[axis]
                          ELSE To(axis)
           p == [a EXCEPT !.x = Moved("x"), !.y = Moved("y")]
<1>1. /\ a \in Area /\ d \in Area
      /\ a.x \in Int /\ a.y \in Int /\ a.w \in Int /\ a.h \in Int
      /\ d.x \in Int /\ d.y \in Int /\ d.w \in Int /\ d.h \in Int
      /\ Handle \in Nat /\ OutOfBounds \in Nat
  BY NumbersAre
<1>2. view' = [view EXCEPT !.area = FarEdgesGiveWay(p, rotation)]
  BY DEF DragArea
<1> HIDE DEF a, d
<1>3. To("x") \in Int /\ To("y") \in Int
  <2>1. m.x - point.x \in Int /\ m.y - point.y \in Int
    BY DEF IsPoint
  <2>2. (m.x - point.x) * Den \in Int /\ (m.y - point.y) * Den \in Int
    BY <2>1, ScaleIsPositive
  <2> QED BY <1>1, <2>2
<1>4. /\ Low("x") = d.x - OutOfBounds /\ High("x") = d.x + d.w + OutOfBounds - a.w
      /\ Low("y") = d.y - OutOfBounds /\ High("y") = d.y + d.h + OutOfBounds - a.h
  BY DEF Size
<1> HIDE DEF To, Low, High
<1>5. Moved("x") \in Int /\ Moved("y") \in Int
  BY <1>1, <1>3
<1>6. NearTablet(a) => /\ Low("x") <= Moved("x") /\ Moved("x") <= High("x")
                       /\ Low("y") <= Moved("y") /\ Moved("y") <= High("y")
  <2> SUFFICES ASSUME NearTablet(a)
               PROVE  /\ Low("x") <= Moved("x") /\ Moved("x") <= High("x")
                      /\ Low("y") <= Moved("y") /\ Moved("y") <= High("y")
    OBVIOUS
  <2>1. /\ d.x - OutOfBounds <= a.x /\ d.y - OutOfBounds <= a.y
        /\ a.x + a.w <= d.x + d.w + OutOfBounds /\ a.y + a.h <= d.y + d.h + OutOfBounds
    BY <1>1, NearTabletIs DEF d
  <2>2. /\ Low("x") <= a.x /\ a.x <= High("x") /\ Low("y") <= a.y /\ a.y <= High("y")
        /\ Low("x") \in Int /\ High("x") \in Int /\ Low("y") \in Int /\ High("y") \in Int
    BY <1>1, <1>4, <2>1
  <2> QED BY <1>3, <2>2
<1> HIDE DEF Moved
<1>7. p \in Area /\ p.x = Moved("x") /\ p.y = Moved("y") /\ p.w = a.w /\ p.h = a.h
  BY <1>1, <1>5 DEF Area
<1> HIDE DEF p
<1>8. NearTablet(a) => NearTablet(p)
  <2> SUFFICES ASSUME NearTablet(a) PROVE NearTablet(p)
    OBVIOUS
  <2>1. a.w >= Handle /\ a.h >= Handle
    BY <1>1, NearTabletIs
  <2>2. /\ d.x - OutOfBounds <= p.x /\ d.y - OutOfBounds <= p.y
        /\ p.x + p.w <= d.x + d.w + OutOfBounds /\ p.y + p.h <= d.y + d.h + OutOfBounds
        /\ p.w >= Handle /\ p.h >= Handle
    BY <1>1, <1>4, <1>5, <1>6, <1>7, <2>1
  <2> QED BY <1>7, <2>2, NearTabletIs DEF d
<1>9. Moves([view EXCEPT !.area = FarEdgesGiveWay(p, rotation)])
  <2> DEFINE b == FarEdgesGiveWay(p, rotation)
  <2>1. b = FarEdgesGiveWay(p, rotation)
    OBVIOUS
  <2> HIDE DEF b
  <2>2. ~view.locked /\ NearTablet(view.area) => NearTablet(p)
    BY <1>8 DEF a
  <2>3. Moves([view EXCEPT !.area = b])
    BY <1>7, <2>1, <2>2, MovedIs
  <2> QED BY <2>3 DEF b
<1> QED BY <1>2, <1>9

LEMMA MouseMoveIs ==
    ASSUME IsView(view, rotation), IsPoint(point), MouseMove
    PROVE  Moves(view') /\ IsPoint(point')
<1>1. PICK m \in MousePoint :
          \/ drag = "left" /\ DragNear("x", m.x * Den) /\ UNCHANGED point
          \/ drag = "top" /\ DragNear("y", m.y * Den) /\ UNCHANGED point
          \/ drag = "right" /\ DragFar("x", m.x * Den) /\ UNCHANGED point
          \/ drag = "bottom" /\ DragFar("y", m.y * Den) /\ UNCHANGED point
          \/ drag = "area" /\ DragArea(m) /\ point' = m
  BY DEF MouseMove
<1>2. IsPoint(m)
  BY UserAssumption DEF IsPoint, MousePoint
<1>3. m.x * Den \in Int /\ m.y * Den \in Int
  BY <1>2, ScaleIsPositive DEF IsPoint
<1>4. \/ DragNear("x", m.x * Den) \/ DragNear("y", m.y * Den)
      \/ DragFar("x", m.x * Den) \/ DragFar("y", m.y * Den) \/ DragArea(m)
  BY <1>1
<1>5. "x" \in {"x", "y"} /\ "y" \in {"x", "y"}
  OBVIOUS
<1>6. ASSUME DragNear("x", m.x * Den) PROVE Moves(view')
  BY <1>3, <1>5, <1>6, DragNearIs
<1>7. ASSUME DragNear("y", m.y * Den) PROVE Moves(view')
  BY <1>3, <1>5, <1>7, DragNearIs
<1>8. ASSUME DragFar("x", m.x * Den) PROVE Moves(view')
  BY <1>3, <1>5, <1>8, DragFarIs
<1>9. ASSUME DragFar("y", m.y * Den) PROVE Moves(view')
  BY <1>3, <1>5, <1>9, DragFarIs
<1>10. ASSUME DragArea(m) PROVE Moves(view')
  BY <1>2, <1>10, DragAreaIs
<1>11. point' = point \/ point' = m
  BY <1>1
<1>12. Moves(view')
  BY <1>4, <1>6, <1>7, <1>8, <1>9, <1>10
<1> QED BY <1>2, <1>11, <1>12 DEF IsPoint

-----------------------------------------------------------------------------
(* The inductive invariant. *)

Seen == [kept : BOOLEAN, area : Area, rotation : Rotation]

\* What a page holds.
IsPage(p) ==
    /\ p = [map |-> p.map, space |-> p.space, geometry |-> p.geometry]
    /\ IsAreaMap(p.map) /\ p.space \in Space /\ p.geometry \in Geometries

\* Types; what is shown or was kept is an area of the tablet as it was shown.
TypeInv ==
    /\ IsAreaMap(map) /\ IsPage(page)
    /\ current \in Space
    /\ rotation \in Rotation
    /\ IsPoint(point)
    /\ left \in [Space -> Seen]
    /\ \A s \in Space : left[s].kept => FitsIn(left[s].area, left[s].rotation)

\* The map a new dialog begins with.
Begins == IF isOpen THEN map ELSE page.map

\* A space that was left has in the map what was shown.
IsKept(m, s) == s \in DOMAIN m /\ StandsFor(m[s], left[s].area, left[s].rotation)
KeptInv ==
    /\ \A s \in Space : left[s].kept /\ (isOpen => s # current) => IsKept(map, s)
    /\ ~isOpen => \A s \in Space : left[s].kept => IsKept(page.map, s)

\* The mouse moves a part of the tablet, never the full one.
ViewInv ==
    /\ IsView(view, rotation)
    /\ drag \in {"none", "left", "right", "top", "bottom", "area"}
    /\ ~NoDrag => isOpen /\ ~view.full
    /\ ChoiceIsTrue

AreaInv == TypeInv /\ KeptInv /\ ViewInv

LEMMA AreaBegins == AreaInit => AreaInv
<1> SUFFICES ASSUME AreaInit PROVE AreaInv
  OBVIOUS
<1>1. PICK s \in Space, g \in Geometries : page = [map |-> <<>>, space |-> s, geometry |-> g]
  BY DEF AreaInit
<1>2. IsAreaMap(map) /\ IsPage(page)
  BY <1>1 DEF AreaInit, IsAreaMap, IsPage
<1>3. IsView(view, rotation)
  <2> DEFINE d == Display("none")
  <2>1. d \in Area /\ NoArea \in Area
    BY DisplayIs, NoAreaIs
  <2>2. IsSized(d, "none")
    BY DisplayIs DEF IsSized
  <2>3. [w |-> 1, h |-> 1] \in [w : Int, h : Int]
    OBVIOUS
  <2>4. /\ view = [area |-> d, locked |-> FALSE, ratio |-> [w |-> 1, h |-> 1],
                   fields |-> NoArea, full |-> TRUE, warning |-> FALSE]
        /\ rotation = "none"
    BY DEF AreaInit
  <2> HIDE DEF d
  <2>5. view \in View /\ view.area = d
    BY <2>1, <2>3, <2>4 DEF View
  <2> QED BY <2>2, <2>4, <2>5 DEF IsView
<1>4. left \in [Space -> Seen] /\ \A t \in Space : ~left[t].kept
  <2> DEFINE n == [kept |-> FALSE, area |-> NoArea, rotation |-> "none"]
  <2>1. n \in Seen /\ ~n.kept
    BY NoAreaIs DEF Seen, Rotation
  <2>2. left = [t \in Space |-> n]
    BY DEF AreaInit
  <2> HIDE DEF n
  <2> QED BY <2>1, <2>2
<1>5. TypeInv
  <2>1. current \in Space
    BY SpacesAre DEF AreaInit
  <2>2. rotation \in Rotation
    BY DEF AreaInit, Rotation
  <2>3. IsPoint(point)
    BY DEF AreaInit, IsPoint
  <2> QED BY <1>2, <1>4, <2>1, <2>2, <2>3 DEF TypeInv
<1>6. KeptInv
  BY <1>4 DEF KeptInv
<1>7. ViewInv
  BY <1>3 DEF AreaInit, ViewInv, ChoiceIsTrue, NoDrag
<1> QED BY <1>5, <1>6, <1>7 DEF AreaInv

-----------------------------------------------------------------------------
(* The invariant is inductive: what changes the view only. *)

\* A step of an open dialog that leaves a view that is true to the choice.
LEMMA ViewChanges ==
    ASSUME AreaInv, isOpen, ViewOnly, IsView(view', rotation), IsPoint(point'),
           drag' \in {"none", "left", "right", "top", "bottom", "area"},
           drag' # "none" => ~view'.full,
           view'.full /\ ~typed' => GetSelection(view') = Tablet(rotation),
           view'.warning <=> IsMonitor(current)
    PROVE  AreaInv'
<1>1. /\ map' = map /\ current' = current /\ rotation' = rotation /\ page' = page
      /\ isOpen' = isOpen /\ left' = left
  BY DEF ViewOnly, controllerVars
<1>2. TypeInv'
  BY <1>1 DEF AreaInv, TypeInv
<1>3. KeptInv'
  BY <1>1 DEF AreaInv, KeptInv, IsKept
<1>4. ChoiceIsTrue'
  BY <1>1 DEF ChoiceIsTrue
<1>5. ViewInv'
  BY <1>1, <1>4 DEF ViewInv, NoDrag
<1> QED BY <1>2, <1>3, <1>5 DEF AreaInv

\* What the invariant says of a view that is shown.
LEMMA ShownIs ==
    ASSUME AreaInv
    PROVE  /\ IsView(view, rotation) /\ view \in View /\ rotation \in Rotation
           /\ current \in Space /\ page.space \in Space /\ IsPoint(point)
           /\ IsAreaMap(map) /\ IsAreaMap(page.map)
           /\ IsPage(page) /\ page.geometry \in Geometries
           /\ isOpen => /\ view.full /\ ~typed => GetSelection(view) = Tablet(rotation)
                        /\ view.warning <=> IsMonitor(current)
BY DEF AreaInv, TypeInv, ViewInv, ChoiceIsTrue, IsView, IsPage

LEMMA SelectsFull ==
    ASSUME AreaInv, OnFullTabletSelected
    PROVE  AreaInv'
<1>1. /\ isOpen /\ drag = "none" /\ view' = SelectFullTablet(view, rotation, current)
      /\ ViewOnly /\ drag' = drag /\ point' = point
  BY DEF OnFullTabletSelected, Act, NoDrag
<1>2. view \in View /\ NoArea \in Area
  BY ShownIs, NoAreaIs
<1>3. /\ IsView(view', rotation) /\ (view'.warning <=> IsMonitor(current))
      /\ GetSelection(view') = Tablet(rotation)
  BY <1>1, <1>2, SelectOfIs
<1>4. drag' = "none" /\ IsPoint(point')
  BY <1>1, ShownIs
<1> QED BY <1>1, <1>3, <1>4, ViewChanges

LEMMA SelectsPart ==
    ASSUME AreaInv, OnTabletAreaSelected
    PROVE  AreaInv'
<1> DEFINE monitor == IsMonitor(current)
           u == [view EXCEPT !.full = FALSE, !.warning = monitor]
<1>1. isOpen /\ drag = "none" /\ view' = u /\ ViewOnly /\ drag' = drag /\ point' = point
  BY DEF OnTabletAreaSelected, Act, NoDrag
<1>2. monitor \in BOOLEAN /\ view \in View
  BY ShownIs DEF IsMonitor
<1>3. monitor <=> IsMonitor(current)
  OBVIOUS
<1> HIDE DEF monitor
<1>4. u \in View /\ u.full = FALSE /\ u.warning = monitor /\ u.area = view.area
  BY <1>2, WithChoiceIs
<1> HIDE DEF u
<1>5. IsView(view', rotation)
  BY <1>1, <1>4, ShownIs DEF IsView
<1>6. drag' = "none" /\ IsPoint(point')
  BY <1>1, ShownIs
<1>7. ~view'.full /\ (view'.warning <=> IsMonitor(current))
  BY <1>1, <1>3, <1>4
<1> QED BY <1>1, <1>5, <1>6, <1>7, ViewChanges

LEMMA Locks ==
    ASSUME AreaInv, OnLockProportionsToggled
    PROVE  AreaInv'
<1> DEFINE u == [view EXCEPT !.locked = ~@]
<1>1. /\ isOpen /\ drag = "none" /\ view' = WithRatio(u)
      /\ ViewOnly /\ drag' = drag /\ point' = point /\ typed' = typed
  BY DEF OnLockProportionsToggled, Act, NoDrag
<1>2. view \in View
  BY ShownIs
<1>3. u \in View /\ u.area = view.area /\ SameChoice(u, view)
  BY <1>2 DEF View, SameChoice
<1> HIDE DEF u
<1>4. /\ WithRatio(u) \in View /\ WithRatio(u).area = u.area /\ SameChoice(WithRatio(u), u)
  BY <1>3, WithRatioIs
<1>5. /\ view' \in View /\ view'.area = view.area
      /\ view'.full = view.full /\ view'.warning = view.warning
  BY <1>1, <1>3, <1>4 DEF SameChoice
<1>6. IsView(view', rotation)
  BY <1>5, ShownIs DEF IsView
<1>7. GetSelection(view') = GetSelection(view)
  BY <1>5 DEF GetSelection
<1>8. /\ view'.full /\ ~typed' => GetSelection(view') = Tablet(rotation)
      /\ view'.warning <=> IsMonitor(current)
  BY <1>1, <1>5, <1>7, ShownIs
<1>9. drag' = "none" /\ IsPoint(point')
  BY <1>1, ShownIs
<1> QED BY <1>1, <1>6, <1>8, <1>9, ViewChanges

LEMMA EditsField ==
    ASSUME AreaInv, NEW e \in Edits, EditField(e)
    PROVE  AreaInv'
<1> DEFINE f == e.field
           value == e.value
           u == SetField(view, f, value, rotation)
<1>1. /\ isOpen /\ drag = "none" /\ view' = u /\ typed' = TRUE
      /\ ViewOnly /\ drag' = drag /\ point' = point
  BY DEF EditField, Act, NoDrag
<1>2. f \in Field /\ value \in Int
  BY UserAssumption
<1> HIDE DEF f, value
<1>3. IsView(view, rotation)
  BY ShownIs
<1>4. FieldIsSet(u, view, f, value, rotation)
  BY <1>2, <1>3, SetFieldIs
<1> HIDE DEF u
<1>5. IsView(u, rotation) /\ u.full = view.full /\ u.warning = view.warning
  BY <1>4 DEF FieldIsSet, SameChoice
<1>6. view'.warning <=> IsMonitor(current)
  BY <1>1, <1>5, ShownIs
<1>7. drag' = "none" /\ IsPoint(point')
  BY <1>1, ShownIs
<1>8. IsView(view', rotation)
  BY <1>1, <1>5
<1>9. typed'
  BY <1>1
<1> QED BY <1>1, <1>6, <1>7, <1>8, <1>9, ViewChanges

LEMMA SelectsArea ==
    ASSUME AreaInv, isOpen, NoDrag, NEW a \in Area, SetSelectionTo(a)
    PROVE  AreaInv'
<1>1. /\ drag = "none" /\ view' = SelectOf(view, a, rotation, current) /\ typed' = FALSE
      /\ ViewOnly /\ drag' = drag /\ point' = point
  BY DEF SetSelectionTo, NoDrag
<1>2. view \in View
  BY ShownIs
<1>3. /\ IsView(view', rotation) /\ (view'.warning <=> IsMonitor(current))
      /\ view'.full => GetSelection(view') = Tablet(rotation)
  BY <1>1, <1>2, SelectOfIs
<1>4. drag' = "none" /\ IsPoint(point')
  BY <1>1, ShownIs
<1> QED BY <1>1, <1>3, <1>4, ViewChanges

LEMMA HalvesAre ==
    ASSUME NEW a \in Int, NEW d \in Nat \ {0}
    PROVE  a \div d \in Int /\ (2 * a + d) \div (2 * d) \in Int /\ a \div (2 * d) \in Int
OBVIOUS

LEMMA Proportions ==
    ASSUME AreaInv, OnSetScreenProportions
    PROVE  AreaInv'
<1> DEFINE t == Tablet(rotation)
           s == ScreenSize[IF IsMonitor(current) THEN current ELSE Desktop]
           fullWidth == t.w * s.h <= t.h * s.w
           Half(v, d) == (2 * v + d) \div (2 * d)
           high == [x |-> 0, y |-> (t.h * s.w - t.w * s.h) \div (2 * s.w),
                    w |-> t.w, h |-> Half(t.w * s.h, s.w)]
           wide == [x |-> (t.w * s.h - t.h * s.w) \div (2 * s.h), y |-> 0,
                    w |-> Half(t.h * s.w, s.h), h |-> t.h]
           a == IF fullWidth THEN high ELSE wide
<1>1. isOpen /\ NoDrag /\ SetSelectionTo(a)
  BY DEF OnSetScreenProportions, Act
<1>2. t.w \in Nat /\ t.h \in Nat
  BY TabletIs
<1>3. s.w \in Nat \ {0} /\ s.h \in Nat \ {0}
  BY SpaceAssumption, SpacesAre, ShownIs
<1> HIDE DEF t, s
<1>4. /\ t.w * s.h \in Int /\ t.h * s.w \in Int
      /\ t.h * s.w - t.w * s.h \in Int /\ t.w * s.h - t.h * s.w \in Int
  BY <1>2, <1>3
<1>5. high \in Area
  <2>1. Half(t.w * s.h, s.w) \in Int /\ (t.h * s.w - t.w * s.h) \div (2 * s.w) \in Int
    BY <1>3, <1>4, HalvesAre
  <2> HIDE DEF Half
  <2> QED BY <1>2, <2>1 DEF Area
<1>6. wide \in Area
  <2>1. Half(t.h * s.w, s.h) \in Int /\ (t.w * s.h - t.h * s.w) \div (2 * s.h) \in Int
    BY <1>3, <1>4, HalvesAre
  <2> HIDE DEF Half
  <2> QED BY <1>2, <2>1 DEF Area
<1> HIDE DEF high, wide, fullWidth
<1>7. a \in Area
  BY <1>5, <1>6
<1> HIDE DEF a
<1> QED BY <1>1, <1>7, SelectsArea

LEMMA Calibrates ==
    ASSUME AreaInv, OnCalibrateClicked \/ CalibrationCancelled
    PROVE  AreaInv'
<1>1. isOpen /\ NoDrag /\ \E a \in Area : SetSelectionTo(a)
  <2>1. ASSUME NEW tap \in Taps
        PROVE  Calibrated(tap) \in Area
    <3> DEFINE Mean(a, b) == ((a + b) * PerPixel) \div 2
    <3>1. \A c \in Corner : tap[c].x \in Int /\ tap[c].y \in Int
      BY UserAssumption
    <3>2. /\ "topLeft" \in Corner /\ "bottomLeft" \in Corner
          /\ "bottomRight" \in Corner /\ "topRight" \in Corner
      BY DEF Corner
    <3>3. ASSUME NEW a \in Int, NEW b \in Int
          PROVE  Mean(a, b) \in Int
      <4>1. (a + b) * PerPixel \in Int
        BY SizeAssumption
      <4> QED BY <4>1
    <3>4. Width \in Int /\ Height \in Int
      BY SizeAssumption
    <3> HIDE DEF Mean
    <3>5. /\ Mean(tap["topLeft"].x, tap["bottomLeft"].x) \in Int
          /\ Mean(tap["topLeft"].y, tap["topRight"].y) \in Int
          /\ Mean(tap["topRight"].x, tap["bottomRight"].x) \in Int
          /\ Mean(tap["bottomLeft"].y, tap["bottomRight"].y) \in Int
      BY <3>1, <3>2, <3>3
    <3>6. Calibrated(tap)
             = [x |-> Mean(tap["topLeft"].x, tap["bottomLeft"].x),
                y |-> Mean(tap["topLeft"].y, tap["topRight"].y),
                w |-> Width + Mean(tap["topRight"].x, tap["bottomRight"].x)
                         - Mean(tap["topLeft"].x, tap["bottomLeft"].x),
                h |-> Height + Mean(tap["bottomLeft"].y, tap["bottomRight"].y)
                         - Mean(tap["topLeft"].y, tap["topRight"].y)]
      BY DEF Calibrated, Mean
    <3> QED BY <3>4, <3>5, <3>6 DEF Area
  <2>2. CASE OnCalibrateClicked
    BY <2>1, <2>2 DEF OnCalibrateClicked, Act
  <2>3. CASE CalibrationCancelled
    BY <2>3, NoAreaIs DEF CalibrationCancelled, Act
  <2> QED BY <2>2, <2>3
<1>2. PICK a \in Area : SetSelectionTo(a)
  BY <1>1
<1> QED BY <1>1, <1>2, SelectsArea

LEMMA Presses ==
    ASSUME AreaInv, MousePress
    PROVE  AreaInv'
<1>1. /\ isOpen /\ ~view.full /\ view' = view /\ typed' = typed /\ ViewOnly
      /\ drag' \in {"none", "left", "right", "top", "bottom", "area"}
      /\ point' = point \/ (\E m \in MousePoint : point' = m)
  BY DEF MousePress, Act
<1>2. IsPoint(point')
  BY <1>1, ShownIs, UserAssumption DEF IsPoint, MousePoint
<1> QED BY <1>1, <1>2, ShownIs, ViewChanges

LEMMA Drags ==
    ASSUME AreaInv, MouseMove
    PROVE  AreaInv'
<1>1. drag' = drag /\ typed' = typed /\ ViewOnly /\ ~NoDrag
  BY DEF MouseMove, NoDrag
<1>2. isOpen /\ ~view.full /\ drag \in {"none", "left", "right", "top", "bottom", "area"}
  BY <1>1 DEF AreaInv, ViewInv
<1>3. Moves(view') /\ IsPoint(point')
  BY ShownIs, MouseMoveIs
<1>4. IsView(view', rotation) /\ view'.full = view.full /\ view'.warning = view.warning
  BY <1>3 DEF Moves, SameChoice
<1>5. ~view'.full /\ (view'.warning <=> IsMonitor(current))
  BY <1>2, <1>4, ShownIs
<1> QED BY <1>1, <1>2, <1>3, <1>4, <1>5, ViewChanges

LEMMA Releases ==
    ASSUME AreaInv, MouseRelease
    PROVE  AreaInv'
<1>1. /\ drag' = "none" /\ point' = [x |-> 0, y |-> 0] /\ ViewOnly /\ ~NoDrag
      /\ view' = OnSelectionChanged(view, rotation)
  BY DEF MouseRelease
<1>2. isOpen /\ ~view.full
  BY <1>1 DEF AreaInv, ViewInv
<1>3. IsView(view', rotation) /\ SameChoice(view', view)
  BY <1>1, ShownIs, FieldsAreFilled
<1>4. view'.full = view.full /\ view'.warning = view.warning
  BY <1>3 DEF SameChoice
<1>5. ~view'.full /\ (view'.warning <=> IsMonitor(current))
  BY <1>2, <1>4, ShownIs
<1>6. IsPoint(point') /\ drag' \in {"none", "left", "right", "top", "bottom", "area"}
  BY <1>1 DEF IsPoint
<1>7. drag' = "none"
  BY <1>1
<1> QED BY <1>1, <1>2, <1>3, <1>5, <1>6, <1>7, ViewChanges

-----------------------------------------------------------------------------
(* The invariant is inductive: spaces are left. *)

\* What Leave leaves.
LeavesSpace(s, v, r) ==
    /\ left' \in [Space -> Seen]
    /\ left'[s] = [kept |-> TRUE, area |-> GetSelection(v), rotation |-> r]
    /\ \A t \in Space : t # s => left'[t] = left[t]
    /\ \A t \in Space : left'[t].kept => FitsIn(left'[t].area, left'[t].rotation)

LEMMA LeaveIs ==
    ASSUME AreaInv, NEW s \in Space, NEW r \in Rotation, NEW v, IsView(v, r), Leave(s, v, r)
    PROVE  LeavesSpace(s, v, r)
<1> DEFINE n == [kept |-> TRUE, area |-> GetSelection(v), rotation |-> r]
<1>1. GetSelection(v) \in Area /\ FitsIn(GetSelection(v), r)
  BY SelectionIs
<1>2. n \in Seen /\ FitsIn(n.area, n.rotation)
  BY <1>1 DEF Seen
<1>3. left' = [left EXCEPT ![s] = n]
  BY DEF Leave
<1>4. left \in [Space -> Seen] /\ \A t \in Space : left[t].kept => FitsIn(left[t].area, left[t].rotation)
  BY DEF AreaInv, TypeInv
<1>5. left' \in [Space -> Seen] /\ left'[s] = n /\ \A t \in Space : t # s => left'[t] = left[t]
  <2> HIDE DEF n
  <2> QED BY <1>2, <1>3, <1>4
<1> HIDE DEF n
<1>6. \A t \in Space : left'[t].kept => FitsIn(left'[t].area, left'[t].rotation)
  BY <1>2, <1>4, <1>5
<1> QED BY <1>5, <1>6 DEF LeavesSpace, n

\* The space that is left is kept, as the others were.
LEMMA MapKeeps ==
    ASSUME NEW s \in Space, NEW r \in Rotation, NEW v, IsView(v, r), LeavesSpace(s, v, r),
           NEW m, IsAreaMap(m), NEW n, n = SetMapping(m, s, GetSelection(v), r),
           page.geometry \in Geometries,
           NEW t \in Space, left'[t].kept, t # s => left[t].kept /\ IsKept(m, t)
    PROVE  t \in DOMAIN n /\ StandsFor(n[t], left'[t].area, left'[t].rotation)
<1> DEFINE a == GetSelection(v)
<1>1. a \in Area /\ n = SetMapping(m, s, a, r)
  BY SelectionIs
<1> HIDE DEF a
<1>2. Sets(n, m, s, a, r)
  BY <1>1, SetMappingIs
<1>3. CASE t = s
  BY <1>2, <1>3 DEF LeavesSpace, Sets, a
<1>4. CASE t # s
  BY <1>2, <1>4 DEF LeavesSpace, IsKept, Sets
<1> QED BY <1>3, <1>4

\* A space that is seen shows what it was left with.
SeenAs(was, r) ==
    /\ IsEmpty(was.area) => GetSelection(view') = Tablet(r)
    /\ ~IsEmpty(was.area) /\ was.rotation = r => GetSelection(view') = was.area

\* Going to a space from one whose view is v: it shows what it was left with.
LEMMA GoesTo ==
    ASSUME AreaInv, NEW m, IsAreaMap(m), NEW r \in Rotation, NEW v, IsView(v, r),
           NEW from \in Space, NEW to \in Space,
           map' = ToSpace(m, v, from, to, r).map, view' = ToSpace(m, v, from, to, r).view,
           Leave(from, v, r), rotation' = r, current' = to, isOpen', page' = page,
           drag' = "none", IsPoint(point'),
           \A t \in Space : t # from /\ left[t].kept => IsKept(m, t)
    PROVE  /\ AreaInv'
           /\ left'[to].kept => SeenAs(left'[to], r)
<1>1. /\ map' = SetMapping(m, from, GetSelection(v), r)
      /\ ShowsSpace(view', r, to)
      /\ to \in DOMAIN map' => ShowsKept(view', map'[to], r)
  <2> DEFINE now == ToSpace(m, v, from, to, r)
  <2>1. /\ now.map = SetMapping(m, from, GetSelection(v), r)
        /\ ShowsSpace(now.view, r, to)
        /\ to \in DOMAIN now.map => ShowsKept(now.view, now.map[to], r)
    BY ShownIs, ToSpaceIs
  <2> HIDE DEF now
  <2>2. map' = now.map /\ view' = now.view
    BY DEF now
  <2>3. ShowsKept(now.view, now.map[to], r) => ShowsKept(view', map'[to], r)
    BY <2>2 DEF ShowsKept
  <2> QED BY <2>1, <2>2, <2>3
<1>2. LeavesSpace(from, v, r)
  BY LeaveIs
<1>3. GetSelection(v) \in Area
  BY SelectionIs
<1>4. IsAreaMap(map')
  BY <1>1, <1>3, ShownIs, SetMappingIs
<1>5. ASSUME NEW t \in Space, left'[t].kept
      PROVE  t \in DOMAIN map' /\ StandsFor(map'[t], left'[t].area, left'[t].rotation)
  <2>1. t # from => left[t].kept /\ IsKept(m, t)
    BY <1>2, <1>5 DEF LeavesSpace
  <2> QED BY <1>1, <1>2, <1>5, <2>1, ShownIs, MapKeeps
<1>6. TypeInv'
  <2>1. IsPage(page)
    BY ShownIs
  <2>2. /\ left' \in [Space -> Seen]
        /\ \A t \in Space : left'[t].kept => FitsIn(left'[t].area, left'[t].rotation)
    BY <1>2 DEF LeavesSpace
  <2>3. IsPage(page')
    BY <2>1
  <2>4. current' \in Space /\ rotation' \in Rotation
    OBVIOUS
  <2> QED BY <1>4, <2>2, <2>3, <2>4 DEF TypeInv
<1>7. KeptInv'
  <2>1. \A t \in Space : left'[t].kept => IsKept(map, t)'
    BY <1>5 DEF IsKept
  <2> QED BY <2>1 DEF KeptInv
<1>8. ViewInv'
  <2>1. /\ IsView(view', r) /\ (view'.warning <=> IsMonitor(to))
        /\ view'.full => GetSelection(view') = Tablet(r)
    BY <1>1 DEF ShowsSpace
  <2>2. ChoiceIsTrue'
    BY <2>1 DEF ChoiceIsTrue
  <2>3. drag' \in {"none", "left", "right", "top", "bottom", "area"} /\ NoDrag'
    BY DEF NoDrag
  <2>4. IsView(view', rotation')
    BY <2>1
  <2> QED BY <2>2, <2>3, <2>4 DEF ViewInv
<1>9. AreaInv'
  BY <1>6, <1>7, <1>8 DEF AreaInv
<1>10. ASSUME left'[to].kept
       PROVE  SeenAs(left'[to], r)
  <2> DEFINE a == left'[to].area
             q == left'[to].rotation
  <2>1. a \in Area /\ q \in Rotation /\ FitsIn(a, q)
    BY <1>2, <1>10 DEF LeavesSpace, Seen
  <2>2. to \in DOMAIN map' /\ StandsFor(map'[to], a, q)
    BY <1>5, <1>10
  <2> HIDE DEF a, q
  <2>3. ShowsKept(view', map'[to], r)
    BY <1>1, <2>2
  <2>4. /\ Extent(a) /\ q = r /\ FitsIn(a, r) => GetSelection(view') = a
        /\ ~Extent(a) => GetSelection(view') = Tablet(r)
    BY <2>1, <2>2, <2>3 DEF ShowsKept
  <2>5. IsEmpty(a) <=> ~Extent(a)
    BY <2>1, EmptyIs
  <2> QED BY <2>1, <2>4, <2>5 DEF SeenAs, a, q
<1> QED BY <1>9, <1>10

\* A space that is seen again shows what it was left with.
SeenAgain ==
    isOpen' /\ (~isOpen \/ current' # current) /\ left'[current'].kept =>
        SeenAs(left'[current'], rotation')

LEMMA Toggles ==
    ASSUME AreaInv, OnScreenToggle
    PROVE  AreaInv' /\ SeenAgain
<1> DEFINE next == NextSpace(current)
           now == ToSpace(map, view, current, next, rotation)
<1>1. /\ isOpen /\ drag = "none" /\ map' = now.map /\ view' = now.view /\ current' = next
      /\ Leave(current, view, rotation)
      /\ rotation' = rotation /\ drag' = drag /\ point' = point /\ page' = page
      /\ isOpen' = isOpen
  BY DEF OnScreenToggle, Act, NoDrag
<1>2. /\ IsAreaMap(map) /\ rotation \in Rotation /\ IsView(view, rotation)
      /\ current \in Space /\ next \in Space /\ IsPoint(point)
  BY ShownIs, SpacesAre
<1> HIDE DEF next
<1>3. \A t \in Space : t # current /\ left[t].kept => IsKept(map, t)
  BY <1>1 DEF AreaInv, KeptInv
<1>4. drag' = "none" /\ IsPoint(point') /\ isOpen'
  BY <1>1, <1>2
<1>5. /\ AreaInv'
      /\ left'[next].kept => SeenAs(left'[next], rotation)
  BY <1>1, <1>2, <1>3, <1>4, GoesTo
<1> QED BY <1>1, <1>5 DEF SeenAgain

LEMMA Opens ==
    ASSUME AreaInv, NEW r \in Rotations, Open(r)
    PROVE  AreaInv' /\ SeenAgain
<1> DEFINE desktop == SetupController(page.map, r)
           space == page.space
           m == page.map
           now == ToSpace(m, desktop, Desktop, space, r)
<1>1. /\ ~isOpen /\ map' = now.map /\ view' = now.view /\ Leave(Desktop, desktop, r)
      /\ rotation' = r /\ current' = space /\ isOpen' = TRUE
      /\ page' = page /\ drag' = drag /\ point' = point
  BY DEF Open
<1>2. r \in Rotation
  BY UserAssumption
<1>3. IsAreaMap(m) /\ space \in Space /\ Desktop \in Space /\ IsPoint(point)
  BY ShownIs, SpacesAre
<1>4. IsView(desktop, r)
  BY <1>2, <1>3, ShownIs, SetupIs
<1>5. drag = "none"
  BY <1>1 DEF AreaInv, ViewInv, NoDrag
<1>6. \A t \in Space : t # Desktop /\ left[t].kept => IsKept(m, t)
  BY <1>1 DEF AreaInv, KeptInv
<1> HIDE DEF desktop, space, m
<1>7. drag' = "none" /\ IsPoint(point') /\ isOpen'
  BY <1>1, <1>3, <1>5
<1>8. /\ AreaInv'
      /\ left'[space].kept => SeenAs(left'[space], r)
  BY <1>1, <1>2, <1>3, <1>4, <1>6, <1>7, GoesTo
<1> QED BY <1>1, <1>8 DEF SeenAgain

LEMMA Accepts ==
    ASSUME AreaInv, Accept
    PROVE  AreaInv'
<1> DEFINE n == SetMapping(map, current, GetSelection(view), rotation)
<1>1. /\ page' = [page EXCEPT !.map = n, !.space = current] /\ map' = page'.map
      /\ Leave(current, view, rotation) /\ isOpen /\ isOpen' = FALSE /\ drag = "none"
      /\ current' = current /\ rotation' = rotation /\ view' = view /\ drag' = drag
      /\ point' = point
  BY DEF Accept, NoDrag
<1>2. /\ IsAreaMap(map) /\ rotation \in Rotation /\ IsView(view, rotation)
      /\ current \in Space /\ IsPoint(point) /\ GetSelection(view) \in Area
  BY ShownIs, SelectionIs
<1>3. n = SetMapping(map, current, GetSelection(view), rotation)
  OBVIOUS
<1>4. IsAreaMap(n)
  BY <1>2, ShownIs, SetMappingIs
<1> HIDE DEF n
<1>5. /\ page'.map = n /\ map' = n /\ page'.space = current /\ page'.geometry = page.geometry
      /\ page' = [map |-> n, space |-> current, geometry |-> page.geometry]
  BY <1>1, ShownIs DEF IsPage
<1>6. LeavesSpace(current, view, rotation)
  BY <1>1, <1>2, LeaveIs
<1>7. ASSUME NEW t \in Space, left'[t].kept
      PROVE  t \in DOMAIN n /\ StandsFor(n[t], left'[t].area, left'[t].rotation)
  <2>1. t # current => left[t].kept /\ IsKept(map, t)
    BY <1>1, <1>6, <1>7 DEF LeavesSpace, AreaInv, KeptInv
  <2> QED BY <1>2, <1>3, <1>6, <1>7, <2>1, ShownIs, MapKeeps
<1>8. TypeInv'
  <2>1. /\ left' \in [Space -> Seen]
        /\ \A t \in Space : left'[t].kept => FitsIn(left'[t].area, left'[t].rotation)
    BY <1>6 DEF LeavesSpace
  <2>2. IsAreaMap(map') /\ IsPage(page')
    BY <1>2, <1>4, <1>5, ShownIs DEF IsPage
  <2>3. current' \in Space /\ rotation' \in Rotation /\ IsPoint(point')
    BY <1>1, <1>2
  <2> QED BY <2>1, <2>2, <2>3 DEF TypeInv
<1>9. KeptInv'
  <2>1. \A t \in Space : left'[t].kept => IsKept(map, t)' /\ IsKept(page.map, t)'
    BY <1>5, <1>7 DEF IsKept
  <2> QED BY <2>1 DEF KeptInv
<1>10. ViewInv'
  BY <1>1, <1>2 DEF ViewInv, ChoiceIsTrue, NoDrag
<1> QED BY <1>8, <1>9, <1>10 DEF AreaInv

LEMMA Rejects ==
    ASSUME AreaInv, Cancel
    PROVE  AreaInv'
<1> DEFINE n == [kept |-> FALSE, area |-> NoArea, rotation |-> "none"]
<1>1. /\ isOpen' = FALSE /\ left' = [s \in Space |-> n] /\ drag = "none"
      /\ map' = map /\ current' = current /\ rotation' = rotation /\ view' = view
      /\ drag' = drag /\ point' = point /\ page' = page
  BY DEF Cancel, NoDrag, controllerVars
<1>2. n \in Seen /\ ~n.kept
  BY NoAreaIs DEF Seen, Rotation
<1> HIDE DEF n
<1>3. left' \in [Space -> Seen] /\ \A t \in Space : ~left'[t].kept
  BY <1>1, <1>2
<1>4. TypeInv'
  BY <1>1, <1>3 DEF AreaInv, TypeInv
<1>5. KeptInv'
  BY <1>3 DEF KeptInv
<1>6. ViewInv'
  BY <1>1 DEF AreaInv, ViewInv, ChoiceIsTrue, NoDrag
<1> QED BY <1>4, <1>5, <1>6 DEF AreaInv

-----------------------------------------------------------------------------
(* The theorems. *)

LEMMA AreaStepKeeps ==
    ASSUME AreaInv, [AreaNext]_areaVars
    PROVE  AreaInv' /\ SeenAgain
<1>1. CASE UNCHANGED areaVars
  <2>1. /\ map' = map /\ current' = current /\ rotation' = rotation /\ view' = view
        /\ drag' = drag /\ point' = point /\ page' = page /\ isOpen' = isOpen
        /\ left' = left /\ typed' = typed
    BY <1>1 DEF areaVars, controllerVars
  <2>2. TypeInv'
    BY <2>1 DEF AreaInv, TypeInv
  <2>3. KeptInv'
    BY <2>1 DEF AreaInv, KeptInv, IsKept
  <2>4. ChoiceIsTrue'
    BY <2>1 DEF AreaInv, ViewInv, ChoiceIsTrue
  <2>5. ViewInv'
    BY <2>1, <2>4 DEF AreaInv, ViewInv, NoDrag
  <2> QED BY <2>1, <2>2, <2>3, <2>5 DEF AreaInv, SeenAgain
<1>2. ASSUME isOpen' = isOpen /\ current' = current
      PROVE  SeenAgain
  BY <1>2 DEF SeenAgain
<1>3. ASSUME ViewOnly
      PROVE  SeenAgain
  BY <1>2, <1>3 DEF ViewOnly, controllerVars
<1>4. CASE \E r \in Rotations : Open(r)
  BY <1>4, Opens
<1>5. CASE Accept
  <2>1. ~isOpen'
    BY <1>5 DEF Accept
  <2> QED BY <1>5, <2>1, Accepts DEF SeenAgain
<1>6. CASE Cancel
  <2>1. ~isOpen'
    BY <1>6 DEF Cancel
  <2> QED BY <1>6, <2>1, Rejects DEF SeenAgain
<1>7. CASE OnScreenToggle
  BY <1>7, Toggles
<1>8. CASE OnFullTabletSelected
  BY <1>3, <1>8, SelectsFull DEF OnFullTabletSelected
<1>9. CASE OnTabletAreaSelected
  BY <1>3, <1>9, SelectsPart DEF OnTabletAreaSelected
<1>10. CASE OnLockProportionsToggled
  BY <1>3, <1>10, Locks DEF OnLockProportionsToggled
<1>11. CASE \E e \in Edits : EditField(e)
  BY <1>3, <1>11, EditsField DEF EditField
<1>12. CASE OnSetScreenProportions
  BY <1>3, <1>12, Proportions DEF OnSetScreenProportions, SetSelectionTo
<1>13. CASE OnCalibrateClicked \/ CalibrationCancelled
  BY <1>3, <1>13, Calibrates DEF OnCalibrateClicked, CalibrationCancelled, SetSelectionTo
<1>14. CASE MousePress
  BY <1>3, <1>14, Presses DEF MousePress
<1>15. CASE MouseMove
  BY <1>3, <1>15, Drags DEF MouseMove
<1>16. CASE MouseRelease
  BY <1>3, <1>16, Releases DEF MouseRelease
<1> QED BY <1>1, <1>4, <1>5, <1>6, <1>7, <1>8, <1>9, <1>10, <1>11, <1>12, <1>13, <1>14,
           <1>15, <1>16 DEF AreaNext, Mouse

\* Whatever the user drags, types, calibrates and toggles through, and however the tablet
\* is turned when the dialog opens, the invariant holds.
THEOREM AreaHolds == AreaSpec => []AreaInv
<1>1. AreaInv /\ [AreaNext]_areaVars => AreaInv'
  BY AreaStepKeeps
<1> QED BY <1>1, AreaBegins, PTL DEF AreaSpec

\* The dialog stays within its types, and the mouse drags only what is shown, never the
\* full tablet (AreaSelectionWidget).
THEOREM AreaTypes == AreaSpec => []AreaTypeOK
<1>1. AreaInv => AreaTypeOK
  BY ShownIs DEF AreaInv, ViewInv, AreaTypeOK, IsAreaMap
<1> QED BY <1>1, AreaHolds, PTL

\* The area saved for a screen is, corner for corner, the part of the tablet that was shown
\* when the screen was left, the tablet or no area at all if what was shown had no extent
\* (ScreenMap::setMapping), and choice and warning are true, for any tablet, scale, screens
\* and rotation (TabletAreaSelectionController, TabletArea).
THEOREM AreasTrue == AreaSpec => []AreasAreTrue
<1>1. AreaInv => MappingsAreKept
  <2> SUFFICES ASSUME AreaInv, NEW s \in Space, left[s].kept, isOpen => s # current
               PROVE  /\ s \in DOMAIN map
                      /\ IF IsEmpty(left[s].area) THEN map[s] \in Geometries
                         ELSE {TurnPoint(p, left[s].rotation) : p \in Corners(map[s])}
                                 = Corners(left[s].area)
    BY DEF MappingsAreKept
  <2> DEFINE a == left[s].area
             r == left[s].rotation
  <2>1. a \in Area /\ r \in Rotation
    BY DEF AreaInv, TypeInv, Seen
  <2>2. s \in DOMAIN map /\ StandsFor(map[s], a, r) /\ (IsEmpty(a) <=> ~Extent(a))
    BY <2>1, EmptyIs DEF AreaInv, KeptInv, IsKept
  <2> HIDE DEF a, r
  <2>3. {TurnPoint(p, r) : p \in Corners(ConvertFromRotation(a, r))} = Corners(a)
    BY <2>1, CornersAreTurned
  <2>4. IF IsEmpty(a) THEN map[s] \in Geometries
        ELSE {TurnPoint(p, r) : p \in Corners(map[s])} = Corners(a)
    BY <2>2, <2>3 DEF StandsFor
  <2> QED BY <2>2, <2>4 DEF a, r
<1>2. AreaInv => ChoiceIsTrue
  BY DEF AreaInv, ViewInv
<1>3. AreaInv => AreasAreTrue
  BY <1>1, <1>2 DEF AreasAreTrue
<1> QED BY <1>3, AreaHolds, PTL

\* A screen that is selected again shows the area it was left with, or the full tablet if
\* that was empty: scaling, rounding, turning and the choice between full tablet and part
\* of it lose nothing
\* (TabletAreaSelectionController::select, AreaSelectionWidget).
THEOREM ShownAgain == AreaSpec => ShownAsLeft
<1>1. AreaInv /\ [AreaNext]_areaVars => SeenAgain
  BY AreaStepKeeps
<1>2. AreaInv /\ [AreaNext]_areaVars =>
        (isOpen' /\ (~isOpen \/ current' # current) /\ left'[current'].kept =>
            LET was == left'[current']
            IN  /\ IsEmpty(was.area) => GetSelection(view') = Tablet(rotation')
                /\ ~IsEmpty(was.area) /\ was.rotation = rotation' =>
                       GetSelection(view') = was.area)
  BY <1>1 DEF SeenAgain, SeenAs
<1> QED BY <1>2, AreaHolds, PTL DEF AreaSpec, ShownAsLeft

\* The fields get what the mouse selected and take nothing from it, and with free
\* proportions the mouse keeps the area near the tablet and not smaller than a handle
\* (TabletAreaSelectionView::onSelectionChanged, AreaSelectionWidget::mouseMoveEvent).
THEOREM SelectionFollows == AreaSpec => SelectionFollowsMouse
<1>1. AreaInv => (MouseRelease /\ GetSelection(view).w > 0 /\ GetSelection(view).h > 0 =>
                  /\ view'.fields = GetSelection(view)
                  /\ GetSelection(view') = GetSelection(view))
  <2> SUFFICES ASSUME AreaInv, MouseRelease, Extent(GetSelection(view))
               PROVE  /\ view'.fields = GetSelection(view)
                      /\ GetSelection(view') = GetSelection(view)
    BY DEF Extent
  <2>1. view' = OnSelectionChanged(view, rotation)
    BY DEF MouseRelease
  <2>2. IsView(view, rotation)
    BY ShownIs
  <2>3. /\ OnSelectionChanged(view, rotation).fields = Unscaled(view.area)
        /\ Extent(Unscaled(view.area)) =>
              Unscaled(OnSelectionChanged(view, rotation).area) = Unscaled(view.area)
    BY <2>2, FieldsAreFilled
  <2> QED BY <2>1, <2>3 DEF GetSelection
<1>2. AreaInv => (MouseMove /\ ~view.locked /\ NearTablet(view.area) => NearTablet(view'.area))
  <2> SUFFICES ASSUME AreaInv, MouseMove, ~view.locked, NearTablet(view.area)
               PROVE  NearTablet(view'.area)
    OBVIOUS
  <2>1. Moves(view')
    BY ShownIs, MouseMoveIs
  <2> QED BY <2>1 DEF Moves
<1>3. AreaSpec => FieldsFollowSelection
  BY <1>1, AreaHolds, PTL DEF FieldsFollowSelection
<1>4. AreaSpec => DragsStayNearTablet
  BY <1>2, AreaHolds, PTL DEF DragsStayNearTablet
<1> QED BY <1>3, <1>4, PTL DEF SelectionFollowsMouse

=============================================================================
