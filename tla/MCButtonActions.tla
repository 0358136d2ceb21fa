--------------------------- MODULE MCButtonActions ---------------------------
(* Instances of ButtonActions for TLC. *)
EXTENDS ButtonActions

Text(head, signed) ==
    [head |-> head, words |-> [i \in DOMAIN signed |->
                                  [sign |-> signed[i][1], word |-> signed[i][2]]]]

\* As written by the page, by the driver, by hand; the last ones are refused.
SomeTexts ==
    {Text("", <<>>), Text("", <<<<"", "0">>>>), Text("", <<<<"", "5">>>>),
     Text("button", <<<<"+", "32">>>>), Text("key", <<<<"", "1">>>>),
     Text("", <<<<"", "ctrl">>, <<"", "+">>>>),
     Text("key", <<<<"+", "ctrl">>, <<"+", "x">>, <<"-", "x">>>>),
     Text("key", <<<<"+", "super">>, <<"+", "alt">>>>),
     Text("", <<<<"", "meta">>, <<"", "shift">>, <<"", "pgdown">>>>),
     Text("", <<<<"", "33">>>>), Text("key", <<<<"", "super_l">>, <<"", "x">>>>),
     Text("", <<<<"", "shift">>, <<"", "ctrl">>, <<"", "x">>>>)}
SomeReloads == {Text("button", <<<<"+", "32">>>>)}

Press(modifiers, key) == [modifiers |-> modifiers, key |-> key]
SomePresses ==
    {Press({"ctrl"}, "x"), Press({}, "1"), Press({"ctrl", "alt"}, "+"), Press({"shift"}, "backtab"),
     Press({}, "volume down"), Press({}, "altgr"), Press({"ctrl"}, "ctrl"),
     Press({}, Unresolved)}
=============================================================================
