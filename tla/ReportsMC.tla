---- MODULE ReportsMC ----
EXTENDS Reports

\* A key that the menu translates and a key set holds, and F12, which it holds
\* too; the custom button is a key of the number pad.
MCKeysets == [KEYSET1 |-> [Right |-> "right", F12 |-> "fire"]]
MCUsbKeys == <<"Right", "F12">>
MCModifiers == <<"LeftShift">>
MCPadButtons == <<"up", "CUSTOM">>
MCPadMoves == {<<8, <<"mid", "mid">>>>, <<0, <<"mid", "mid">>>>, <<3, <<"low", "mid">>>>}
MCMaxChanges == [keyboard |-> 2, pad |-> 2, mouse |-> 1, gpio |-> 2]

\* Nothing; two buttons to ground, whose pins have a use in every
\* configuration; two that both move the menu's cursor up; a keyboard's board
\* with a cursor key, a shift key and the fire button of joystick 1, where
\* outputs are not allowed; and one of the buttons beside a DPI display.
MCSetups == {[board |-> {}, dpi |-> FALSE, outputs |-> FALSE],
             [board |-> {<<Ground, 16>>, <<Ground, 12>>}, dpi |-> FALSE, outputs |-> TRUE],
             [board |-> {<<Ground, 9>>, <<Ground, 14>>}, dpi |-> FALSE, outputs |-> FALSE],
             [board |-> {<<0, 10>>, <<1, 15>>, <<17, 15>>}, dpi |-> FALSE, outputs |-> FALSE],
             [board |-> {<<Ground, 16>>}, dpi |-> TRUE, outputs |-> TRUE]}
MCMatrixKeys == [k \in {<<0, 2>>, <<1, 7>>} |-> IF k[1] = 0 THEN "Right" ELSE "LeftShift"]
MCBindings == [p \in {16, 12} |-> IF p = 16 THEN <<0, "CUSTOM">> ELSE <<1, "fire">>]
MCDdrs == {{}, {1}}
MCJoyChoices == {<<"KEYSET1", "NUMS_1">>, <<"USB_0", "GPIO_0">>, <<"USB_0", "USB_0">>}
====
