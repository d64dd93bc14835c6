---- MODULE UsbReports ----
(***************************************************************************)
(* The USB status handlers of kernel.cpp on core 0: each report holds all  *)
(* that is down, and the handler finds what changed since the last one.    *)
(* Core 1 opens and closes the menu meanwhile, so a handler that has read  *)
(* ui_enabled may go on with a value that is no longer true; the modifiers *)
(* and the keys of a report are therefore steps of their own.              *)
(***************************************************************************)
EXTENDS InputRouting

CONSTANTS UsbKeys,      \* the keys of the keyboard, in the order of their codes
          Modifiers,    \* the modifier keys, in the order of their bits
          PadButtons,   \* usb_button_assignments: the function of each button
          PadMoves      \* the positions of hat and axes that reports show

\* Each key and each modifier is another one, and the modifiers, of which F12 is
\* none, have bits of their own in a report.
ASSUME KeyAssumption ==
  /\ UsbKeys \in Seq(STRING) /\ Modifiers \in Seq(STRING)
  /\ \A i, j \in DOMAIN UsbKeys : UsbKeys[i] = UsbKeys[j] => i = j
  /\ \A i, j \in DOMAIN Modifiers : Modifiers[i] = Modifiers[j] => i = j
  /\ \A i \in DOMAIN UsbKeys, j \in DOMAIN Modifiers : UsbKeys[i] # Modifiers[j]
  /\ \A j \in DOMAIN Modifiers : Modifiers[j] # "F12"
ASSUME PadAssumption == PadButtons \in Seq(STRING)

VARIABLES
  keyboard,  \* mod_states, key_states and the shift flags of the menu
  report,    \* the keyboard report that is being handled
  pad,       \* what the gamepad handler remembers, and usb_pref
  padReport, \* the gamepad report that is being handled
  mouse,     \* the buttons of the last mouse report, and of the emulated mouse
  padFresh,  \* history: the last change of the pad was sent to its port
  padShown   \* history: the directions that the last report showed

usbVars == <<keyboard, report, pad, padReport, mouse, padFresh, padShown>>

Shift(key) == key \in {"LeftShift", "RightShift"}
Idle == [todo |-> <<>>, stage |-> "idle", seen |-> FALSE, mods |-> {}, keys |-> {}]
NoPadReport == [buttons |-> {}, hat |-> 8, x |-> "mid", y |-> "mid", handled |-> TRUE, seen |-> FALSE]

UsbInit ==
  /\ keyboard = [mods |-> {}, keys |-> {}, shifts |-> {}]
  /\ report = Idle
  /\ \E pref \in {"hat", "paddles", "analog"} :
       pad = [pref |-> pref, buttons |-> {}, dpad |-> 8, dirs |-> {}, x |-> "mid", y |-> "mid",
              joyPrev |-> {}, raw |-> FALSE]
  /\ padReport = NoPadReport
  /\ mouse = [prev |-> {}, emulated |-> {}]
  /\ padFresh = TRUE
  /\ padShown = {}

Unpressed(s) == [s EXCEPT !.unpressed = {}]

\* The keys that are down in one report and up in the other, in their order.
Changed(keys, old, new) ==
  LET found[i \in 0 .. Len(keys)] ==
        IF i = 0 THEN <<>>
        ELSE IF (keys[i] \in new) = (keys[i] \in old) THEN found[i - 1]
        ELSE Append(found[i - 1], keys[i])
  IN  found[Len(keys)]

\* KeyStatusHandlerRaw: the report arrives, then the modifiers are compared
\* one by one, then ui_activated is read, then the keys are compared.
KeyReport(mods, keys) ==
  /\ report.stage = "idle"
  /\ <<mods, keys>> # <<keyboard.mods, keyboard.keys>>
  /\ report' = [todo |-> Changed(Modifiers, keyboard.mods, mods),
                stage |-> "mods", seen |-> FALSE, mods |-> mods, keys |-> keys]
  /\ sink' = Unpressed(sink)
  /\ UNCHANGED <<keyboard, pad, padReport, mouse, padFresh, padShown>>

\* A shift key first changes its flag, if the menu is up, and is then told,
\* which reads ui_enabled again.
FlagShift ==
  /\ report.stage = "mods" /\ report.todo # <<>> /\ Shift(Head(report.todo))
  /\ LET m == Head(report.todo)
         flip(S) == IF m \in report.mods THEN S \cup {m} ELSE S \ {m}
     IN  keyboard' = [keyboard EXCEPT !.shifts = IF ui THEN flip(@) ELSE @]
  /\ report' = [report EXCEPT !.stage = "shift"]
  /\ sink' = Unpressed(sink)
  /\ UNCHANGED <<pad, padReport, mouse, padFresh, padShown>>

CompareModifier ==
  /\ report.todo # <<>>
  /\ report.stage = IF Shift(Head(report.todo)) THEN "shift" ELSE "mods"
  /\ LET m == Head(report.todo)
         press == m \in report.mods
     IN  /\ keyboard' = [keyboard EXCEPT !.mods = IF press THEN @ \cup {m} ELSE @ \ {m}]
         /\ sink' = Key(Unpressed(sink), m, press)
  /\ report' = [report EXCEPT !.todo = Tail(@), !.stage = "mods"]
  /\ UNCHANGED <<pad, padReport, mouse, padFresh, padShown>>

ReadUi ==
  /\ report.stage = "mods" /\ report.todo = <<>>
  /\ report' = [report EXCEPT !.stage = "keys", !.seen = ui,
                  !.todo = Changed(UsbKeys, keyboard.keys, report.keys)]
  /\ sink' = Unpressed(sink)
  /\ UNCHANGED <<keyboard, pad, padReport, mouse, padFresh, padShown>>

\* Mutant: only a press is translated for the menu.
CompareKeyPress ==
  /\ report.stage = "keys" /\ report.todo # <<>>
  /\ LET k == Head(report.todo)
         press == k \in report.keys
     IN  /\ keyboard' = [keyboard EXCEPT !.keys = IF press THEN @ \cup {k} ELSE @ \ {k}]
         /\ sink' = Key(Unpressed(sink), IF press THEN Translated(k, report.seen /\ keyboard.shifts # {}) ELSE k, press)
  /\ report' = [report EXCEPT !.todo = Tail(@)]
  /\ UNCHANGED <<pad, padReport, mouse, padFresh, padShown>>

CompareKey ==
  /\ report.stage = "keys" /\ report.todo # <<>>
  /\ LET k == Head(report.todo)
         press == k \in report.keys
     IN  /\ keyboard' = [keyboard EXCEPT !.keys = IF press THEN @ \cup {k} ELSE @ \ {k}]
         /\ sink' = Key(Unpressed(sink), Translated(k, report.seen /\ keyboard.shifts # {}), press)
  /\ report' = [report EXCEPT !.todo = Tail(@)]
  /\ UNCHANGED <<pad, padReport, mouse, padFresh, padShown>>

KeysDone ==
  /\ report.stage = "keys" /\ report.todo = <<>>
  /\ report' = Idle
  /\ sink' = Unpressed(sink)
  /\ UNCHANGED <<keyboard, pad, padReport, mouse, padFresh, padShown>>

\* The hat's eight positions as joystick directions, 8 is the centre.
HatDirs(hat) ==
  <<{"up"}, {"up", "right"}, {"right"}, {"right", "down"}, {"down"},
    {"left", "down"}, {"left"}, {"left", "up"}, {}>>[hat + 1]
AxisDirs(r) == {d \in Directions : <<d, r.x>> \in {<<"left", "low">>, <<"right", "high">>}
                                   \/ <<d, r.y>> \in {<<"up", "low">>, <<"down", "high">>}}
HatKeys == [up |-> 0, down |-> 4, left |-> 6, right |-> 2]

\* handle_button_function and emu_button_function, for one button after the
\* other.
ButtonChanges(s, buttons, isUi) ==
  LET told[i \in 0 .. Len(PadButtons)] ==
        IF i = 0 THEN s
        ELSE IF (i \in buttons) = (i \in pad.joyPrev) THEN told[i - 1]
        ELSE Button(told[i - 1], PadButtons[i], i \in buttons, isUi)
  IN  told[Len(PadButtons)]

MenuHat(hat) == {d \in DOMAIN HatKeys : HatKeys[d] = hat}

\* emu_add_button_values
Assigned(buttons) == {PadButtons[i] : i \in buttons}
PotOf(pot, buttons) == IF pot \in Assigned(buttons) THEN "low" ELSE "high"

\* emu_set_joy_usb_interrupt
PadPorts == {p \in Ports : joydevs[p] = "USB_0"}
SetJoyUsb(s, dirs, potx, poty) ==
  IF PadPorts = {} THEN s
  ELSE Latched(s, CHOOSE p \in PadPorts : \A q \in PadPorts : p <= q, dirs, potx, poty)

\* GamePadStatusHandler: the raw monitor takes the report, or ui_activated is
\* read and the report compared.
PadArrives(buttons, hat, axes) ==
  /\ padReport.handled
  /\ padReport' = IF ui /\ pad.raw THEN NoPadReport
                  ELSE [buttons |-> buttons, hat |-> hat, x |-> axes[1], y |-> axes[2],
                        handled |-> FALSE, seen |-> ui]
  /\ sink' = Unpressed(sink)
  /\ UNCHANGED <<keyboard, report, pad, mouse, padFresh, padShown>>

\* Mutant: a button alone is not a change.
HandleHatOnly ==
  /\ ~padReport.handled /\ pad.pref \in {"hat", "paddles"}
  /\ padShown' = HatDirs(padReport.hat) \cup (Assigned(padReport.buttons) \cap Directions)
  /\ IF pad.dpad # padReport.hat
     THEN /\ pad' = [pad EXCEPT !.buttons = padReport.buttons, !.joyPrev = padReport.buttons, !.dpad = padReport.hat]
          /\ sink' = SetJoyUsb(Unpressed(sink), padShown', "high", "high")
          /\ padFresh' = ~padReport.seen
     ELSE /\ sink' = Unpressed(sink)
          /\ UNCHANGED <<pad, padFresh>>
  /\ padReport' = NoPadReport
  /\ UNCHANGED <<keyboard, report, mouse>>

HandleHat ==
  /\ ~padReport.handled /\ pad.pref \in {"hat", "paddles"}
  /\ padShown' = HatDirs(padReport.hat) \cup (Assigned(padReport.buttons) \cap Directions)
  /\ LET r == padReport
         paddles == pad.pref = "paddles"
         changed == \/ pad.buttons # r.buttons \/ pad.dpad # r.hat
                    \/ paddles /\ <<pad.x, pad.y>> # <<r.x, r.y>>
         kept == IF paddles THEN [pad EXCEPT !.x = r.x, !.y = r.y] ELSE pad
         told == ButtonChanges(IF r.seen THEN MenuMoves(Unpressed(sink), MenuHat(pad.dpad), MenuHat(r.hat))
                               ELSE Unpressed(sink), r.buttons, r.seen)
     IN  IF changed
         THEN /\ pad' = [kept EXCEPT !.buttons = r.buttons, !.joyPrev = r.buttons, !.dpad = r.hat]
              /\ sink' = IF r.seen THEN told
                         ELSE SetJoyUsb(told, padShown', IF paddles THEN "paddle" ELSE PotOf("potx", r.buttons),
                                        IF paddles THEN "paddle" ELSE PotOf("poty", r.buttons))
              /\ padFresh' = ~r.seen
         ELSE /\ pad' = kept
              /\ sink' = Unpressed(sink)
              /\ UNCHANGED padFresh
  /\ padReport' = NoPadReport
  /\ UNCHANGED <<keyboard, report, mouse>>

HandleAnalog ==
  /\ ~padReport.handled /\ pad.pref = "analog"
  /\ padShown' = AxisDirs(padReport) \cup (Assigned(padReport.buttons) \cap Directions)
  /\ LET r == padReport
         changed == pad.buttons # r.buttons \/ pad.dirs # AxisDirs(r)
         told == ButtonChanges(IF r.seen THEN MenuMoves(Unpressed(sink), pad.dirs, AxisDirs(r))
                               ELSE Unpressed(sink), r.buttons, r.seen)
     IN  IF changed
         THEN /\ pad' = [pad EXCEPT !.buttons = r.buttons, !.joyPrev = r.buttons, !.dirs = AxisDirs(r)]
              /\ sink' = IF r.seen THEN told
                         ELSE SetJoyUsb(told, padShown', PotOf("potx", r.buttons), PotOf("poty", r.buttons))
              /\ padFresh' = ~r.seen
         ELSE /\ sink' = Unpressed(sink)
              /\ UNCHANGED <<pad, padFresh>>
  /\ padReport' = NoPadReport
  /\ UNCHANGED <<keyboard, report, mouse>>

\* MouseStatusHandler; the movement has no state.
MouseReport(buttons) ==
  /\ buttons # mouse.prev
  /\ mouse' = [prev |-> buttons,
               emulated |-> (mouse.emulated \ (mouse.prev \ buttons)) \cup (buttons \ mouse.prev)]
  /\ sink' = Unpressed(sink)
  /\ UNCHANGED <<keyboard, report, pad, padReport, padFresh, padShown>>

\* The keys that the handlers remember as down, by every name they may have.
UsbHeld ==
  AllNames(keyboard.keys \cup keyboard.mods)
    \cup AllButtonKeys(pad.dirs \cup MenuHat(pad.dpad) \cup Assigned(pad.joyPrev))

\* What a handler has still to tell, having read ui_enabled.
UsbInFlight ==
  AllNames({report.todo[i] : i \in DOMAIN report.todo})
    \cup (IF padReport.handled THEN {}
          ELSE AllButtonKeys(Assigned(padReport.buttons) \cup MenuHat(padReport.hat) \cup AxisDirs(padReport)))
====
