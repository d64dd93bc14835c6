---- MODULE Reports ----
(***************************************************************************)
(* All that the user can touch against the menu: a USB keyboard, a gamepad *)
(* with a mouse, or the switches on the GPIO pins, one of them in each     *)
(* behaviour, while core 1 opens and closes the menu and the menu changes  *)
(* assignments.  What is pressed is told to whoever is listening when the  *)
(* change is seen, so the question is who is left with half of it.         *)
(***************************************************************************)
EXTENDS UsbReports, GpioScan

CONSTANTS Hardware,    \* which devices there may be
          JoyChoices,  \* the assignments of the joystick ports
          MaxChanges   \* bound, for each device: openings, closings and changes of
                         \* assignment

VARIABLES plugged,     \* the device of this behaviour
          changes,
          excused,     \* history: keys by name that were down, or being told,
                       \* when the menu or the assignment changed; the cursor
                       \* keys when a shift key changed in the menu; the last
                       \* key of a capture, and an F12 that a key set holds
          doubled,     \* history: keys that the menu lost while something else
                       \* held them for it
          unexplained  \* history: releases told to the menu for no press

vars == <<ui, joydevs, sink, usbVars, gpioVars, plugged, changes, excused, doubled, unexplained>>

Held == IF plugged = "gpio" THEN GpioHeld ELSE UsbHeld \cup UsbInFlight
Heard == sink.emu \cup sink.menu
Latches == \E p \in Ports : sink.joy[p].dirs # {}

\* Keys stay excused until they are up and nobody believes otherwise.
Account(new) ==
  /\ UNCHANGED plugged
  /\ excused' = {k \in excused \cup new : k \in Held' \/ k \in Heard' \/ Latches'}
  /\ doubled' = {k \in doubled \cup (sink.menu \ sink'.menu) : k \in Held'}
  /\ unexplained' = sink'.unpressed \ (excused \cup new \cup doubled \cup sink.menu)

Cursor == {"Right", "Left", "Down", "Up"}
ShiftMoved(old, new) == IF old = new THEN {} ELSE Cursor

\* Whoever has the key is not told the next change of the report: a key set is
\* being defined by it, or it is the release of an F12 that a key set holds.
Untold(r) ==
  /\ r.todo # <<>>
  /\ \/ sink.capture
     \/ Head(r.todo) = "F12" /\ "F12" \notin r.keys /\ Takers("F12") # {}

Quiet == UNCHANGED <<ui, joydevs, changes>>

KeyboardStep ==
  /\ plugged = "keyboard"
  /\ \/ \E m \in SUBSET {Modifiers[i] : i \in DOMAIN Modifiers}, k \in SUBSET {UsbKeys[i] : i \in DOMAIN UsbKeys} : KeyReport(m, k)
     \/ FlagShift \/ CompareModifier \/ ReadUi \/ CompareKey \/ KeysDone
  /\ Quiet
  /\ UNCHANGED gpioVars
  /\ Account(ShiftMoved(keyboard.shifts, keyboard'.shifts)
               \cup IF Untold(report) THEN KeyNames(Head(report.todo)) ELSE {})

PadStep ==
  /\ plugged = "pad"
  /\ \/ \E b \in SUBSET DOMAIN PadButtons, m \in PadMoves : PadArrives(b, m[1], m[2])
     \/ HandleHat \/ HandleAnalog
  /\ Quiet
  /\ UNCHANGED gpioVars
  /\ Account({})

MouseStep ==
  /\ plugged = "mouse"
  /\ \E b \in SUBSET {"left", "right"} : MouseReport(b)
  /\ Quiet
  /\ UNCHANGED gpioVars
  /\ Account({})

GpioStep ==
  /\ plugged = "gpio"
  /\ Check \/ Switch
  /\ Quiet
  /\ UNCHANGED usbVars
  /\ Account(ShiftMoved(scan.shifts, scan'.shifts))

\* ui_toggle
Toggle ==
  /\ changes < MaxChanges[plugged]
  /\ changes' = changes + 1
  /\ ui' = ~ui
  /\ sink' = Unpressed(sink)
  /\ UNCHANGED <<joydevs, usbVars, gpioVars>>
  /\ Account(Held)

\* What the menu sets: the port assignments (which a quick function swaps too),
\* the raw monitors of keys and pads, the pad's preference, the pins.  With
\* switches the ports keep their first assignment: a bound.
Assign(choice) ==
  /\ plugged # "gpio"
  /\ joydevs' = choice
  /\ choice # joydevs
  /\ sink' = Unpressed(sink)
  /\ padFresh' = FALSE
  /\ UNCHANGED <<keyboard, report, pad, padReport, mouse, padShown, gpioVars>>

Capture ==
  /\ ui /\ plugged = "keyboard"
  /\ sink' = [Unpressed(sink) EXCEPT !.capture = TRUE]
  /\ UNCHANGED <<joydevs, usbVars, gpioVars>>

PadMenu ==
  /\ ui /\ plugged = "pad"
  /\ \E p \in {"hat", "paddles", "analog"}, r \in BOOLEAN : pad' = [pad EXCEPT !.pref = p, !.raw = r]
  /\ sink' = Unpressed(sink)
  /\ padFresh' = FALSE
  /\ UNCHANGED <<joydevs, keyboard, report, padReport, mouse, padShown, gpioVars>>

PinMenu ==
  /\ plugged = "gpio"
  /\ LoadSettings \/ ChooseConfig
  /\ UNCHANGED <<joydevs, usbVars>>

MenuChange ==
  /\ changes < MaxChanges[plugged]
  /\ changes' = changes + 1
  /\ Assign(<<joydevs[2], joydevs[1]>>) \/ (ui /\ \E choice \in JoyChoices : Assign(choice)) \/ Capture \/ PadMenu \/ PinMenu
  /\ UNCHANGED ui
  /\ plugged' = plugged
  /\ Account(Held \cup Held')

Init ==
  /\ ui = FALSE
  /\ plugged \in Hardware
  /\ joydevs \in JoyChoices
  /\ sink = [emu |-> {}, menu |-> {}, unpressed |-> {}, capture |-> FALSE, userport |-> {},
             joy |-> [p \in Ports |-> [dirs |-> {}, potx |-> "high", poty |-> "high"]]]
  /\ UsbInit
  /\ plugged # "pad" => pad.pref = "hat"
  /\ GpioInit
  /\ IF plugged = "gpio" THEN setup.board # {} ELSE setup.board = {} /\ gpio_config = "disabled"
  /\ changes = 0
  /\ excused = {}
  /\ doubled = {}
  /\ unexplained = {}

Next == KeyboardStep \/ PadStep \/ MouseStep \/ GpioStep \/ Toggle \/ MenuChange

Spec == Init /\ [][Next]_vars

(***************************************************************************)
(* Properties                                                              *)
(***************************************************************************)
\* The emulated keyboard has down what the handlers remember as down, and what
\* they remember while the menu is closed has reached it or a joystick; a key
\* or a joystick direction is left down only when it was held, or was being
\* told, across a change of the menu or of the assignment, when a change of it
\* defined a key set, or when it is the direction that a key set gives to F12,
\* whose release no port is told (kbd.c:443-456, menu_keyset.c:60-64).
Typed == IF plugged = "gpio" THEN {MatrixKeys[k] : k \in scan.matrix} ELSE keyboard.keys \cup keyboard.mods
EmulatorSeesKeys ==
  /\ sink.emu \ excused \subseteq Held
  /\ ~ui => \A k \in Typed \ excused : Takers(k) = {} => k \in sink.emu
  /\ plugged = "keyboard" => \A p \in Ports : sink.joy[p].dirs \ excused \subseteq Held

\* The same for the menu, which acts on the release of Return and Escape: what
\* it has down is held, and it is told no release without a press, unless the
\* key was held when the menu or the assignment changed or when the shift keys
\* gave the cursor keys other names, or it was the second of two that the menu
\* knows by one name, of which it lost both with the first.
MenuSeesKeys ==
  /\ sink.menu \ excused \subseteq Held
  /\ unexplained = {}

\* The first joystick port with the gamepad, which alone is told, shows what
\* the last report showed, unless the last change of the pad was told to the
\* menu, or the assignment changed.
JoyFollowsPad ==
  plugged = "pad" /\ padFresh =>
    \A p \in PadPorts : (\A q \in PadPorts : p <= q) => sink.joy[p].dirs = padShown

\* No pin is left driven except those of the user port, where outputs are
\* allowed and there is no DPI display, until another configuration is chosen;
\* and a display on the pins turns every scan off.
PinsAreSafe ==
  /\ \A p \in Pins : pins[p] = "output" =>
       /\ setup.outputs /\ ~setup.dpi
       /\ \E i \in 1..8 : UserportPins[i] = p
       /\ gpio_config \in {"userport", "disabled"}
  /\ setup.dpi => gpio_config = "disabled"
====
