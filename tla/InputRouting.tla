---- MODULE InputRouting ----
(***************************************************************************)
(* Where a key or a button goes: to the emulator's keyboard, to a joystick *)
(* port that a key set or the number pad feeds, or to the menu (kbd.c,     *)
(* joy.c, exec_button_func of kernel.cpp).  The rings between the handlers *)
(* and their readers are EventRing's, the combinations and the menu's      *)
(* countdown InputPipeline's; here an event has arrived when it is sent.   *)
(***************************************************************************)
EXTENDS Integers, Sequences, FiniteSets

CONSTANTS Keysets,     \* keyset_codes: key set -> key -> what it moves
          Binding      \* the key that a custom key button is bound to

Ports == {1, 2}
Directions == {"up", "down", "left", "right", "fire"}
Moves == Directions \cup {"potx", "poty"}

\* Each key of a set moves something, and the sets have names of their own.
ASSUME KeysetAssumption ==
  \A set \in DOMAIN Keysets :
    /\ set \notin {"NUMS_1", "NUMS_2", "CURS_SP", "CURS_LC"}
    /\ \A key \in DOMAIN Keysets[set] : Keysets[set][key] \in Moves

VARIABLES
  ui,        \* ui_enabled, which core 1 alone changes
  joydevs,   \* the device of each joystick port
  sink       \* what the readers have been told: the keys that are down in the
             \* emulator and in the menu, the joystick latches, the keys whose
             \* release reached the menu without a press, raw_keycode_func

MenuKey == [up |-> "Up", down |-> "Down", left |-> "Left", right |-> "Right", fire |-> "Return"]
NumberPad == {"NUMS_1", "NUMS_2"}

\* The keys a joystick device takes from the keyboard.
KeysOf(device) ==
  CASE device = "NUMS_1"  -> [KP8 |-> "up", KP2 |-> "down", KP4 |-> "left", KP6 |-> "right", KP5 |-> "fire"]
    [] device = "NUMS_2"  -> [KP9 |-> "up", KP3 |-> "down", KP7 |-> "left", KP1 |-> "right", KP0 |-> "fire"]
    [] device = "CURS_SP" -> [Up |-> "up", Down |-> "down", Left |-> "left", Right |-> "right", Space |-> "fire"]
    [] device = "CURS_LC" -> [Up |-> "up", Down |-> "down", Left |-> "left", Right |-> "right", LeftControl |-> "fire"]
    [] device \in DOMAIN Keysets -> Keysets[device]
    [] OTHER -> [k \in {} |-> ""]

\* emu_ui_key_interrupt and emux_key_interrupt
UiKey(s, key, press) ==
  IF press THEN [s EXCEPT !.menu = @ \cup {key}]
  ELSE [s EXCEPT !.menu = @ \ {key}, !.unpressed = @ \cup ({key} \ s.menu)]

\* The keys of the menu for the directions of a joystick that changed.
MenuMoves(s, old, new) ==
  LET keys(dirs) == {MenuKey[d] : d \in dirs}
  IN  [s EXCEPT !.menu = (@ \cup keys(new \ old)) \ keys(old \ new),
                !.unpressed = @ \cup (keys(old \ new) \ s.menu)]

EmuKey(s, key, press) == [s EXCEPT !.emu = IF press THEN @ \cup {key} ELSE @ \ {key}]

\* The joystick ring: an OR and an AND set both pots from their own operand,
\* whatever the pots were, since only the directions are combined.
Latched(s, port, dirs, potx, poty) ==
  [s EXCEPT !.joy[port] = [dirs |-> dirs, potx |-> potx, poty |-> poty]]

JoyKey(s, port, moves, press) ==
  LET dirs == s.joy[port].dirs
      pot  == IF press THEN "low" ELSE "high"
  IN  CASE moves = "potx" -> Latched(s, port, dirs, pot, "zero")
        [] moves = "poty" -> Latched(s, port, dirs, "zero", pot)
        [] moves \in Directions /\ press -> Latched(s, port, dirs \cup {moves}, "zero", "zero")
        [] OTHER -> Latched(s, port, dirs \ {moves}, "full", "full")

\* The ports that take the key before the emulator or the menu sees it.
Takers(key) == {p \in Ports : /\ key \in DOMAIN KeysOf(joydevs[p])
                              /\ ui => joydevs[p] \in NumberPad}

\* A release of F12 is not offered to the ports, though a key set may hold F12:
\* its press then leaves the direction down.
TakenBy(key, press) == IF key = "F12" /\ ~press THEN {} ELSE Takers(key)

\* Mutant: no release is offered to the ports.
KeyReleasedFirst(s, key, press) ==
  LET port == IF 1 \in Takers(key) THEN 1 ELSE 2
  IN  CASE s.capture /\ press -> s
        [] s.capture /\ ~press -> [s EXCEPT !.capture = FALSE]
        [] ~s.capture /\ press /\ Takers(key) # {} ->
             LET moves == KeysOf(joydevs[port])[key]
             IN  IF ui THEN UiKey(s, MenuKey[moves], press) ELSE JoyKey(s, port, moves, press)
        [] OTHER -> IF ui THEN UiKey(s, key, press) ELSE EmuKey(s, key, press)

\* emu_key_pressed and emu_key_released, which read ui_enabled for each port
\* and once more before they queue the key: here they read it once, and
\* InputPipeline has the last of these reads as a step of its own.
Key(s, key, press) ==
  LET port == IF 1 \in TakenBy(key, press) THEN 1 ELSE 2
      moves == KeysOf(joydevs[port])[key]
  IN  CASE s.capture /\ press -> s
        [] s.capture /\ ~press -> [s EXCEPT !.capture = FALSE]
        [] ~s.capture /\ TakenBy(key, press) # {} ->
             IF ui THEN UiKey(s, MenuKey[moves], press) ELSE JoyKey(s, port, moves, press)
        [] OTHER -> IF ui THEN UiKey(s, key, press) ELSE EmuKey(s, key, press)

\* exec_button_func; the quick functions only fill InputPipeline's slot.  The
\* caller's view of the menu may be older than the one Key takes.
Button(s, func, press, isUi) ==
  CASE func = "MENU"    -> Key(s, "F12", press)
    [] func = "CUSTOM"  -> Key(s, Binding, press)
    [] func = "BACK"    -> IF isUi THEN UiKey(s, "Escape", press) ELSE Key(s, "Escape", press)
    [] func \in Directions /\ isUi -> UiKey(s, MenuKey[func], press)
    [] OTHER -> s

\* A keyboard without keys of their own for left and up moves the menu with
\* the shifted ones.
Translated(key, shifted) ==
  CASE shifted /\ key = "Right" -> "Left"
    [] shifted /\ key = "Down"  -> "Up"
    [] OTHER -> key

\* The names that a key may have where it is told: its own and its translation,
\* the directions that a port makes of them, and the menu's keys for those.
MoveKeys(m) == IF m \in Directions THEN {m, MenuKey[m]} ELSE {}
MovesOf(names, port) ==
  LET keys == KeysOf(joydevs[port]) IN {keys[n] : n \in names \cap DOMAIN keys}
Taken(names) == UNION {MoveKeys(m) : m \in UNION {MovesOf(names, p) : p \in Ports}}
KeyNames(key) == {key, Translated(key, TRUE)} \cup Taken({key, Translated(key, TRUE)})
AllNames(keys) == UNION {KeyNames(k) : k \in keys}

\* Those of a button or a bound pin.
ButtonKeys(func) ==
  CASE func = "MENU"   -> {"F12"}
    [] func = "CUSTOM" -> {Binding} \cup Taken({Binding})
    [] func = "BACK"   -> {"Escape"}
    [] OTHER -> MoveKeys(func)
AllButtonKeys(funcs) == UNION {ButtonKeys(f) : f \in funcs}
====
