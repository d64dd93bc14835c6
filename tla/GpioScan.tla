---- MODULE GpioScan ----
(***************************************************************************)
(* circle_check_gpio of kernel.cpp, which core 1 calls once a frame and    *)
(* once a round of the menu: the pins are read according to the            *)
(* configuration, some of them after another has been driven low.  Pins    *)
(* are named by their index in gpioPins (viceapp.cpp).                     *)
(***************************************************************************)
EXTENDS InputRouting

CONSTANTS Setups,      \* what may be wired to the pins and what the options say of
                       \* them: the board's switches, each the pair <<a pin that is
                       \* driven low or Ground, pin>> it connects, DPIEnabled and
                       \* GPIOOutputsEnabled
          MatrixKeys,  \* kbdMatrixKeyCodes: <<PA, PB>> -> key, of the keys that exist here
          Bindings,    \* gpio_bindings: pin -> <<bank, function>>, of the pins that are bound
          Ddrs         \* the data directions the program gives the user port

\* Each key of the matrix is another one, and the restore key is not in it.
ASSUME MatrixAssumption ==
  /\ \A j, k \in DOMAIN MatrixKeys : MatrixKeys[j] = MatrixKeys[k] => j = k
  /\ \A k \in DOMAIN MatrixKeys : MatrixKeys[k] # "PageUp"
ASSUME BindingsAssumption == DOMAIN Bindings \subseteq 0 .. 22

VARIABLES
  setup,     \* the setup of this machine
  closed,    \* the switches that are closed
  pins,      \* the mode of each pin
  gpio_config, \* the configuration that the menu has
  scan       \* what the scans remember: debounce states, the matrix, restore,
             \* js_prev, gpio_prev_state, the shift flags

gpioVars == <<setup, closed, pins, gpio_config, scan>>

Pins == 0..22
Ground == -1
Configs == {"disabled", "nav", "keyboard", "waveshare", "userport", "custom"}

\* The pins of each configuration.
JoyPins(config, device) ==
  CASE config = "keyboard" /\ device = 0  -> [up |-> 12, down |-> 13, left |-> 14, right |-> 11, fire |-> 15]
    [] config = "keyboard" /\ device = 1  -> [up |-> 1, down |-> 2, left |-> 3, right |-> 4, fire |-> 7]
    [] config = "waveshare"               -> [up |-> 0, down |-> 5, left |-> 4, right |-> 2, fire |-> 6, potx |-> 7, poty |-> 1]
    [] config \in {"nav", "userport"} /\ device = 0 -> [up |-> 14, down |-> 11, left |-> 13, right |-> 15, fire |-> 12]
    [] OTHER                              -> [up |-> 0, down |-> 5, left |-> 6, right |-> 4, fire |-> 2]
Selector == <<17, 18>>
NavButtons == <<<<3, "F12">>, <<16, "Escape">>, <<9, "Up">>, <<8, "Down">>, <<1, "Left">>,
                <<18, "Right">>, <<10, "Return">>, <<7, "quick">>>>
WaveshareButtons == <<<<18, "F12">>, <<11, "Escape">>, <<12, "quick">>, <<3, "quick">>, <<16, "quick">>>>
UserportPins == <<16, 10, 9, 8, 3, 7, 1, 18>>
RestorePin == 16

circle_gpio_enabled == ~setup.dpi
circle_gpio_outputs_enabled == ~setup.dpi /\ setup.outputs

\* A pin with a pull-up reads low when a switch connects it to ground or to a
\* pin that is driven low.
Low(pin, contacts, driven) == \E c \in contacts : c[2] = pin /\ (c[1] = Ground \/ c[1] \in driven)

\* ReadDebounced: the pin is read twice, and switches may move in between.
Debounced(state, first, second) ==
  LET settled == CASE state = "press" -> "down" [] state = "release" -> "up" [] OTHER -> state
  IN  CASE first /\ second /\ settled = "up"       -> "press"
        [] ~first /\ ~second /\ settled = "down"   -> "release"
        [] OTHER -> settled

\* The part of a scan's result: a record with the sink, what scans remember,
\* and the contacts at the first and at the second reading.
Read(r, pin, later) == Low(pin, IF later THEN r.later ELSE r.contacts, {})

Debounce(r, pin) ==
  [r EXCEPT !.scan.debounce[pin] = Debounced(@, Read(r, pin, FALSE), Read(r, pin, TRUE))]

\* A press and a release at once, on the scan that finds the button down.
Click(r, button) ==
  LET d == Debounce(r, button[1])
  IN  IF d.scan.debounce[button[1]] = "press" /\ button[2] # "quick"
      THEN [d EXCEPT !.sink = Key(Key(d.sink, button[2], TRUE), button[2], FALSE)]
      ELSE d

Clicks(r, buttons) ==
  LET read[i \in 0 .. Len(buttons)] == IF i = 0 THEN r ELSE Click(read[i - 1], buttons[i])
  IN  read[Len(buttons)]

PotLow(low, pot) == IF pot \in low THEN "low" ELSE "high"
JoyAbsolute(s, port, low) == Latched(s, port, low \cap Directions, PotLow(low, "potx"), PotLow(low, "poty"))

\* ReadJoystick
ReadJoystick(r, device, config) ==
  LET name == IF device = 0 THEN "GPIO_0" ELSE "GPIO_1"
      assigned == {p \in Ports : joydevs[p] = name}
      table == JoyPins(config, device)
      driven == IF config = "keyboard" THEN {Selector[device + 1]} ELSE {}
      low == {d \in DOMAIN table : Low(table[d], r.contacts, driven)}
  IN  CASE ui -> [r EXCEPT !.sink = MenuMoves(@, r.scan.joyPrev[device], low \cap Directions),
                           !.scan.joyPrev[device] = low \cap Directions]
        [] ~ui /\ assigned # {} ->
             [r EXCEPT !.sink = JoyAbsolute(@, CHOOSE p \in assigned : \A q \in assigned : p <= q, low)]
        [] OTHER -> r

\* ScanKeyboard: one key of the matrix, while its row is driven.
ScanKey(r, pa, pb) ==
  LET low == Low(pb + 8, r.contacts, {pa})
      was == <<pa, pb>> \in r.scan.matrix
      key == MatrixKeys[<<pa, pb>>]
      flip(S, x) == IF low THEN S \cup {x} ELSE S \ {x}
      shifts == IF ui /\ key \in {"LeftShift", "RightShift"} THEN flip(r.scan.shifts, key) ELSE r.scan.shifts
  IN  IF low = was THEN r
      ELSE [r EXCEPT !.sink = Key(@, Translated(key, ui /\ shifts # {}), low),
                     !.scan.shifts = shifts,
                     !.scan.matrix = flip(@, <<pa, pb>>)]

ScanRestore(r) ==
  LET low == Read(r, RestorePin, FALSE)
  IN  [r EXCEPT !.sink = IF low # r.scan.restore THEN Key(@, "PageUp", low) ELSE @,
                !.scan.restore = low]

ScanKeyboard(r) ==
  LET read[i \in 0 .. 64] ==
        LET pa == (i - 1) \div 8
            pb == (i - 1) % 8
        IN  IF i = 0 THEN ScanRestore(r)
            ELSE IF <<pa, pb>> \in DOMAIN MatrixKeys THEN ScanKey(read[i - 1], pa, pb)
            ELSE read[i - 1]
  IN  read[64]

\* ReadCustomGPIO
CustomPin(r, pin) ==
  LET bank == Bindings[pin][1]
      func == Bindings[pin][2]
      low == Read(r, pin, FALSE)
      was == pin \in r.scan.pinPrev
      d == Debounce(r, pin)
      state == d.scan.debounce[pin]
      key == IF func \in Directions THEN MenuKey[func] ELSE "none"
  IN  CASE bank = 0 /\ state \in {"press", "release"} ->
             [d EXCEPT !.sink = Button(@, func, state = "press", ui)]
        [] bank = 0 /\ state \notin {"press", "release"} -> d
        [] bank > 0 /\ ui ->
             [r EXCEPT !.sink = IF low # was THEN UiKey(@, key, low) ELSE @,
                       !.scan.pinPrev = IF low THEN @ \cup {pin} ELSE @ \ {pin}]
        [] OTHER -> r

BankPort(bank) == {p \in Ports : /\ joydevs[p] = IF bank = 1 THEN "GPIO_0" ELSE "GPIO_1"
                                 /\ \A q \in Ports : joydevs[q] = joydevs[p] => p <= q}
CustomJoy(r, port) ==
  LET bound == {pin \in DOMAIN Bindings : Bindings[pin][1] > 0 /\ port \in BankPort(Bindings[pin][1])}
  IN  IF ui \/ bound = {} THEN r
      ELSE [r EXCEPT !.sink = JoyAbsolute(@, port, {Bindings[pin][2] : pin \in {q \in bound : Read(r, q, FALSE)}})]

CustomPins(r) ==
  LET read[i \in 0 .. 23] ==
        IF i = 0 THEN r
        ELSE IF i - 1 \in DOMAIN Bindings THEN CustomPin(read[i - 1], i - 1)
        ELSE read[i - 1]
  IN  read[23]
ReadCustomGPIO(r) == CustomJoy(CustomJoy(CustomPins(r), 1), 2)

\* Mutant: whether outputs are allowed is not asked.
SetupUserportAlways(modes, ddr) ==
  [p \in Pins |-> IF \E i \in 1..8 : UserportPins[i] = p
                  THEN IF \E i \in ddr : UserportPins[i] = p THEN "output" ELSE "input"
                  ELSE modes[p]]

\* SetupUserport: an output bit of the data direction drives its pin.
SetupUserport(modes, ddr) ==
  IF ~circle_gpio_outputs_enabled THEN modes
  ELSE [p \in Pins |-> IF \E i \in 1..8 : UserportPins[i] = p
                       THEN IF \E i \in ddr : UserportPins[i] = p THEN "output" ELSE "input"
                       ELSE modes[p]]

\* ReadWriteUserport: what the emulated port reads, as the set of high bits.
UserportRead(ddr, data) == {i \in 1..8 : IF i \in ddr THEN i \in data ELSE ~Low(UserportPins[i], closed, {})}

\* circle_check_gpio
Start(later) == [sink |-> [sink EXCEPT !.unpressed = {}], scan |-> scan, contacts |-> closed, later |-> later]
Joysticks(r) == ReadJoystick(ReadJoystick(r, 0, gpio_config), 1, gpio_config)

Scanned(r) ==
  CASE gpio_config = "nav"       -> Joysticks(Clicks(r, NavButtons))
    [] gpio_config = "keyboard"  -> Joysticks(ScanKeyboard(r))
    [] gpio_config = "waveshare" -> ReadJoystick(Clicks(r, WaveshareButtons), 0, "waveshare")
    [] gpio_config = "userport"  -> Joysticks(r)
    [] gpio_config = "custom"    -> ReadCustomGPIO(r)
    [] OTHER -> r

\* Rows and selectors are inputs again when the scan has read them.
Restored(modes) == [p \in Pins |-> IF p \in 0..7 \cup {17, 18} THEN "input" ELSE modes[p]]

OneSwitch(these) == {(closed \ {c}) \cup ({c} \ closed) : c \in {d \in setup.board : d[2] \in these}}

\* The pins that are read twice.
Buttons ==
  CASE gpio_config = "nav"       -> {NavButtons[i][1] : i \in DOMAIN NavButtons}
    [] gpio_config = "waveshare" -> {WaveshareButtons[i][1] : i \in DOMAIN WaveshareButtons}
    [] gpio_config = "custom"    -> {p \in DOMAIN Bindings : Bindings[p][1] = 0}
    [] OTHER -> {}

Check ==
  \E later \in {closed} \cup OneSwitch(Buttons) :
    LET r == Scanned(Start(later))
    IN  /\ scan' = r.scan
        /\ closed' = later /\ UNCHANGED <<setup, gpio_config>>
        /\ \/ /\ gpio_config \notin {"disabled", "userport"}
              /\ sink' = r.sink
              /\ pins' = IF gpio_config = "keyboard" THEN Restored(pins) ELSE pins
           \/ /\ gpio_config = "userport"
              /\ \E ddr \in Ddrs : \E data \in SUBSET ddr :
                   /\ pins' = SetupUserport(pins, ddr)
                   /\ sink' = IF circle_gpio_outputs_enabled
                              THEN [r.sink EXCEPT !.userport = UserportRead(ddr, data)] ELSE r.sink

\* circle_reset_gpio
ResetGpio(modes, config, ddr) ==
  CASE config \in {"nav", "keyboard", "waveshare", "custom"} -> [p \in Pins |-> "input"]
    [] config = "userport" ->
         SetupUserport([p \in Pins |-> IF \E d \in {0, 1}, j \in Directions : JoyPins("userport", d)[j] = p
                                       THEN "input" ELSE modes[p]], ddr)
    [] OTHER -> modes

\* Loading the settings, where the options can force it off, and the menu's
\* choice, which they can disable.
Loaded(value) == IF circle_gpio_enabled THEN value ELSE "disabled"
Offered == IF circle_gpio_enabled THEN Configs ELSE {"disabled"}

Configure(config) ==
  /\ gpio_config' = config
  /\ \E ddr \in Ddrs : pins' = ResetGpio(pins, config, ddr)
  /\ sink' = [sink EXCEPT !.unpressed = {}]
  /\ UNCHANGED <<setup, closed, scan>>

LoadSettings == ui /\ \E value \in Configs : Configure(Loaded(value))
ChooseConfig == ui /\ \E value \in Offered : Configure(value)

Switch == /\ closed' \in OneSwitch(Pins)
          /\ sink' = [sink EXCEPT !.unpressed = {}]
          /\ UNCHANGED <<setup, pins, gpio_config, scan>>

GpioInit ==
  /\ setup \in Setups
  /\ closed = {}
  /\ gpio_config \in {Loaded(value) : value \in Configs}
  /\ \E ddr \in Ddrs : pins = ResetGpio([p \in Pins |-> "input"], gpio_config, ddr)
  /\ scan = [debounce |-> [p \in Pins |-> "up"], matrix |-> {}, restore |-> FALSE,
             joyPrev |-> [d \in {0, 1} |-> {}], pinPrev |-> {}, shifts |-> {}]

\* The keys of a bound pin, by every name they may have.
PinKeys(pin) ==
  IF Bindings[pin][1] = 0 \/ Bindings[pin][2] \in Directions THEN ButtonKeys(Bindings[pin][2]) ELSE {"none"}

\* What the scans remember as down, by every name it may have.
GpioHeld ==
  LET keys == {MatrixKeys[k] : k \in scan.matrix} \cup (IF scan.restore THEN {"PageUp"} ELSE {})
      bound == {p \in DOMAIN Bindings : p \in scan.pinPrev \/ scan.debounce[p] \in {"press", "down"}}
  IN  AllNames(keys) \cup AllButtonKeys(scan.joyPrev[0] \cup scan.joyPrev[1])
        \cup UNION {PinKeys(p) : p \in bound}
====
