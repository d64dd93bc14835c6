---- MODULE DeviceProofs ----
(***************************************************************************)
(* Proofs about the devices: of Reports, that no pin is driven that must   *)
(* not be, that a joystick port follows its gamepad, and that the emulator *)
(* and the menu have the keys and directions down that somebody holds,     *)
(* whatever the menu and the assignments do meanwhile; of SoundDevice,     *)
(* that the positions that Cancel and the VCHIQ callback compare from      *)
(* different cores tell the truth, whatever messages fail and however      *)
(* often VICE reopens its sound.                                           *)
(***************************************************************************)
EXTENDS Reports, SoundDevice, WellFoundedInduction, TLAPS

(***************************************************************************)
(* The pins                                                                *)
(***************************************************************************)
IsUserport(p) == \E i \in 1 .. 8 : UserportPins[i] = p
PinsInvariant ==
  /\ pins \in [Pins -> {"input", "output"}]
  /\ gpio_config \in Configs
  /\ PinsAreSafe

\* Which modes are safe in a configuration.
SafeModes(modes, config) ==
  /\ modes \in [Pins -> {"input", "output"}]
  /\ \A p \in Pins : modes[p] = "output" =>
       setup.outputs /\ ~setup.dpi /\ IsUserport(p) /\ config \in {"userport", "disabled"}

\* The data direction drives pins of the user port only, and only where that
\* is allowed.
LEMMA UserportSafe ==
  ASSUME NEW modes, SafeModes(modes, "userport"), NEW ddr
  PROVE  SafeModes(SetupUserport(modes, ddr), "userport")
<1>1. CASE ~circle_gpio_outputs_enabled
  BY <1>1 DEF SetupUserport
<1>2. CASE circle_gpio_outputs_enabled
  BY <1>2 DEF SetupUserport, SafeModes, IsUserport, circle_gpio_outputs_enabled
<1>3. QED
  BY <1>1, <1>2

\* circle_reset_gpio leaves no pin driven, the user port's own apart.
LEMMA ResetSafe ==
  ASSUME NEW old, NEW modes, SafeModes(modes, old), NEW config \in Configs, NEW ddr
  PROVE  SafeModes(ResetGpio(modes, config, ddr), config)
<1>1. CASE config \in {"nav", "keyboard", "waveshare", "custom"}
  BY <1>1 DEF ResetGpio, SafeModes
<1>2. CASE config = "userport"
  <2> DEFINE base == [p \in Pins |-> IF \E d \in {0, 1}, j \in Directions : JoyPins("userport", d)[j] = p
                                     THEN "input" ELSE modes[p]]
  <2>1. SafeModes(base, "userport")
    <3> HIDE DEF base
    <3>1. \A p \in Pins : base[p] \in {"input", modes[p]}
      BY DEF base
    <3>2. base = [p \in Pins |-> base[p]]
      BY DEF base
    <3>3. QED
      BY <3>1, <3>2 DEF SafeModes
  <2>2. ResetGpio(modes, config, ddr) = SetupUserport(base, ddr)
    BY <1>2 DEF ResetGpio
  <2> HIDE DEF base
  <2>3. QED
    BY <1>2, <2>1, <2>2, UserportSafe
<1>3. CASE config = "disabled"
  BY <1>3 DEF ResetGpio, SafeModes
<1>4. QED
  BY <1>1, <1>2, <1>3 DEF Configs

\* The two forms of the same.
LEMMA PinsOf ==
  PinsInvariant <=> /\ SafeModes(pins, gpio_config)
                    /\ gpio_config \in Configs
                    /\ setup.dpi => gpio_config = "disabled"
  BY DEF PinsInvariant, PinsAreSafe, SafeModes, IsUserport

\* What a step that resets or sets the pins has to show.
LEMMA PinsNext ==
  ASSUME UNCHANGED setup, SafeModes(pins', gpio_config'), gpio_config' \in Configs,
         setup.dpi => gpio_config' = "disabled"
  PROVE  PinsInvariant'
  BY DEF PinsInvariant, PinsAreSafe, SafeModes, IsUserport

\* At the start the configuration is loaded once.
LEMMA PinsStart == Init => PinsInvariant
<1> SUFFICES ASSUME Init PROVE PinsInvariant
  OBVIOUS
<1>1. gpio_config \in Configs /\ (setup.dpi => gpio_config = "disabled")
  BY DEF Init, GpioInit, Loaded, circle_gpio_enabled, Configs
<1>2. PICK ddr \in Ddrs : pins = ResetGpio([p \in Pins |-> "input"], gpio_config, ddr)
  BY DEF Init, GpioInit
<1>3. SafeModes([p \in Pins |-> "input"], "disabled")
  BY DEF SafeModes
<1>4. SafeModes(pins, gpio_config)
  BY <1>1, <1>2, <1>3, ResetSafe
<1>5. QED
  BY <1>1, <1>4, PinsOf

\* A scan, and a new configuration.
LEMMA CheckSafe ==
  ASSUME PinsInvariant, Check
  PROVE  PinsInvariant'
<1>1. UNCHANGED <<setup, gpio_config>>
  BY DEF Check
<1>2. SafeModes(pins, gpio_config) /\ gpio_config \in Configs /\ (setup.dpi => gpio_config = "disabled")
  BY PinsOf
<1>3. \/ gpio_config # "keyboard" /\ pins' = pins
      \/ gpio_config = "keyboard" /\ pins' = Restored(pins)
      \/ gpio_config = "userport" /\ \E ddr \in Ddrs : pins' = SetupUserport(pins, ddr)
  BY Zenon DEF Check
<1>4. SafeModes(pins', gpio_config)
  <2>1. CASE gpio_config = "keyboard" /\ pins' = Restored(pins)
    BY <1>2, <2>1 DEF SafeModes, Restored
  <2>2. ASSUME gpio_config = "userport", NEW ddr \in Ddrs, pins' = SetupUserport(pins, ddr)
        PROVE  SafeModes(pins', gpio_config)
    BY <1>2, <2>2, UserportSafe
  <2>3. QED
    BY <1>2, <1>3, <2>1, <2>2
<1>5. QED
  BY <1>1, <1>2, <1>4, PinsNext

\* A configuration resets the pins before anything drives them.
LEMMA ConfigureSafe ==
  ASSUME PinsInvariant, LoadSettings \/ ChooseConfig
  PROVE  PinsInvariant'
<1>1. PICK config \in Configs : Configure(config) /\ (setup.dpi => config = "disabled")
  BY DEF LoadSettings, ChooseConfig, Loaded, Offered, circle_gpio_enabled, Configs
<1>2. UNCHANGED setup /\ gpio_config' = config /\ \E ddr \in Ddrs : pins' = ResetGpio(pins, config, ddr)
  BY <1>1 DEF Configure
<1>3. SafeModes(pins, gpio_config)
  BY PinsOf
<1>4. SafeModes(pins', config)
  BY <1>2, <1>3, ResetSafe
<1>5. QED
  BY <1>1, <1>2, <1>4, PinsNext

\* Every other step leaves the pins alone.
LEMMA PinsKept == PinsInvariant /\ [Next]_vars => PinsInvariant'
<1> SUFFICES ASSUME PinsInvariant, [Next]_vars PROVE PinsInvariant'
  OBVIOUS
<1>1. CASE UNCHANGED <<setup, pins, gpio_config>>
  BY <1>1 DEF PinsInvariant, PinsAreSafe, IsUserport
<1>2. CASE Check
  BY <1>2, CheckSafe
<1>3. CASE LoadSettings \/ ChooseConfig
  BY <1>3, ConfigureSafe
<1>4. CASE KeyboardStep
  BY <1>1, <1>4 DEF KeyboardStep, gpioVars
<1>5. CASE PadStep
  BY <1>1, <1>5 DEF PadStep, gpioVars
<1>6. CASE MouseStep
  BY <1>1, <1>6 DEF MouseStep, gpioVars
<1>7. CASE GpioStep
  BY <1>1, <1>2, <1>7 DEF GpioStep, Switch
<1>8. CASE Toggle
  BY <1>1, <1>8 DEF Toggle, gpioVars
<1>9. CASE MenuChange
  <2>1. UNCHANGED gpioVars \/ LoadSettings \/ ChooseConfig
    <3>1. (\E choice : Assign(choice)) \/ Capture \/ PadMenu \/ PinMenu
      BY <1>9, Zenon DEF MenuChange
    <3>2. ASSUME NEW choice, Assign(choice) PROVE UNCHANGED gpioVars
      BY <3>2, Zenon DEF Assign
    <3>3. CASE Capture
      BY <3>3, Zenon DEF Capture
    <3>4. CASE PadMenu
      BY <3>4, Zenon DEF PadMenu
    <3>5. CASE PinMenu
      BY <3>5, Zenon DEF PinMenu
    <3>6. QED
      BY <3>1, <3>2, <3>3, <3>4, <3>5
  <2>2. QED
    BY <1>1, <1>3, <2>1 DEF gpioVars
<1>10. CASE UNCHANGED vars
  BY <1>1, <1>10 DEF vars, gpioVars
<1>11. QED
  BY <1>4, <1>5, <1>6, <1>7, <1>8, <1>9, <1>10 DEF Next

\* Whatever configurations follow each other, on whatever board and with whatever
\* data directions, no pin is driven that must not be (circle_reset_gpio,
\* circle_check_gpio, SetupUserport).
THEOREM PinsAlwaysSafe == Spec => []PinsAreSafe
<1>1. PinsInvariant => PinsAreSafe
  BY DEF PinsInvariant
<1>2. QED
  BY <1>1, PinsStart, PinsKept, PTL DEF Spec

(***************************************************************************)
(* Loops                                                                   *)
(***************************************************************************)
\* Of the numbers with a property some is the least.
LEMMA Least ==
  ASSUME NEW T \in SUBSET Nat, T # {}
  PROVE  \E n \in T : \A k \in T : n <= k
<1>1. IsWellFoundedOn(OpToRel(<, Nat), Nat)
  BY NatLessThanWellFounded
<1>2. PICK n \in T : \A y \in T : ~(<<y, n>> \in OpToRel(<, Nat))
  BY <1>1, WFMin, Zenon
<1>3. \A k \in T : ~(k < n)
  BY <1>2 DEF OpToRel
<1>4. QED
  BY <1>3

\* The loops of the handlers, each told by the record c.
Turn(c, t, i) ==
  CASE c.loop = "buttons" -> IF (i \in c.buttons) = (i \in pad.joyPrev) THEN t
                             ELSE Button(t, PadButtons[i], i \in c.buttons, c.isUi)
    [] c.loop = "changed" -> IF (c.keys[i] \in c.new) = (c.keys[i] \in c.old) THEN t ELSE Append(t, c.keys[i])
    [] c.loop = "clicks"  -> Click(t, c.buttons[i])
    [] c.loop = "matrix"  -> IF <<(i - 1) \div 8, (i - 1) % 8>> \in DOMAIN MatrixKeys
                             THEN ScanKey(t, (i - 1) \div 8, (i - 1) % 8) ELSE t
    [] c.loop = "pins"    -> IF i - 1 \in DOMAIN Bindings THEN CustomPin(t, i - 1) ELSE t

\* A loop has a result after each of its turns.
Loops(f, c, n, s) == f = [i \in 0 .. n |-> IF i = 0 THEN s ELSE Turn(c, f[i - 1], i)]

\* A loop has a course of any length: there is no least length without one.
LEMMA Looped ==
  ASSUME NEW n \in Nat, NEW c, NEW s
  PROVE  \E f : Loops(f, c, n, s)
<1> DEFINE T == {k \in Nat : ~\E f : Loops(f, c, k, s)}
<1>1. T = {}
  <2> SUFFICES ASSUME T # {} PROVE FALSE
    OBVIOUS
  <2>1. PICK k \in T : \A j \in T : k <= j
    BY Least
  <2>2. CASE k = 0
    <3>1. Loops([i \in 0 .. 0 |-> s], c, 0, s)
      BY DEF Loops
    <3>2. QED
      BY <2>2, <3>1
  <2>3. CASE k # 0
    <3>1. PICK f : Loops(f, c, k - 1, s)
      BY <2>1, <2>3
    <3> DEFINE h == [i \in 0 .. k |-> IF i = 0 THEN s ELSE Turn(c, f[i - 1], i)]
    <3>2. \A i \in 0 .. k - 1 : h[i] = f[i]
      BY <2>3, <3>1 DEF Loops
    <3> HIDE DEF h
    <3>3. h = [i \in 0 .. k |-> IF i = 0 THEN s ELSE Turn(c, h[i - 1], i)]
      <4>1. \A i \in 0 .. k : i # 0 => i - 1 \in 0 .. k - 1
        BY <2>3
      <4>2. \A i \in 0 .. k : i # 0 => h[i - 1] = f[i - 1]
        BY <3>2, <4>1
      <4>3. QED
        BY <4>2 DEF h
    <3>4. Loops(h, c, k, s)
      BY <3>3 DEF Loops
    <3>5. QED
      BY <2>1, <3>4
  <2>4. QED
    BY <2>2, <2>3
<1>2. QED
  BY <1>1

\* What holds before the first turn, and after each turn when it held before.
LEMMA Induct ==
  ASSUME NEW n \in Nat, NEW T \in SUBSET (0 .. n), 0 \in T, \A i \in 1 .. n : i - 1 \in T => i \in T
  PROVE  n \in T
<1> DEFINE U == {i \in 0 .. n : i \notin T}
<1>1. U = {}
  <2> SUFFICES ASSUME U # {} PROVE FALSE
    OBVIOUS
  <2>1. PICK i \in U : \A j \in U : i <= j
    <3>1. U \in SUBSET Nat
      OBVIOUS
    <3>2. QED
      BY <3>1, Least
  <2>2. i # 0 /\ i \in 1 .. n /\ i - 1 \in 0 .. n
    BY <2>1
  <2>3. i - 1 \in T
    BY <2>1, <2>2
  <2>4. QED
    BY <2>1, <2>2, <2>3
<1>2. QED
  BY <1>1

\* The turns of each loop.
LEMMA ButtonsTurns ==
  ASSUME NEW s, NEW buttons, NEW isUi
  PROVE  \E f : /\ f[0] = s
                /\ \A i \in 1 .. Len(PadButtons) :
                     f[i] = IF (i \in buttons) = (i \in pad.joyPrev) THEN f[i - 1]
                            ELSE Button(f[i - 1], PadButtons[i], i \in buttons, isUi)
                /\ ButtonChanges(s, buttons, isUi) = f[Len(PadButtons)]
<1> DEFINE n == Len(PadButtons)
           Body(f) == f = [i \in 0 .. n |->
                             IF i = 0 THEN s
                             ELSE IF (i \in buttons) = (i \in pad.joyPrev) THEN f[i - 1]
                             ELSE Button(f[i - 1], PadButtons[i], i \in buttons, isUi)]
           told == CHOOSE f : Body(f)
           c == [loop |-> "buttons", buttons |-> buttons, isUi |-> isUi]
<1>1. n \in Nat
  BY PadAssumption
<1>2. PICK f : Loops(f, c, n, s)
  <2> HIDE DEF c
  <2>1. QED
    BY <1>1, Looped
<1>3. \A i, t : Turn(c, t, i) = IF (i \in buttons) = (i \in pad.joyPrev) THEN t
                                ELSE Button(t, PadButtons[i], i \in buttons, isUi)
  BY DEF Turn
<1>4. Body(f)
  <2> HIDE DEF c
  <2>1. QED
    BY <1>2, <1>3 DEF Loops
<1>5. ButtonChanges(s, buttons, isUi) = told[n]
  BY DEF ButtonChanges
<1> HIDE DEF Body
<1>6. Body(told)
  BY <1>4
<1> HIDE DEF told
<1>7. QED
  BY <1>1, <1>5, <1>6 DEF Body

\* Changed is a loop over the keys.
LEMMA ChangedTurns ==
  ASSUME NEW keys, Len(keys) \in Nat, NEW old, NEW new
  PROVE  \E f : /\ f[0] = <<>>
                /\ \A i \in 1 .. Len(keys) :
                     f[i] = IF (keys[i] \in new) = (keys[i] \in old) THEN f[i - 1] ELSE Append(f[i - 1], keys[i])
                /\ Changed(keys, old, new) = f[Len(keys)]
<1> DEFINE n == Len(keys)
           Body(f) == f = [i \in 0 .. n |->
                             IF i = 0 THEN <<>>
                             ELSE IF (keys[i] \in new) = (keys[i] \in old) THEN f[i - 1]
                             ELSE Append(f[i - 1], keys[i])]
           found == CHOOSE f : Body(f)
           c == [loop |-> "changed", keys |-> keys, old |-> old, new |-> new]
<1>1. n \in Nat
  OBVIOUS
<1>2. PICK f : Loops(f, c, n, <<>>)
  <2> HIDE DEF c
  <2>1. QED
    BY <1>1, Looped
<1>3. \A i, t : Turn(c, t, i) = IF (keys[i] \in new) = (keys[i] \in old) THEN t ELSE Append(t, keys[i])
  BY DEF Turn
<1>4. Body(f)
  <2> HIDE DEF c
  <2>1. QED
    BY <1>2, <1>3 DEF Loops
<1>5. Changed(keys, old, new) = found[n]
  BY DEF Changed
<1> HIDE DEF Body
<1>6. Body(found)
  BY <1>4
<1> HIDE DEF found
<1>7. 0 \in 0 .. n /\ \A i \in 1 .. n : i \in 0 .. n /\ i # 0
  BY <1>1
<1> HIDE DEF n
<1>8. found[0] = <<>> /\ \A i \in 1 .. n :
        found[i] = IF (keys[i] \in new) = (keys[i] \in old) THEN found[i - 1] ELSE Append(found[i - 1], keys[i])
  BY <1>6, <1>7, Zenon DEF Body
<1>9. QED
  BY <1>5, <1>8, Zenon DEF n

\* Clicks is a loop over the buttons.
LEMMA ClicksTurns ==
  ASSUME NEW r, NEW buttons, Len(buttons) \in Nat
  PROVE  \E f : /\ f[0] = r
                /\ \A i \in 1 .. Len(buttons) : f[i] = Click(f[i - 1], buttons[i])
                /\ Clicks(r, buttons) = f[Len(buttons)]
<1> DEFINE n == Len(buttons)
           Body(f) == f = [i \in 0 .. n |-> IF i = 0 THEN r ELSE Click(f[i - 1], buttons[i])]
           read == CHOOSE f : Body(f)
           c == [loop |-> "clicks", buttons |-> buttons]
<1>1. n \in Nat
  OBVIOUS
<1>2. PICK f : Loops(f, c, n, r)
  <2> HIDE DEF c
  <2>1. QED
    BY <1>1, Looped
<1>3. \A i, t : Turn(c, t, i) = Click(t, buttons[i])
  BY DEF Turn
<1>4. Body(f)
  <2> HIDE DEF c
  <2>1. QED
    BY <1>2, <1>3 DEF Loops
<1>5. Clicks(r, buttons) = read[n]
  BY DEF Clicks
<1> HIDE DEF Body
<1>6. Body(read)
  BY <1>4
<1> HIDE DEF read
<1>7. QED
  BY <1>1, <1>5, <1>6 DEF Body

\* ScanKeyboard is a loop over the contacts of the matrix, after the restore key.
LEMMA MatrixTurns ==
  ASSUME NEW r
  PROVE  \E f : /\ f[0] = ScanRestore(r)
                /\ \A i \in 1 .. 64 :
                     f[i] = IF <<(i - 1) \div 8, (i - 1) % 8>> \in DOMAIN MatrixKeys
                            THEN ScanKey(f[i - 1], (i - 1) \div 8, (i - 1) % 8) ELSE f[i - 1]
                /\ ScanKeyboard(r) = f[64]
<1> DEFINE Body(f) == f = [i \in 0 .. 64 |->
                             IF i = 0 THEN ScanRestore(r)
                             ELSE IF <<(i - 1) \div 8, (i - 1) % 8>> \in DOMAIN MatrixKeys
                                  THEN ScanKey(f[i - 1], (i - 1) \div 8, (i - 1) % 8)
                                  ELSE f[i - 1]]
           read == CHOOSE f : Body(f)
           c == [loop |-> "matrix"]
<1>1. PICK f : Loops(f, c, 64, ScanRestore(r))
  <2> HIDE DEF c
  <2>1. QED
    BY Looped
<1>2. \A i, t : Turn(c, t, i) = IF <<(i - 1) \div 8, (i - 1) % 8>> \in DOMAIN MatrixKeys
                                THEN ScanKey(t, (i - 1) \div 8, (i - 1) % 8) ELSE t
  BY DEF Turn
<1>3. Body(f)
  <2> HIDE DEF c
  <2>1. QED
    BY <1>1, <1>2 DEF Loops
<1>4. ScanKeyboard(r) = read[64]
  BY Zenon DEF ScanKeyboard
<1> HIDE DEF Body
<1>5. Body(read)
  BY <1>3
<1> HIDE DEF read
<1>6. 0 \in 0 .. 64 /\ \A i \in 1 .. 64 : i \in 0 .. 64 /\ i # 0
  OBVIOUS
<1>7. read[0] = ScanRestore(r) /\ \A i \in 1 .. 64 :
        read[i] = IF <<(i - 1) \div 8, (i - 1) % 8>> \in DOMAIN MatrixKeys
                  THEN ScanKey(read[i - 1], (i - 1) \div 8, (i - 1) % 8) ELSE read[i - 1]
  BY <1>5, <1>6, Zenon DEF Body
<1>8. QED
  BY <1>4, <1>7, Zenon

\* CustomPins is a loop over the pins.
LEMMA PinsTurns ==
  ASSUME NEW r
  PROVE  \E f : /\ f[0] = r
                /\ \A i \in 1 .. 23 : f[i] = IF i - 1 \in DOMAIN Bindings THEN CustomPin(f[i - 1], i - 1) ELSE f[i - 1]
                /\ CustomPins(r) = f[23]
<1> DEFINE Body(f) == f = [i \in 0 .. 23 |->
                             IF i = 0 THEN r
                             ELSE IF i - 1 \in DOMAIN Bindings THEN CustomPin(f[i - 1], i - 1) ELSE f[i - 1]]
           read == CHOOSE f : Body(f)
           c == [loop |-> "pins"]
<1>1. PICK f : Loops(f, c, 23, r)
  <2> HIDE DEF c
  <2>1. QED
    BY Looped
<1>2. \A i, t : Turn(c, t, i) = IF i - 1 \in DOMAIN Bindings THEN CustomPin(t, i - 1) ELSE t
  BY DEF Turn
<1>3. Body(f)
  <2> HIDE DEF c
  <2>1. QED
    BY <1>1, <1>2 DEF Loops
<1>4. CustomPins(r) = read[23]
  BY DEF CustomPins
<1> HIDE DEF Body
<1>5. Body(read)
  BY <1>3
<1> HIDE DEF read
<1>6. QED
  BY <1>4, <1>5 DEF Body

(***************************************************************************)
(* The gamepad                                                             *)
(***************************************************************************)
\* The sink's fields, and a latch for each port.
SinkShape(s) ==
  /\ DOMAIN s = {"emu", "menu", "unpressed", "capture", "userport", "joy"}
  /\ s = [f \in DOMAIN s |-> s[f]]
  /\ DOMAIN s.joy = Ports
  /\ s.joy = [p \in Ports |-> s.joy[p]]

\* What is told keeps the shape of the sink.
LEMMA LatchedShape ==
  ASSUME NEW s, SinkShape(s), NEW p \in Ports, NEW dirs, NEW potx, NEW poty
  PROVE  LET t == Latched(s, p, dirs, potx, poty) IN
         /\ SinkShape(t)
         /\ t.joy[p].dirs = dirs
         /\ \A q \in Ports \ {p} : t.joy[q] = s.joy[q]
  BY DEF SinkShape, Latched

\* Keys leave the sink a record with two ports.
LEMMA KeyShape ==
  ASSUME NEW s, SinkShape(s), NEW key, NEW press
  PROVE  SinkShape(Key(s, key, press)) /\ SinkShape(UiKey(s, key, press)) /\ SinkShape(EmuKey(s, key, press))
<1>1. \A k : SinkShape(UiKey(s, k, press))
  BY DEF SinkShape, UiKey
<1>2. SinkShape(EmuKey(s, key, press))
  BY DEF SinkShape, EmuKey
<1>3. \A mv : \A p \in Ports : SinkShape(JoyKey(s, p, mv, press))
  <2> SUFFICES ASSUME NEW mv, NEW p \in Ports PROVE SinkShape(JoyKey(s, p, mv, press))
    OBVIOUS
  <2>1. QED
    BY LatchedShape DEF JoyKey
<1>4. SinkShape([s EXCEPT !.capture = FALSE])
  BY DEF SinkShape
<1> DEFINE port == IF 1 \in TakenBy(key, press) THEN 1 ELSE 2
           moves == KeysOf(joydevs[port])[key]
<1>5. port \in Ports
  BY DEF Ports
<1>6. Key(s, key, press) \in {s, [s EXCEPT !.capture = FALSE], UiKey(s, MenuKey[moves], press), JoyKey(s, port, moves, press),
                            UiKey(s, key, press), EmuKey(s, key, press)}
  <2> HIDE DEF port, moves
  <2>1. Key(s, key, press) =
          CASE s.capture /\ press -> s
            [] s.capture /\ ~press -> [s EXCEPT !.capture = FALSE]
            [] ~s.capture /\ TakenBy(key, press) # {} ->
                 IF ui THEN UiKey(s, MenuKey[moves], press) ELSE JoyKey(s, port, moves, press)
            [] OTHER -> IF ui THEN UiKey(s, key, press) ELSE EmuKey(s, key, press)
    BY DEF Key, port, moves
  <2>2. QED
    BY <2>1
<1> HIDE DEF port, moves
<1>7. SinkShape(JoyKey(s, port, moves, press))
  BY <1>3, <1>5, Zenon
<1>8. SinkShape(Key(s, key, press))
  <2>1. CASE Key(s, key, press) \in {s, [s EXCEPT !.capture = FALSE]}
    BY <1>4, <2>1, Zenon
  <2>2. CASE Key(s, key, press) \in {UiKey(s, MenuKey[moves], press), UiKey(s, key, press)}
    BY <1>1, <2>2, Zenon
  <2>3. CASE Key(s, key, press) \in {JoyKey(s, port, moves, press), EmuKey(s, key, press)}
    BY <1>2, <1>7, <2>3, Zenon
  <2>4. QED
    BY <1>6, <2>1, <2>2, <2>3
<1>9. QED
  BY <1>1, <1>2, <1>8

\* So do buttons,
LEMMA ButtonShape ==
  ASSUME NEW s, SinkShape(s), NEW func, NEW press, NEW isUi
  PROVE  SinkShape(Button(s, func, press, isUi))
  BY KeyShape, Zenon DEF Button

\* and the directions that move the menu's cursor,
LEMMA MenuMovesShape ==
  ASSUME NEW s, SinkShape(s), NEW old, NEW new
  PROVE  SinkShape(MenuMoves(s, old, new))
  BY DEF SinkShape, MenuMoves

\* The buttons are told one after the other.
LEMMA ButtonsShape ==
  ASSUME NEW s, SinkShape(s), NEW buttons, NEW isUi
  PROVE  SinkShape(ButtonChanges(s, buttons, isUi))
<1> DEFINE n == Len(PadButtons)
<1>1. n \in Nat
  BY PadAssumption
<1>2. PICK told : /\ told[0] = s
                  /\ \A i \in 1 .. n : told[i] = IF (i \in buttons) = (i \in pad.joyPrev) THEN told[i - 1]
                                              ELSE Button(told[i - 1], PadButtons[i], i \in buttons, isUi)
                  /\ ButtonChanges(s, buttons, isUi) = told[n]
  BY ButtonsTurns
<1> DEFINE T == {i \in 0 .. n : SinkShape(told[i])}
<1>3. 0 \in T
  BY <1>1, <1>2
<1>4. \A i \in 1 .. n : i - 1 \in T => i \in T
  BY <1>1, <1>2, ButtonShape
<1>5. n \in T
  <2> HIDE DEF T
  <2>1. T \in SUBSET (0 .. n)
    BY DEF T
  <2>2. QED
    BY <1>1, <1>3, <1>4, <2>1, Induct
<1>6. QED
  BY <1>2, <1>5

Hats == {8} \cup {move[1] : move \in PadMoves}
Axes == {"mid"} \cup {move[2][1] : move \in PadMoves} \cup {move[2][2] : move \in PadMoves}
PadStates ==
  [pref : {"hat", "paddles", "analog"}, buttons : SUBSET DOMAIN PadButtons, dpad : Hats, dirs : SUBSET Directions,
   x : Axes, y : Axes, joyPrev : SUBSET DOMAIN PadButtons, raw : BOOLEAN]
PadReports ==
  [buttons : SUBSET DOMAIN PadButtons, hat : Hats, x : Axes, y : Axes, handled : BOOLEAN, seen : BOOLEAN]

\* What the handler remembers of the directions and of the buttons that are
\* assigned to directions.
Remembered(q) ==
  (IF q.pref = "analog" THEN q.dirs ELSE HatDirs(q.dpad)) \cup (Assigned(q.buttons) \cap Directions)

PadTypes ==
  /\ ui \in BOOLEAN
  /\ pad \in PadStates
  /\ padReport \in PadReports
  /\ padFresh \in BOOLEAN
\* With a gamepad, what was told last is what is remembered.
Follows ==
  /\ SinkShape(sink)
  /\ padFresh => padShown = Remembered(pad)
  /\ JoyFollowsPad
PadInvariant == PadTypes /\ (plugged = "pad" => Follows)

\* No gamepad has reported yet.
LEMMA PadStart == Init => PadInvariant
<1> SUFFICES ASSUME Init PROVE PadInvariant
  OBVIOUS
<1>1. PadTypes
  <2>1. PICK pref \in {"hat", "paddles", "analog"} :
          pad = [pref |-> pref, buttons |-> {}, dpad |-> 8, dirs |-> {}, x |-> "mid", y |-> "mid",
                 joyPrev |-> {}, raw |-> FALSE]
    BY Zenon DEF Init, UsbInit
  <2>2. pad \in PadStates
    BY <2>1 DEF PadStates, Hats, Axes
  <2>3. padReport \in PadReports
    BY DEF Init, UsbInit, NoPadReport, PadReports, Hats, Axes
  <2>4. QED
    BY <2>2, <2>3 DEF Init, UsbInit, PadTypes
<1>2. ASSUME plugged = "pad" PROVE Follows
  <2>1. PICK pref \in {"hat", "paddles", "analog"} :
          pad = [pref |-> pref, buttons |-> {}, dpad |-> 8, dirs |-> {}, x |-> "mid", y |-> "mid",
                 joyPrev |-> {}, raw |-> FALSE]
    BY Zenon DEF Init, UsbInit
  <2>2. padShown = {} /\ HatDirs(8) = {}
    BY DEF Init, UsbInit, HatDirs
  <2>3. Remembered(pad) = {}
    BY <2>1, <2>2 DEF Remembered, Assigned
  <2>4. SinkShape(sink) /\ \A p \in Ports : sink.joy[p].dirs = {}
    BY DEF Init, SinkShape
  <2>5. QED
    BY <2>2, <2>3, <2>4 DEF Follows, JoyFollowsPad, PadPorts
<1>3. QED
  BY <1>1, <1>2 DEF PadInvariant

\* What the port gets.
LEMMA SetJoyFollows ==
  ASSUME NEW s, SinkShape(s), NEW dirs, NEW potx, NEW poty
  PROVE  LET t == SetJoyUsb(s, dirs, potx, poty) IN
         /\ SinkShape(t)
         /\ \A p \in PadPorts : (\A q \in PadPorts : p <= q) => t.joy[p].dirs = dirs
<1>1. CASE PadPorts = {}
  BY <1>1 DEF SetJoyUsb
<1>2. CASE PadPorts # {}
  <2> DEFINE first == CHOOSE p \in PadPorts : \A q \in PadPorts : p <= q
  <2>1. PadPorts \in SUBSET Nat
    BY DEF PadPorts, Ports
  <2>2. first \in PadPorts /\ \A q \in PadPorts : first <= q
    BY <1>2, <2>1, Least
  <2>3. SetJoyUsb(s, dirs, potx, poty) = Latched(s, first, dirs, potx, poty)
    BY <1>2 DEF SetJoyUsb
  <2> HIDE DEF first
  <2>4. first \in Ports
    BY <2>2 DEF PadPorts
  <2>5. \A p \in PadPorts : (\A q \in PadPorts : p <= q) => p = first
    BY <2>1, <2>2
  <2>6. QED
    BY <2>3, <2>4, <2>5, LatchedShape
<1>3. QED
  BY <1>1, <1>2

\* and the emulator's release of what the menu had pressed.
LEMMA UnpressedShape ==
  ASSUME NEW s, SinkShape(s)
  PROVE  SinkShape(Unpressed(s)) /\ Unpressed(s).joy = s.joy
  BY DEF SinkShape, Unpressed

\* A handler that finds no change.
LEMMA NothingNew ==
  ASSUME Follows, sink' = Unpressed(sink), UNCHANGED <<joydevs, padFresh>>,
         padFresh => padShown' = Remembered(pad), padFresh => Remembered(pad') = Remembered(pad), UNCHANGED plugged
  PROVE  Follows'
<1>1. SinkShape(sink') /\ sink'.joy = sink.joy
  BY UnpressedShape DEF Follows
<1>2. SinkShape(sink)' <=> SinkShape(sink')
  BY DEF SinkShape
<1>3. QED
  BY <1>1, <1>2 DEF Follows, JoyFollowsPad, PadPorts

\* A change that was told to the port, or to the menu.
LEMMA ToldPort ==
  ASSUME Follows, NEW s, SinkShape(s), NEW potx, NEW poty, sink' = SetJoyUsb(s, padShown', potx, poty),
         UNCHANGED joydevs, padShown' = Remembered(pad')
  PROVE  Follows'
<1>1. /\ SinkShape(sink')
      /\ \A p \in PadPorts : (\A q \in PadPorts : p <= q) => sink'.joy[p].dirs = padShown'
  BY SetJoyFollows
<1>2. SinkShape(sink)' <=> SinkShape(sink')
  BY DEF SinkShape
<1>3. PadPorts' = PadPorts
  BY DEF PadPorts
<1>4. Remembered(pad)' = Remembered(pad')
  BY DEF Remembered, Assigned
<1>5. QED
  BY <1>1, <1>2, <1>3, <1>4 DEF Follows, JoyFollowsPad

\* A step that told the menu has nothing fresh to say of a port.
LEMMA ToldMenu ==
  ASSUME SinkShape(sink'), ~padFresh'
  PROVE  Follows'
<1>1. SinkShape(sink)' <=> SinkShape(sink')
  BY DEF SinkShape
<1>2. QED
  BY <1>1 DEF Follows, JoyFollowsPad

\* The sink after the buttons and directions of a report.
LEMMA ToldShape ==
  ASSUME Follows, NEW old, NEW new, NEW buttons, NEW seen
  PROVE  SinkShape(ButtonChanges(IF seen THEN MenuMoves(Unpressed(sink), old, new) ELSE Unpressed(sink), buttons, seen))
<1>1. SinkShape(Unpressed(sink))
  BY UnpressedShape DEF Follows
<1>2. SinkShape(MenuMoves(Unpressed(sink), old, new))
  BY <1>1, MenuMovesShape
<1>3. SinkShape(IF seen THEN MenuMoves(Unpressed(sink), old, new) ELSE Unpressed(sink))
  BY <1>1, <1>2
<1>4. QED
  BY <1>3, ButtonsShape

\* The handlers, as the gamepad is used: with its hat, or with its axes.
LEMMA HatFollows ==
  ASSUME PadTypes, Follows, HandleHat, UNCHANGED <<ui, joydevs, plugged>>
  PROVE  PadTypes' /\ Follows'
<1> DEFINE r == padReport
           paddles == pad.pref = "paddles"
           changed == \/ pad.buttons # r.buttons \/ pad.dpad # r.hat
                      \/ paddles /\ <<pad.x, pad.y>> # <<r.x, r.y>>
           kept == IF paddles THEN [pad EXCEPT !.x = r.x, !.y = r.y] ELSE pad
           told == ButtonChanges(IF r.seen THEN MenuMoves(Unpressed(sink), MenuHat(pad.dpad), MenuHat(r.hat))
                                 ELSE Unpressed(sink), r.buttons, r.seen)
           potx == IF paddles THEN "paddle" ELSE PotOf("potx", r.buttons)
           poty == IF paddles THEN "paddle" ELSE PotOf("poty", r.buttons)
<1>1. /\ pad.pref \in {"hat", "paddles"}
      /\ padShown' = HatDirs(r.hat) \cup (Assigned(r.buttons) \cap Directions)
      /\ padReport' = NoPadReport
  BY DEF HandleHat
<1>2. r \in PadReports /\ pad \in PadStates /\ padReport' \in PadReports
  BY <1>1 DEF PadTypes, NoPadReport, PadReports, Hats, Axes
<1>3. kept \in PadStates /\ kept.pref = pad.pref /\ kept.buttons = pad.buttons /\ kept.dpad = pad.dpad
  BY <1>2 DEF PadStates, PadReports
<1>4. SinkShape(told)
  BY ToldShape
<1>5. CASE changed
  <2>1. /\ pad' = [kept EXCEPT !.buttons = r.buttons, !.joyPrev = r.buttons, !.dpad = r.hat]
        /\ sink' = IF r.seen THEN told ELSE SetJoyUsb(told, padShown', potx, poty)
        /\ padFresh' = ~r.seen
    BY <1>5, Zenon DEF HandleHat
  <2> HIDE DEF changed, kept, told, potx, poty
  <2>2. pad' \in PadStates /\ pad'.pref = pad.pref /\ pad'.buttons = r.buttons /\ pad'.dpad = r.hat
    BY <1>2, <1>3, <2>1 DEF PadStates, PadReports
  <2>3. padFresh' \in BOOLEAN
    BY <2>1
  <2>4. PadTypes'
    BY <1>2, <2>2, <2>3 DEF PadTypes
  <2>5. padShown' = Remembered(pad')
    BY <1>1, <2>2 DEF Remembered
  <2>6. CASE r.seen
    <3>1. sink' = told /\ ~padFresh'
      BY <2>1, <2>6, Zenon
    <3>2. QED
      BY <1>4, <2>4, <3>1, ToldMenu
  <2>7. CASE ~r.seen
    <3>1. sink' = SetJoyUsb(told, padShown', potx, poty)
      BY <2>1, <2>7, Zenon
    <3>2. QED
      BY <1>4, <2>4, <2>5, <3>1, ToldPort
  <2>8. QED
    BY <2>6, <2>7
<1>6. CASE ~changed
  <2>1. pad' = kept /\ sink' = Unpressed(sink) /\ UNCHANGED padFresh
    BY <1>6, Zenon DEF HandleHat
  <2>2. pad.buttons = r.buttons /\ pad.dpad = r.hat
    BY <1>6
  <2> HIDE DEF changed, kept, told, potx, poty
  <2>3. PadTypes'
    BY <1>2, <1>3, <2>1 DEF PadTypes
  <2>4. Remembered(pad') = Remembered(pad)
    <3>1. pad'.pref = pad.pref /\ pad'.buttons = pad.buttons /\ pad'.dpad = pad.dpad
      BY <1>3, <2>1
    <3>2. pad'.pref # "analog" /\ pad.pref # "analog"
      BY <1>1, <3>1
    <3>3. QED
      BY <3>1, <3>2, Zenon DEF Remembered
  <2>5. padShown' = Remembered(pad)
    BY <1>1, <2>2 DEF Remembered
  <2>6. QED
    BY <2>1, <2>3, <2>4, <2>5, NothingNew
<1>7. QED
  BY <1>5, <1>6

\* A gamepad with analog sticks.
LEMMA AnalogFollows ==
  ASSUME PadTypes, Follows, HandleAnalog, UNCHANGED <<ui, joydevs, plugged>>
  PROVE  PadTypes' /\ Follows'
<1> DEFINE r == padReport
           changed == pad.buttons # r.buttons \/ pad.dirs # AxisDirs(r)
           told == ButtonChanges(IF r.seen THEN MenuMoves(Unpressed(sink), pad.dirs, AxisDirs(r))
                                 ELSE Unpressed(sink), r.buttons, r.seen)
           potx == PotOf("potx", r.buttons)
           poty == PotOf("poty", r.buttons)
<1>1. /\ pad.pref = "analog"
      /\ padShown' = AxisDirs(r) \cup (Assigned(r.buttons) \cap Directions)
      /\ padReport' = NoPadReport
  BY DEF HandleAnalog
<1>2. r \in PadReports /\ pad \in PadStates /\ padReport' \in PadReports /\ AxisDirs(r) \in SUBSET Directions
  BY <1>1 DEF PadTypes, NoPadReport, PadReports, Hats, Axes, AxisDirs
<1>3. SinkShape(told)
  BY ToldShape
<1>4. CASE changed
  <2>1. /\ pad' = [pad EXCEPT !.buttons = r.buttons, !.joyPrev = r.buttons, !.dirs = AxisDirs(r)]
        /\ sink' = IF r.seen THEN told ELSE SetJoyUsb(told, padShown', potx, poty)
        /\ padFresh' = ~r.seen
    BY <1>4, Zenon DEF HandleAnalog
  <2> HIDE DEF changed, told, potx, poty
  <2>2. pad' \in PadStates /\ pad'.pref = pad.pref /\ pad'.buttons = r.buttons /\ pad'.dirs = AxisDirs(r)
    BY <1>2, <2>1 DEF PadStates, PadReports
  <2>3. padFresh' \in BOOLEAN
    BY <2>1
  <2>4. PadTypes'
    BY <1>2, <2>2, <2>3 DEF PadTypes
  <2>5. padShown' = Remembered(pad')
    BY <1>1, <2>2 DEF Remembered
  <2>6. CASE r.seen
    <3>1. sink' = told /\ ~padFresh'
      BY <2>1, <2>6, Zenon
    <3>2. QED
      BY <1>3, <2>4, <3>1, ToldMenu
  <2>7. CASE ~r.seen
    <3>1. sink' = SetJoyUsb(told, padShown', potx, poty)
      BY <2>1, <2>7, Zenon
    <3>2. QED
      BY <1>3, <2>4, <2>5, <3>1, ToldPort
  <2>8. QED
    BY <2>6, <2>7
<1>5. CASE ~changed
  <2>1. pad' = pad /\ sink' = Unpressed(sink) /\ UNCHANGED padFresh
    BY <1>5, Zenon DEF HandleAnalog
  <2>2. pad.buttons = r.buttons /\ pad.dirs = AxisDirs(r)
    BY <1>5
  <2> HIDE DEF changed, told, potx, poty
  <2>3. PadTypes'
    BY <1>2, <2>1 DEF PadTypes
  <2>4. padShown' = Remembered(pad)
    BY <1>1, <2>2 DEF Remembered
  <2>5. QED
    BY <2>1, <2>3, <2>4, NothingNew
<1>6. QED
  BY <1>4, <1>5

\* A report that arrives is only remembered.
LEMMA ArrivesFollows ==
  ASSUME PadTypes, Follows, UNCHANGED <<ui, joydevs, plugged>>,
         NEW buttons \in SUBSET DOMAIN PadButtons, NEW move \in PadMoves, PadArrives(buttons, move[1], move[2])
  PROVE  PadTypes' /\ Follows'
<1>1. sink' = Unpressed(sink) /\ UNCHANGED <<pad, padFresh, padShown>>
  BY DEF PadArrives
<1>2. NoPadReport \in PadReports
  BY DEF NoPadReport, PadReports, Hats, Axes
<1>3. [buttons |-> buttons, hat |-> move[1], x |-> move[2][1], y |-> move[2][2], handled |-> FALSE, seen |-> ui] \in PadReports
  BY DEF PadReports, Hats, Axes, PadTypes
<1>4. padReport' \in PadReports
  BY <1>2, <1>3 DEF PadArrives
<1>5. PadTypes'
  BY <1>1, <1>4 DEF PadTypes
<1>6. QED
  BY <1>1, <1>5, NothingNew DEF Follows

\* A new assignment or preference is no news to the port until the next change.
LEMMA PadKept == PadInvariant /\ [Next]_vars => PadInvariant'
<1> SUFFICES ASSUME PadInvariant, [Next]_vars PROVE PadInvariant'
  OBVIOUS
<1> USE DEF PadInvariant
<1>0. UNCHANGED plugged
  BY DEF Next, vars, KeyboardStep, PadStep, MouseStep, GpioStep, Toggle, MenuChange, Account
<1>1. CASE plugged # "pad" /\ UNCHANGED <<ui, pad, padReport, padFresh>>
  BY <1>0, <1>1 DEF PadTypes
<1>2. CASE KeyboardStep
  BY <1>1, <1>2 DEF KeyboardStep, Quiet, KeyReport, FlagShift, CompareModifier, ReadUi, CompareKey, KeysDone
<1>3. CASE PadStep
  <2>1. plugged = "pad" /\ UNCHANGED <<ui, joydevs>>
    BY <1>3 DEF PadStep, Quiet
  <2>2. QED
    BY <1>0, <1>3, <2>1, ArrivesFollows, HatFollows, AnalogFollows DEF PadStep
<1>4. CASE MouseStep
  BY <1>1, <1>4 DEF MouseStep, Quiet, MouseReport
<1>5. CASE GpioStep
  BY <1>1, <1>5 DEF GpioStep, Quiet, usbVars
<1>6. CASE Toggle
  <2>1. ui' \in BOOLEAN /\ sink' = Unpressed(sink) /\ UNCHANGED <<joydevs, usbVars>>
    BY <1>6 DEF Toggle
  <2>2. PadTypes'
    BY <2>1 DEF PadTypes, usbVars
  <2>3. ASSUME plugged = "pad" PROVE Follows'
    BY <1>0, <2>1, <2>3, NothingNew DEF Follows, usbVars
  <2>4. QED
    BY <1>0, <2>2, <2>3
<1>7. CASE MenuChange
  <2>0. UNCHANGED ui
    BY <1>7 DEF MenuChange
  <2>1. (\E choice : Assign(choice)) \/ Capture \/ PadMenu \/ PinMenu
    BY <1>7, Zenon DEF MenuChange
  <2>2. ASSUME NEW choice, Assign(choice) PROVE PadInvariant'
    <3>1. sink' = Unpressed(sink) /\ padFresh' = FALSE /\ UNCHANGED <<pad, padReport>>
      BY <2>2, Zenon DEF Assign
    <3>2. PadTypes'
      BY <2>0, <3>1 DEF PadTypes
    <3>3. plugged = "pad" => SinkShape(sink')
      BY <3>1, UnpressedShape DEF Follows
    <3>4. QED
      BY <1>0, <3>1, <3>2, <3>3, ToldMenu
  <2>3. CASE Capture
    <3>1. plugged # "pad" /\ UNCHANGED usbVars
      BY <2>3, Zenon DEF Capture
    <3>2. QED
      BY <1>1, <2>0, <3>1 DEF usbVars
  <2>4. CASE PadMenu
    <3>1. sink' = Unpressed(sink) /\ padFresh' = FALSE /\ UNCHANGED padReport
      BY <2>4, Zenon DEF PadMenu
    <3>2. PICK p \in {"hat", "paddles", "analog"}, r \in BOOLEAN : pad' = [pad EXCEPT !.pref = p, !.raw = r]
      BY <2>4, Zenon DEF PadMenu
    <3>3. pad' \in PadStates
      BY <3>2 DEF PadTypes, PadStates
    <3>4. PadTypes'
      BY <2>0, <3>1, <3>3 DEF PadTypes
    <3>5. plugged = "pad" => SinkShape(sink')
      BY <3>1, UnpressedShape DEF Follows
    <3>6. QED
      BY <1>0, <3>1, <3>4, <3>5, ToldMenu
  <2>5. CASE PinMenu
    <3>1. plugged # "pad" /\ UNCHANGED usbVars
      BY <2>5, Zenon DEF PinMenu
    <3>2. QED
      BY <1>1, <2>0, <3>1 DEF usbVars
  <2>6. QED
    BY <2>1, <2>2, <2>3, <2>4, <2>5
<1>8. CASE UNCHANGED vars
  <2>1. PadTypes' /\ UNCHANGED <<sink, joydevs, padFresh, padShown, pad>>
    BY <1>8 DEF vars, usbVars, PadTypes
  <2>2. Follows => Follows'
    <3>1. SinkShape(sink)' <=> SinkShape(sink)
      BY <2>1, Zenon DEF SinkShape
    <3>2. JoyFollowsPad' <=> JoyFollowsPad
      BY <1>8, Zenon DEF JoyFollowsPad, PadPorts, vars, usbVars
    <3>3. Remembered(pad)' = Remembered(pad)
      BY <2>1 DEF Remembered, Assigned
    <3>4. QED
      BY <2>1, <3>1, <3>2, <3>3 DEF Follows
  <2>3. QED
    BY <1>0, <2>1, <2>2
<1>9. QED
  BY <1>2, <1>3, <1>4, <1>5, <1>6, <1>7, <1>8 DEF Next

\* For any buttons, positions and assignments the first port that has the
\* gamepad shows what the last report showed, if that was told to the port
\* (GamePadStatusHandler, emu_set_joy_usb_interrupt).
THEOREM JoyAlwaysFollowsPad == Spec => []JoyFollowsPad
<1>1. PadInvariant => JoyFollowsPad
  BY DEF PadInvariant, Follows, JoyFollowsPad
<1>2. QED
  BY <1>1, PadStart, PadKept, PTL DEF Spec

(***************************************************************************)
(* What the emulator sees                                                  *)
(***************************************************************************)
\* The keys of a button that go to the emulator when the menu is closed.
EmuKeys(func) ==
  CASE func = "MENU" -> {"F12"} [] func = "CUSTOM" -> {Binding} [] func = "BACK" -> {"Escape"} [] OTHER -> {}

\* The pins of custom buttons that scans remember as down.
Pressed(debounce) == {p \in DOMAIN Bindings : Bindings[p][1] = 0 /\ debounce[p] \in {"press", "down"}}

\* The keys that the scans of a configuration have told the emulator.
ScanSource(memory) ==
  CASE gpio_config = "keyboard" ->
         {MatrixKeys[k] : k \in memory.matrix} \cup (IF memory.restore THEN {"PageUp"} ELSE {})
    [] gpio_config = "custom" -> UNION {EmuKeys(Bindings[p][2]) : p \in Pressed(memory.debounce)}
    [] OTHER -> {}

\* The keys that the keyboard's handler remembers as down.
Down == keyboard.keys \cup keyboard.mods

\* The keys that the handlers have told the emulator, excused ones apart.
Source ==
  CASE plugged = "keyboard" -> Down
    [] plugged = "pad"      -> UNION {EmuKeys(PadButtons[i]) : i \in pad.joyPrev}
    [] plugged = "gpio"     -> ScanSource(scan)
    [] OTHER -> {}

\* The port that a key goes to.
PortOf(key) == IF 1 \in Takers(key) THEN 1 ELSE 2

\* A sink whose keys are right for the menu: once it is open, nothing that the
\* emulator has is new; while it is closed, no port takes what the emulator has.
EmuRight(s) ==
  /\ SinkShape(s)
  /\ s.capture \in BOOLEAN
  /\ IF ui THEN s.emu \subseteq excused ELSE \A k \in s.emu \ excused : Takers(k) = {}

Elements(keys) == {keys[i] : i \in DOMAIN keys}

\* The handler of the keyboard: what it has not yet told when the menu changed is
\* excused; what it remembers has been told; and a direction comes from a key.
TodoExcused ==
  report.stage = "keys" /\ report.seen # ui => AllNames(Elements(report.todo)) \subseteq excused
DownIsTold == ~ui => \A k \in Down \ excused : Takers(k) = {} => k \in sink.emu
DirectionsFromKeys ==
  \A p \in Ports : \A d \in sink.joy[p].dirs \ excused :
    /\ ~ui /\ d \in Directions
    /\ \E k \in Down : Takers(k) # {} /\ PortOf(k) = p /\ KeysOf(joydevs[p])[k] = d
KeyboardTypes ==
  /\ keyboard.mods \subseteq Elements(Modifiers)
  /\ keyboard.keys \subseteq Elements(UsbKeys)
  /\ DOMAIN keyboard = {"mods", "keys", "shifts"}
  /\ DOMAIN report = {"todo", "stage", "seen", "mods", "keys"}
  /\ report.seen \in BOOLEAN
  /\ CASE report.stage \in {"mods", "shift"} -> report.todo \in Seq(Elements(Modifiers))
       [] report.stage = "keys" -> report.todo \in Seq(Elements(UsbKeys))
       [] OTHER -> report.stage = "idle" /\ report.todo = <<>>
KeyboardSees == KeyboardTypes /\ TodoExcused /\ DownIsTold /\ DirectionsFromKeys

\* The handler of the gamepad: a report that began before the menu changed.
PadSees ==
  ~padReport.handled /\ padReport.seen # ui =>
    \A i \in pad.joyPrev \cup padReport.buttons : EmuKeys(PadButtons[i]) \subseteq excused

\* The scans: what one configuration has found down, the next one excuses.
MatrixTold(memory, s) ==
  IF gpio_config = "keyboard"
  THEN ~ui => \A k \in memory.matrix : MatrixKeys[k] \notin excused /\ Takers(MatrixKeys[k]) = {} => MatrixKeys[k] \in s.emu
  ELSE \A k \in memory.matrix : MatrixKeys[k] \in excused
MemoryShape(memory) ==
  /\ DOMAIN memory = {"debounce", "matrix", "restore", "joyPrev", "pinPrev", "shifts"}
  /\ memory.matrix \subseteq DOMAIN MatrixKeys
  /\ memory.restore \in BOOLEAN
  /\ memory.debounce \in [Pins -> {"up", "press", "down", "release"}]
GpioSees == MemoryShape(scan) /\ MatrixTold(scan, sink)

SeesInvariant ==
  /\ EmuRight(sink)
  /\ sink.emu \ excused \subseteq Source
  /\ ui \in BOOLEAN
  /\ sink.capture => plugged = "keyboard"
  /\ IF plugged = "keyboard" THEN KeyboardSees
     ELSE keyboard.keys = {} /\ keyboard.mods = {} /\ report = Idle
  /\ plugged = "pad" => PadSees
  /\ plugged = "gpio" => GpioSees

\* Every way a key may move a joystick.
LEMMA KeysOfMoves ==
  ASSUME NEW set, NEW key \in DOMAIN KeysOf(set)
  PROVE  KeysOf(set)[key] \in Moves
<1>1. CASE set = "NUMS_1"
  <2>1. KeysOf(set) = [KP8 |-> "up", KP2 |-> "down", KP4 |-> "left", KP6 |-> "right", KP5 |-> "fire"]
    BY <1>1, KeysetAssumption DEF KeysOf
  <2>2. QED
    BY <2>1 DEF Moves, Directions
<1>2. CASE set = "NUMS_2"
  <2>1. KeysOf(set) = [KP9 |-> "up", KP3 |-> "down", KP7 |-> "left", KP1 |-> "right", KP0 |-> "fire"]
    BY <1>2, KeysetAssumption DEF KeysOf
  <2>2. QED
    BY <2>1 DEF Moves, Directions
<1>3. CASE set = "CURS_SP"
  <2>1. KeysOf(set) = [Up |-> "up", Down |-> "down", Left |-> "left", Right |-> "right", Space |-> "fire"]
    BY <1>3, KeysetAssumption DEF KeysOf
  <2>2. QED
    BY <2>1 DEF Moves, Directions
<1>4. CASE set = "CURS_LC"
  <2>1. KeysOf(set) = [Up |-> "up", Down |-> "down", Left |-> "left", Right |-> "right", LeftControl |-> "fire"]
    BY <1>4, KeysetAssumption DEF KeysOf
  <2>2. QED
    BY <2>1 DEF Moves, Directions
<1>5. CASE set \notin {"NUMS_1", "NUMS_2", "CURS_SP", "CURS_LC"} /\ set \in DOMAIN Keysets
  <2>1. KeysOf(set) = Keysets[set]
    BY <1>5 DEF KeysOf
  <2>2. QED
    BY <1>5, <2>1, KeysetAssumption
<1>6. CASE set \notin {"NUMS_1", "NUMS_2", "CURS_SP", "CURS_LC"} /\ set \notin DOMAIN Keysets
  <2>1. KeysOf(set) = [k \in {} |-> ""]
    BY <1>6 DEF KeysOf
  <2>2. QED
    BY <2>1
<1>7. QED
  BY <1>1, <1>2, <1>3, <1>4, <1>5, <1>6

\* What a joystick's key does to the directions, and to the sink.
Moved(dirs, moves, press) ==
  IF moves \in {"potx", "poty"} THEN dirs ELSE IF press THEN dirs \cup {moves} ELSE dirs \ {moves}

\* A key that moves a joystick changes that joystick's port and no key.
LEMMA JoyKeySink ==
  ASSUME NEW s, SinkShape(s), NEW port \in Ports, NEW moves \in Moves, NEW press \in BOOLEAN
  PROVE  LET t == JoyKey(s, port, moves, press) IN
         /\ SinkShape(t)
         /\ t.emu = s.emu /\ t.menu = s.menu /\ t.unpressed = s.unpressed /\ t.capture = s.capture
         /\ \A p \in Ports \ {port} : t.joy[p].dirs = s.joy[p].dirs
         /\ t.joy[port].dirs = Moved(s.joy[port].dirs, moves, press)
<1>1. \A dirs, potx, poty :
        LET t == Latched(s, port, dirs, potx, poty) IN
        /\ SinkShape(t)
        /\ t.emu = s.emu /\ t.menu = s.menu /\ t.unpressed = s.unpressed /\ t.capture = s.capture
        /\ \A p \in Ports \ {port} : t.joy[p].dirs = s.joy[p].dirs
        /\ t.joy[port].dirs = dirs
  BY DEF SinkShape, Latched
<1>2. CASE moves \in {"potx", "poty"}
  <2>1. JoyKey(s, port, moves, press) \in
          {Latched(s, port, s.joy[port].dirs, IF press THEN "low" ELSE "high", "zero"),
           Latched(s, port, s.joy[port].dirs, "zero", IF press THEN "low" ELSE "high")}
    BY <1>2 DEF JoyKey, Directions
  <2>2. QED
    BY <1>1, <1>2, <2>1 DEF Moved
<1>3. CASE moves \in Directions /\ press
  <2>1. JoyKey(s, port, moves, press) = Latched(s, port, s.joy[port].dirs \cup {moves}, "zero", "zero")
    BY <1>3 DEF JoyKey, Directions
  <2>2. Moved(s.joy[port].dirs, moves, press) = s.joy[port].dirs \cup {moves}
    BY <1>3 DEF Moved, Directions
  <2>3. QED
    BY <1>1, <2>1, <2>2
<1>4. CASE moves \in Directions /\ ~press
  <2>1. JoyKey(s, port, moves, press) = Latched(s, port, s.joy[port].dirs \ {moves}, "full", "full")
    BY <1>4 DEF JoyKey, Directions
  <2>2. Moved(s.joy[port].dirs, moves, press) = s.joy[port].dirs \ {moves}
    BY <1>4 DEF Moved, Directions
  <2>3. QED
    BY <1>1, <2>1, <2>2
<1>5. QED
  BY <1>2, <1>3, <1>4 DEF Moves

\* And any key: the sinks before and after.
KeyDoes(s, t, key, press) ==
  /\ SinkShape(t) /\ t.capture \in BOOLEAN
  /\ ~s.capture => ~t.capture
  /\ ui \/ s.capture \/ TakenBy(key, press) # {} => t.emu = s.emu
  /\ ~ui /\ ~s.capture /\ TakenBy(key, press) = {} => t.emu = IF press THEN s.emu \cup {key} ELSE s.emu \ {key}
  /\ ui \/ s.capture \/ TakenBy(key, press) = {} => \A p \in Ports : t.joy[p].dirs = s.joy[p].dirs
  /\ ~ui /\ ~s.capture /\ TakenBy(key, press) # {} =>
       /\ \A p \in Ports \ {PortOf(key)} : t.joy[p].dirs = s.joy[p].dirs
       /\ t.joy[PortOf(key)].dirs = Moved(s.joy[PortOf(key)].dirs, KeysOf(joydevs[PortOf(key)])[key], press)

\* What one key does, from the menu's and the emulator's side.
LEMMA KeySink ==
  ASSUME NEW s, SinkShape(s), s.capture \in BOOLEAN, ui \in BOOLEAN, NEW key, NEW press \in BOOLEAN
  PROVE  KeyDoes(s, Key(s, key, press), key, press)
<1> DEFINE moves == KeysOf(joydevs[PortOf(key)])[key]
           t == Key(s, key, press)
<1>1. SinkShape(t)
  BY KeyShape
<1>2. /\ s.capture => t \in {s, [s EXCEPT !.capture = FALSE]}
      /\ ~s.capture /\ ui => \E k : t = UiKey(s, k, press)
      /\ ~s.capture /\ ~ui /\ TakenBy(key, press) = {} => t = EmuKey(s, key, press)
      /\ ~s.capture /\ ~ui /\ TakenBy(key, press) # {} => t = JoyKey(s, PortOf(key), moves, press)
  BY DEF Key, PortOf, TakenBy
<1>3. PortOf(key) \in Ports
  BY DEF PortOf, Ports
<1>4. \A k : LET u == UiKey(s, k, press) IN u.emu = s.emu /\ u.capture = s.capture /\ u.joy = s.joy
  BY DEF UiKey, SinkShape
<1>5. LET u == EmuKey(s, key, press) IN
      u.emu = (IF press THEN s.emu \cup {key} ELSE s.emu \ {key}) /\ u.capture = s.capture /\ u.joy = s.joy
  BY DEF EmuKey, SinkShape
<1>6. LET u == [s EXCEPT !.capture = FALSE] IN u.emu = s.emu /\ u.capture = FALSE /\ u.joy = s.joy
  BY DEF SinkShape
<1> HIDE DEF moves, t
<1>7. CASE s.capture
  <2>1. t = s \/ t = [s EXCEPT !.capture = FALSE]
    BY <1>2, <1>7
  <2>2. t.emu = s.emu /\ t.capture \in BOOLEAN /\ t.joy = s.joy
    BY <1>6, <2>1
  <2>3. QED
    BY <1>1, <1>7, <2>2 DEF t, KeyDoes
<1>8. CASE ~s.capture /\ ui
  <2>1. \E k : t = UiKey(s, k, press)
    BY <1>2, <1>8
  <2>2. t.emu = s.emu /\ t.capture = s.capture /\ t.joy = s.joy
    BY <1>4, <2>1
  <2>3. QED
    BY <1>1, <1>8, <2>2 DEF t, KeyDoes
<1>9. CASE ~s.capture /\ ~ui /\ TakenBy(key, press) = {}
  <2>1. t = EmuKey(s, key, press)
    BY <1>2, <1>9
  <2>2. t.emu = (IF press THEN s.emu \cup {key} ELSE s.emu \ {key}) /\ t.capture = s.capture /\ t.joy = s.joy
    BY <1>5, <2>1
  <2>3. QED
    BY <1>1, <1>9, <2>2 DEF t, KeyDoes
<1>10. CASE ~s.capture /\ ~ui /\ TakenBy(key, press) # {}
  <2>1. t = JoyKey(s, PortOf(key), moves, press)
    BY <1>2, <1>10
  <2>2. moves \in Moves
    BY <1>10, KeysOfMoves DEF moves, TakenBy, PortOf, Takers, Ports
  <2>3. /\ t.emu = s.emu /\ t.capture = s.capture
        /\ \A p \in Ports \ {PortOf(key)} : t.joy[p].dirs = s.joy[p].dirs
        /\ t.joy[PortOf(key)].dirs = Moved(s.joy[PortOf(key)].dirs, moves, press)
    BY <1>3, <2>1, <2>2, JoyKeySink
  <2>4. QED
    BY <1>1, <1>10, <2>3 DEF t, moves, KeyDoes
<1>11. QED
  BY <1>7, <1>8, <1>9, <1>10

\* What Account makes of the excuses.
LEMMA Accounted ==
  ASSUME NEW new, Account(new)
  PROVE  /\ plugged' = plugged
         /\ \A k \in excused' : k \in excused \cup new
         /\ \A k \in excused \cup new :
              k \in Held' \/ k \in sink'.emu \/ (\E p \in Ports : sink'.joy[p].dirs # {}) => k \in excused'
<1>1. Latches' <=> \E p \in Ports : sink'.joy[p].dirs # {}
  BY DEF Latches
<1>2. \A k : k \in Heard' <=> k \in sink'.emu \/ k \in sink'.menu
  BY DEF Heard
<1>3. QED
  BY <1>1, <1>2 DEF Account

\* A key goes by its own name.
LEMMA Named ==
  /\ \A k : k \in KeyNames(k)
  /\ \A K : \A k \in K : KeyNames(k) \subseteq AllNames(K)
  /\ \A F : \A f \in F : ButtonKeys(f) \subseteq AllButtonKeys(F)
<1>1. \A k : k \in KeyNames(k)
  BY DEF KeyNames
<1>2. \A K : \A k \in K : KeyNames(k) \subseteq AllNames(K)
  BY DEF AllNames
<1>3. \A F : \A f \in F : ButtonKeys(f) \subseteq AllButtonKeys(F)
  BY DEF AllButtonKeys
<1>4. QED
  BY <1>1, <1>2, <1>3

\* Everything that was told is held.
LEMMA SourceHeld == Source \subseteq Held
<1>1. CASE plugged = "keyboard"
  <2>1. \A K : K \subseteq AllNames(K)
    BY Named
  <2>2. Source = keyboard.keys \cup keyboard.mods
    BY <1>1 DEF Source, Down
  <2>3. QED
    BY <1>1, <2>1, <2>2 DEF Held, UsbHeld
<1>2. CASE plugged = "pad"
  <2>1. \A f : EmuKeys(f) \subseteq ButtonKeys(f)
    BY DEF EmuKeys, ButtonKeys
  <2>2. Source = UNION {EmuKeys(PadButtons[i]) : i \in pad.joyPrev}
    BY <1>2 DEF Source
  <2>3. \A f \in Assigned(pad.joyPrev) : ButtonKeys(f) \subseteq Held
    BY <1>2, Named DEF Held, UsbHeld
  <2>4. QED
    BY <2>1, <2>2, <2>3 DEF Assigned
<1>3. CASE plugged = "gpio"
  <2>1. Source = ScanSource(scan) /\ Held = GpioHeld
    BY <1>3 DEF Source, Held
  <2>2. CASE gpio_config = "keyboard"
    <3>1. \A K : K \subseteq AllNames(K)
      BY Named
    <3>2. QED
      BY <2>1, <2>2, <3>1 DEF ScanSource, GpioHeld
  <2>3. CASE gpio_config = "custom"
    <3>1. ASSUME NEW p \in Pressed(scan.debounce), NEW k \in EmuKeys(Bindings[p][2]) PROVE k \in GpioHeld
      <4>1. p \in {q \in DOMAIN Bindings : q \in scan.pinPrev \/ scan.debounce[q] \in {"press", "down"}}
        BY DEF Pressed
      <4>2. Bindings[p][1] = 0
        BY DEF Pressed
      <4>3. EmuKeys(Bindings[p][2]) \subseteq PinKeys(p)
        BY <4>2 DEF EmuKeys, PinKeys, ButtonKeys
      <4>4. QED
        BY <4>1, <4>3 DEF GpioHeld
    <3>2. QED
      BY <2>1, <2>3, <3>1 DEF ScanSource
  <2>4. CASE gpio_config \notin {"keyboard", "custom"}
    BY <2>1, <2>4 DEF ScanSource
  <2>5. QED
    BY <2>2, <2>3, <2>4
<1>4. CASE plugged \notin {"keyboard", "pad", "gpio"}
  BY <1>4 DEF Source
<1>5. QED
  BY <1>1, <1>2, <1>3, <1>4

\* The same for the next state.
LEMMA SourceHeldNext == (Source \subseteq Held)'
  BY SourceHeld, PTL

\* The buttons of a report that is being handled are held, now and after a step.
LEMMA InFlightHeld ==
  plugged = "pad" /\ ~padReport.handled =>
    \A i \in padReport.buttons : EmuKeys(PadButtons[i]) \subseteq Held
<1> SUFFICES ASSUME plugged = "pad", ~padReport.handled, NEW i \in padReport.buttons
             PROVE  EmuKeys(PadButtons[i]) \subseteq Held
  OBVIOUS
<1>1. EmuKeys(PadButtons[i]) \subseteq ButtonKeys(PadButtons[i])
  BY DEF EmuKeys, ButtonKeys
<1> DEFINE F == Assigned(padReport.buttons) \cup MenuHat(padReport.hat) \cup AxisDirs(padReport)
<1>2. PadButtons[i] \in F
  BY DEF Assigned
<1> HIDE DEF F
<1>3. ButtonKeys(PadButtons[i]) \subseteq AllButtonKeys(F)
  BY <1>2, Named
<1>4. AllButtonKeys(F) \subseteq Held
  BY DEF F, Held, UsbInFlight
<1>5. QED
  BY <1>1, <1>3, <1>4

LEMMA InFlightHeldNext ==
  (plugged = "pad" /\ ~padReport.handled =>
     \A i \in padReport.buttons : EmuKeys(PadButtons[i]) \subseteq Held)'
  BY InFlightHeld, PTL

\* A contact of the matrix that is remembered is held, now and after a step.
LEMMA MatrixHeld == plugged = "gpio" => \A k \in scan.matrix : MatrixKeys[k] \in Held
<1> SUFFICES ASSUME plugged = "gpio", NEW k \in scan.matrix PROVE MatrixKeys[k] \in GpioHeld
  BY DEF Held
<1>1. \A K : K \subseteq AllNames(K)
  BY Named
<1>2. QED
  BY <1>1 DEF GpioHeld

LEMMA MatrixHeldNext == (plugged = "gpio" => \A k \in scan.matrix : MatrixKeys[k] \in Held)'
  BY MatrixHeld, PTL

\* A direction that a key moves is one of the names of the key.
LEMMA MoveNamed ==
  ASSUME NEW key, NEW n \in {key, Translated(key, TRUE)}, Takers(n) # {}
  PROVE  LET d == KeysOf(joydevs[PortOf(n)])[n] IN
         PortOf(n) \in Ports /\ d \in Moves /\ (d \in Directions => d \in KeyNames(key))
<1> DEFINE p == PortOf(n)
           d == KeysOf(joydevs[p])[n]
<1>1. p \in Ports /\ n \in DOMAIN KeysOf(joydevs[p])
  BY DEF PortOf, Takers, Ports
<1>2. d \in Moves
  BY <1>1, KeysOfMoves
<1>3. ASSUME d \in Directions PROVE d \in MoveKeys(d)
  BY <1>3 DEF MoveKeys
<1>4. d \in Directions => d \in KeyNames(key)
  <2>1. d \in MovesOf({key, Translated(key, TRUE)}, p)
    BY <1>1 DEF MovesOf
  <2> HIDE DEF d
  <2>2. QED
    BY <1>1, <1>3, <2>1 DEF KeyNames, Taken
<1>5. QED
  BY <1>1, <1>2, <1>4 DEF d

\* The invariant says what the property says.
LEMMA SeesEnough == SeesInvariant => EmulatorSeesKeys
<1> SUFFICES ASSUME SeesInvariant PROVE EmulatorSeesKeys
  OBVIOUS
<1>1. sink.emu \ excused \subseteq Held
  BY SourceHeld DEF SeesInvariant
<1>2. ASSUME ~ui, NEW k \in Typed \ excused, Takers(k) = {} PROVE k \in sink.emu
  <2>1. CASE plugged = "keyboard"
    BY <1>2, <2>1 DEF SeesInvariant, KeyboardSees, DownIsTold, Typed, Down
  <2>2. CASE plugged = "gpio"
    <3>1. PICK j \in scan.matrix : k = MatrixKeys[j]
      BY <1>2, <2>2 DEF Typed
    <3>2. QED
      BY <1>2, <2>2, <3>1 DEF SeesInvariant, GpioSees, MatrixTold
  <2>3. CASE plugged \notin {"keyboard", "gpio"}
    BY <1>2, <2>3 DEF SeesInvariant, Typed
  <2>4. QED
    BY <2>1, <2>2, <2>3
<1>3. ASSUME plugged = "keyboard", NEW p \in Ports, NEW d \in sink.joy[p].dirs \ excused PROVE d \in Held
  <2>1. PICK k \in Down :
          Takers(k) # {} /\ PortOf(k) = p /\ KeysOf(joydevs[p])[k] = d /\ d \in Directions
    BY <1>3 DEF SeesInvariant, KeyboardSees, DirectionsFromKeys
  <2>2. d \in KeyNames(k)
    BY <2>1, MoveNamed
  <2>3. QED
    BY <1>3, <2>1, <2>2, Named DEF Held, UsbHeld, Down
<1>4. QED
  BY <1>1, <1>2, <1>3 DEF EmulatorSeesKeys

\* What the emulator has is right after a step if it was told right.
LEMMA EmuNext ==
  ASSUME NEW new, Account(new), SinkShape(sink)', sink'.capture \in BOOLEAN,
         sink'.emu \ (excused \cup new) \subseteq Source',
         ui' => sink'.emu \subseteq excused \cup new,
         ~ui' => \A k \in sink'.emu \ (excused \cup new) : Takers(k)' = {}
  PROVE  EmuRight(sink)' /\ sink'.emu \ excused' \subseteq Source'
<1>1. \A k \in sink'.emu : k \in excused \cup new => k \in excused'
  BY Accounted
<1>2. EmuRight(sink)'
  BY <1>1 DEF EmuRight
<1>3. QED
  BY <1>1, <1>2

\* Ports and takers change with the menu and the assignment only.
LEMMA QuietTakers ==
  ASSUME UNCHANGED <<ui, joydevs>>
  PROVE  /\ \A k : /\ Takers(k)' = Takers(k)
                   /\ PortOf(k)' = PortOf(k)
                   /\ KeyNames(k)' = KeyNames(k)
         /\ \A K : AllNames(K)' = AllNames(K)
<1>1. \A k : Takers(k)' = Takers(k)
  BY DEF Takers, Ports
<1>2. \A k : PortOf(k)' = PortOf(k)
  BY <1>1 DEF PortOf
<1>3. \A k : KeyNames(k)' = KeyNames(k)
  BY DEF KeyNames, Taken, MovesOf
<1>4. \A K : AllNames(K)' = AllNames(K)
  BY <1>3 DEF AllNames
<1>5. QED
  BY <1>1, <1>2, <1>3, <1>4

\* The keyboard's handler tells one key, under its own name or translated.
LEMMA KeyTold ==
  ASSUME SeesInvariant, plugged = "keyboard", NEW key, NEW n \in {key, Translated(key, TRUE)},
         NEW press \in BOOLEAN, NEW new, Account(new), UNCHANGED <<ui, joydevs>>,
         n # key /\ ~ui => KeyNames(key) \subseteq excused,
         sink.capture \/ (n = "F12" /\ ~press /\ Takers(n) # {}) => KeyNames(key) \subseteq new,
         Down' = IF press THEN Down \cup {key} ELSE Down \ {key},
         sink' = Key(Unpressed(sink), n, press)
  PROVE  /\ EmuRight(sink)' /\ sink'.emu \ excused' \subseteq Source'
         /\ DownIsTold' /\ DirectionsFromKeys'
<1> DEFINE s == Unpressed(sink)
           ex == excused \cup new
           port == PortOf(n)
           taken == TakenBy(n, press)
           move == KeysOf(joydevs[port])[n]
<1>1. /\ SinkShape(s) /\ s.emu = sink.emu /\ s.joy = sink.joy /\ s.capture = sink.capture
      /\ s.capture \in BOOLEAN /\ ui \in BOOLEAN
  BY DEF SeesInvariant, EmuRight, SinkShape, Unpressed
<1>2. /\ sink.emu \ excused \subseteq Down
      /\ ui => sink.emu \subseteq excused
      /\ ~ui => \A k \in sink.emu \ excused : Takers(k) = {}
      /\ DownIsTold /\ DirectionsFromKeys
  BY DEF SeesInvariant, EmuRight, KeyboardSees, Source
<1> HIDE DEF s
<1>3. /\ SinkShape(sink') /\ sink'.capture \in BOOLEAN
      /\ ui \/ s.capture \/ taken # {} => sink'.emu = sink.emu
      /\ ~ui /\ ~s.capture /\ taken = {} => sink'.emu = IF press THEN sink.emu \cup {n} ELSE sink.emu \ {n}
      /\ ui \/ s.capture \/ taken = {} => \A p \in Ports : sink'.joy[p].dirs = sink.joy[p].dirs
      /\ ~ui /\ ~s.capture /\ taken # {} =>
           /\ \A p \in Ports \ {port} : sink'.joy[p].dirs = sink.joy[p].dirs
           /\ sink'.joy[port].dirs = Moved(sink.joy[port].dirs, move, press)
  <2>1. sink' = Key(s, n, press)
    BY DEF s
  <2>2. KeyDoes(s, sink', n, press)
    BY <1>1, <2>1, KeySink
  <2>3. QED
    BY <1>1, <2>2, Zenon DEF KeyDoes, port, move, taken
<1>4. /\ Takers(n) # {} => port \in Ports /\ move \in Moves /\ (move \in Directions => move \in KeyNames(key))
      /\ \A k : k \in KeyNames(k)
      /\ n \in KeyNames(key)
  BY MoveNamed, Named DEF KeyNames
<1>5. s.capture => KeyNames(key) \subseteq ex
  BY <1>1
<1>6. taken = Takers(n) \/ (taken = {} /\ ~press /\ KeyNames(key) \subseteq ex)
  BY DEF TakenBy
<1>7. n # key /\ ~ui => KeyNames(key) \subseteq ex
  OBVIOUS
<1>8. \A k : Takers(k)' = Takers(k) /\ PortOf(k)' = PortOf(k)
  BY QuietTakers
<1>9. Source' = Down' /\ Down' \subseteq Held'
  BY SourceHeldNext, Accounted DEF Source
<1>10. \A k : k \in ex /\ (k \in Down' \/ \E p \in Ports : sink'.joy[p].dirs # {}) => k \in excused'
  BY <1>9, Accounted
<1> HIDE DEF ex, port, move, taken
<1>11. excused \subseteq ex
  BY DEF ex
<1>12. EmuRight(sink)' /\ sink'.emu \ excused' \subseteq Source'
  <2>1. sink'.emu \ ex \subseteq Down'
    BY <1>1, <1>2, <1>3, <1>4, <1>5, <1>7, <1>11, <1>6
  <2>2. ui => sink'.emu \subseteq ex
    BY <1>2, <1>3, <1>11
  <2>3. ~ui => \A k \in sink'.emu \ ex : Takers(k) = {}
    BY <1>1, <1>2, <1>3, <1>11, <1>6
  <2>4. QED
    BY <1>3, <1>8, <1>9, <2>1, <2>2, <2>3, EmuNext DEF ex
<1>13. DownIsTold'
  <2> SUFFICES ASSUME ~ui', NEW k \in Down' \ excused', Takers(k)' = {} PROVE k \in sink'.emu
    BY DEF DownIsTold
  <2>1. ~ui /\ Takers(k) = {} /\ k \notin ex
    BY <1>8, <1>10
  <2>2. k # key => k \in sink.emu
    BY <1>2, <1>11, <2>1 DEF DownIsTold
  <2>3. QED
    BY <1>1, <1>3, <1>4, <1>5, <1>7, <1>6, <2>1, <2>2
<1>14. DirectionsFromKeys'
  <2> SUFFICES ASSUME NEW p \in Ports, NEW d \in sink'.joy[p].dirs \ excused'
               PROVE  /\ ~ui' /\ d \in Directions
                      /\ \E k \in Down' : Takers(k)' # {} /\ PortOf(k)' = p /\ KeysOf(joydevs'[p])[k] = d
    BY DEF DirectionsFromKeys
  <2>1. d \notin ex
    BY <1>10
  <2>2. CASE d \in sink.joy[p].dirs
    <3>1. PICK k \in Down : ~ui /\ d \in Directions /\ Takers(k) # {} /\ PortOf(k) = p /\ KeysOf(joydevs[p])[k] = d
      BY <1>2, <1>11, <2>1, <2>2 DEF DirectionsFromKeys
    <3>2. CASE k \in Down'
      BY <1>8, <3>1, <3>2
    <3>3. CASE k = key /\ ~press
      <4>1. d \in KeyNames(key)
        BY <3>1, <3>3, MoveNamed
      <4>2. ~s.capture /\ n = key
        BY <1>5, <1>7, <2>1, <3>1, <4>1
      <4>3. taken # {}
        BY <1>6, <2>1, <3>1, <3>3, <4>1, <4>2
      <4>4. sink'.joy[p].dirs = Moved(sink.joy[p].dirs, d, FALSE)
        BY <1>3, <3>1, <3>3, <4>2, <4>3 DEF port, move
      <4>5. d \notin sink'.joy[p].dirs
        BY <3>1, <4>4 DEF Moved, Directions
      <4>6. QED
        BY <4>5
    <3>4. QED
      BY <3>1, <3>2, <3>3
  <2>3. CASE d \notin sink.joy[p].dirs
    <3>1. ~ui /\ ~s.capture /\ taken # {} /\ p = port /\ Takers(n) # {}
      BY <1>1, <1>3, <1>6, <2>3
    <3>2. d \in Moved(sink.joy[port].dirs, move, press)
      BY <1>3, <3>1
    <3>3. d = move /\ press /\ d \notin {"potx", "poty"}
      BY <2>3, <3>1, <3>2 DEF Moved
    <3>4. d \in Directions
      BY <1>4, <3>1, <3>3 DEF Moves
    <3>5. n = key
      BY <1>4, <1>7, <2>1, <3>1, <3>3, <3>4
    <3>6. key \in Down'
      BY <3>3
    <3>7. QED
      BY <1>8, <3>1, <3>3, <3>4, <3>5, <3>6 DEF port, move
  <2>4. QED
    BY <2>2, <2>3
<1>15. QED
  BY <1>12, <1>13, <1>14

\* Sequences over a set.
LEMMA SeqGrows ==
  ASSUME NEW E
  PROVE  /\ <<>> \in Seq(E)
         /\ \A q \in Seq(E) : \A e \in E : Append(q, e) \in Seq(E)
         /\ \A q \in Seq(E) : q # <<>> => Head(q) \in E /\ Tail(q) \in Seq(E)
         /\ \A q \in Seq(E) : q # <<>> => \A i \in DOMAIN Tail(q) : \E j \in DOMAIN q : Tail(q)[i] = q[j]
         /\ \A q \in Seq(E) : q # <<>> => \E j \in DOMAIN q : Head(q) = q[j]
  OBVIOUS

\* What changed are keys of the keyboard.
LEMMA ChangedSeq ==
  ASSUME NEW keys \in Seq(STRING), NEW old, NEW new
  PROVE  Changed(keys, old, new) \in Seq(Elements(keys))
<1> DEFINE n == Len(keys)
           E == Elements(keys)
<1>1. n \in Nat /\ \A i \in 1 .. n : keys[i] \in E
  BY DEF Elements
<1>2. PICK f : /\ f[0] = <<>>
               /\ \A i \in 1 .. n : f[i] = IF (keys[i] \in new) = (keys[i] \in old) THEN f[i - 1] ELSE Append(f[i - 1], keys[i])
               /\ Changed(keys, old, new) = f[n]
  BY <1>1, ChangedTurns
<1> DEFINE T == {i \in 0 .. n : f[i] \in Seq(E)}
<1> HIDE DEF n, E
<1>3. n \in T
  <2>1. 0 \in T
    <3>1. f[0] \in Seq(E)
      BY <1>2, SeqGrows, Zenon
    <3>2. QED
      BY <1>1, <3>1
  <2>2. ASSUME NEW i \in 1 .. n, i - 1 \in T PROVE i \in T
    <3>1. f[i - 1] \in Seq(E) /\ keys[i] \in E
      BY <1>1, <2>2
    <3>2. f[i] \in {f[i - 1], Append(f[i - 1], keys[i])}
      BY <1>2
    <3>3. f[i] \in Seq(E)
      BY <3>1, <3>2, SeqGrows, Zenon
    <3>4. QED
      BY <1>1, <3>3
  <2> HIDE DEF T
  <2>3. T \in SUBSET (0 .. n)
    BY DEF T
  <2>4. QED
    BY <1>1, <2>1, <2>2, <2>3, Induct
<1>4. QED
  BY <1>2, <1>3 DEF E

\* Nothing is told.
LEMMA KeyboardQuiet ==
  ASSUME SeesInvariant, plugged = "keyboard", NEW new, Account(new),
         UNCHANGED <<ui, joydevs>>, Down' = Down, sink' = Unpressed(sink)
  PROVE  /\ EmuRight(sink)' /\ sink'.emu \ excused' \subseteq Source'
         /\ DownIsTold' /\ DirectionsFromKeys'
<1> DEFINE ex == excused \cup new
<1>1. SinkShape(sink') /\ sink'.emu = sink.emu /\ sink'.joy = sink.joy /\ sink'.capture = sink.capture
  BY DEF SeesInvariant, EmuRight, SinkShape, Unpressed
<1>2. /\ sink.emu \ excused \subseteq Down
      /\ ui => sink.emu \subseteq excused
      /\ ~ui => \A k \in sink.emu \ excused : Takers(k) = {}
      /\ DownIsTold /\ DirectionsFromKeys /\ ui \in BOOLEAN /\ sink.capture \in BOOLEAN
  BY DEF SeesInvariant, EmuRight, KeyboardSees, Source
<1>3. Down' = Down
  OBVIOUS
<1>4. \A k : Takers(k)' = Takers(k) /\ PortOf(k)' = PortOf(k)
  BY QuietTakers
<1>5. Source' = Down' /\ Down' \subseteq Held'
  BY SourceHeldNext, Accounted DEF Source
<1>6. \A k : k \in ex /\ (k \in Down' \/ \E p \in Ports : sink'.joy[p].dirs # {}) => k \in excused'
  BY <1>5, Accounted
<1> HIDE DEF ex
<1>7. excused \subseteq ex
  BY DEF ex
<1>8. EmuRight(sink)' /\ sink'.emu \ excused' \subseteq Source'
  <2>1. sink'.emu \ ex \subseteq Down'
    BY <1>1, <1>2, <1>3, <1>7
  <2>2. ui => sink'.emu \subseteq ex
    BY <1>1, <1>2, <1>7
  <2>3. ~ui => \A k \in sink'.emu \ ex : Takers(k) = {}
    BY <1>1, <1>2, <1>7
  <2>4. QED
    BY <1>1, <1>2, <1>4, <1>5, <2>1, <2>2, <2>3, EmuNext DEF ex
<1>9. DownIsTold'
  BY <1>1, <1>2, <1>3, <1>4, <1>6, <1>7 DEF DownIsTold
<1>10. DirectionsFromKeys'
  <2> SUFFICES ASSUME NEW p \in Ports, NEW d \in sink'.joy[p].dirs \ excused'
               PROVE  /\ ~ui' /\ d \in Directions
                      /\ \E k \in Down' : Takers(k)' # {} /\ PortOf(k)' = p /\ KeysOf(joydevs'[p])[k] = d
    BY DEF DirectionsFromKeys
  <2>1. d \in sink.joy[p].dirs \ excused
    BY <1>1, <1>6, <1>7
  <2>2. PICK k \in Down : ~ui /\ d \in Directions /\ Takers(k) # {} /\ PortOf(k) = p /\ KeysOf(joydevs[p])[k] = d
    BY <1>2, <2>1 DEF DirectionsFromKeys
  <2>3. QED
    BY <1>3, <1>4, <2>2
<1>11. QED
  BY <1>8, <1>9, <1>10

\* What is still to be told stays excused.
LEMMA TodoStays ==
  ASSUME SeesInvariant, plugged = "keyboard", NEW new, Account(new), UNCHANGED <<ui, joydevs>>,
         report'.stage = report.stage, report'.seen = report.seen,
         Elements(report.todo)' \subseteq Elements(report.todo)
  PROVE  TodoExcused'
<1> SUFFICES ASSUME report.stage = "keys", report.seen # ui
             PROVE  AllNames(Elements(report.todo))' \subseteq excused'
  BY DEF TodoExcused
<1>1. AllNames(Elements(report.todo)) \subseteq excused
  BY DEF SeesInvariant, KeyboardSees, TodoExcused
<1>2. AllNames(Elements(report.todo))' = AllNames(Elements(report.todo)')
  BY QuietTakers DEF AllNames
<1>3. AllNames(Elements(report.todo)') \subseteq AllNames(Elements(report.todo))
  BY DEF AllNames
<1>4. AllNames(Elements(report.todo))' \subseteq Held'
  BY Accounted DEF Held, UsbInFlight, Elements
<1>5. QED
  BY <1>1, <1>2, <1>3, <1>4, Accounted

\* A report arrives, or a stage of its handling begins.
LEMMA ReportTypes ==
  ASSUME SeesInvariant, plugged = "keyboard",
         \/ \E m, k : KeyReport(m, k)
         \/ ReadUi
         \/ KeysDone
  PROVE  /\ KeyboardTypes' /\ report'.stage \in {"idle", "mods", "keys"}
         /\ UNCHANGED keyboard
         /\ sink' = Unpressed(sink)
         /\ report'.stage = "keys" => report'.seen = ui
<1>1. KeyboardTypes /\ ui \in BOOLEAN
  BY DEF SeesInvariant, KeyboardSees
<1>2. ASSUME NEW m, NEW k, KeyReport(m, k) PROVE KeyboardTypes' /\ report'.stage = "mods"
  <2>1. Changed(Modifiers, keyboard.mods, m) \in Seq(Elements(Modifiers))
    BY ChangedSeq, KeyAssumption
  <2>2. report' = [todo |-> Changed(Modifiers, keyboard.mods, m), stage |-> "mods", seen |-> FALSE, mods |-> m, keys |-> k]
        /\ UNCHANGED keyboard
    BY <1>2 DEF KeyReport
  <2> HIDE DEF KeyReport
  <2>3. QED
    BY <1>1, <2>1, <2>2 DEF KeyboardTypes, Elements
<1>3. CASE ReadUi
  <2>1. Changed(UsbKeys, keyboard.keys, report.keys) \in Seq(Elements(UsbKeys))
    BY ChangedSeq, KeyAssumption
  <2>2. report' = [report EXCEPT !.stage = "keys", !.seen = ui, !.todo = Changed(UsbKeys, keyboard.keys, report.keys)]
        /\ UNCHANGED keyboard
    BY <1>3 DEF ReadUi
  <2>3. DOMAIN report' = DOMAIN report /\ report'.stage = "keys" /\ report'.seen = ui
        /\ report'.todo = Changed(UsbKeys, keyboard.keys, report.keys)
    BY <1>1, <2>2 DEF KeyboardTypes
  <2>4. KeyboardTypes'
    BY <1>1, <2>1, <2>2, <2>3 DEF KeyboardTypes, Elements
  <2>5. QED
    BY <1>3, <2>3, <2>4 DEF ReadUi
<1>4. CASE KeysDone
  <2>1. report' = Idle /\ UNCHANGED keyboard
    BY <1>4 DEF KeysDone
  <2>2. KeyboardTypes' /\ report'.stage = "idle"
    BY <1>1, <2>1 DEF KeyboardTypes, Elements, Idle
  <2>3. QED
    BY <1>4, <2>1, <2>2 DEF KeysDone
<1>5. QED
  BY <1>2, <1>3, <1>4 DEF KeyReport

\* A modifier's flag, the modifier, and one key.
LEMMA FlagTypes ==
  ASSUME SeesInvariant, plugged = "keyboard", FlagShift
  PROVE  /\ KeyboardTypes' /\ report'.stage = "shift"
         /\ keyboard'.keys = keyboard.keys /\ keyboard'.mods = keyboard.mods
         /\ report'.todo = report.todo /\ report'.mods = report.mods
         /\ Down' = Down /\ sink' = Unpressed(sink)
<1> DEFINE shifts == IF ui THEN IF Head(report.todo) \in report.mods THEN keyboard.shifts \cup {Head(report.todo)}
                                ELSE keyboard.shifts \ {Head(report.todo)}
                     ELSE keyboard.shifts
<1>1. KeyboardTypes /\ report.stage = "mods"
  BY DEF SeesInvariant, KeyboardSees, FlagShift
<1>2. keyboard' = [keyboard EXCEPT !.shifts = shifts] /\ report' = [report EXCEPT !.stage = "shift"]
  BY Zenon DEF FlagShift
<1> HIDE DEF shifts
<1>3. /\ DOMAIN keyboard' = DOMAIN keyboard /\ keyboard'.keys = keyboard.keys /\ keyboard'.mods = keyboard.mods
      /\ DOMAIN report' = DOMAIN report /\ report'.todo = report.todo /\ report'.mods = report.mods
      /\ report'.seen = report.seen /\ report'.stage = "shift"
  BY <1>1, <1>2 DEF KeyboardTypes
<1>4. KeyboardTypes'
  BY <1>1, <1>3 DEF KeyboardTypes, Elements
<1>5. Down' = Down
  BY <1>3 DEF Down
<1>6. QED
  BY <1>3, <1>4, <1>5 DEF FlagShift

LEMMA ModifierTypes ==
  ASSUME SeesInvariant, plugged = "keyboard", CompareModifier
  PROVE  /\ KeyboardTypes' /\ report'.stage = "mods"
         /\ Head(report.todo) # "F12"
         /\ \E press \in BOOLEAN :
              /\ Down' = IF press THEN Down \cup {Head(report.todo)} ELSE Down \ {Head(report.todo)}
              /\ sink' = Key(Unpressed(sink), Head(report.todo), press)
<1> DEFINE key == Head(report.todo)
           press == key \in report.mods
<1>1. KeyboardTypes /\ report.stage \in {"mods", "shift"} /\ report.todo # <<>>
  BY DEF SeesInvariant, KeyboardSees, CompareModifier
<1>2. report.todo \in Seq(Elements(Modifiers))
  BY <1>1 DEF KeyboardTypes
<1>3. key \in Elements(Modifiers) /\ Tail(report.todo) \in Seq(Elements(Modifiers))
  BY <1>1, <1>2, SeqGrows
<1>4. /\ keyboard' = [keyboard EXCEPT !.mods = IF press THEN @ \cup {key} ELSE @ \ {key}]
      /\ sink' = Key(Unpressed(sink), key, press)
      /\ report' = [report EXCEPT !.todo = Tail(@), !.stage = "mods"]
  BY Zenon DEF CompareModifier
<1> HIDE DEF key, press
<1>5. /\ DOMAIN keyboard' = DOMAIN keyboard /\ keyboard'.keys = keyboard.keys
      /\ keyboard'.mods = IF press THEN keyboard.mods \cup {key} ELSE keyboard.mods \ {key}
      /\ DOMAIN report' = DOMAIN report /\ report'.todo = Tail(report.todo) /\ report'.stage = "mods"
      /\ report'.seen = report.seen
  BY <1>1, <1>4 DEF KeyboardTypes
<1>6. KeyboardTypes'
  <2>1. keyboard'.mods \subseteq Elements(Modifiers) /\ keyboard'.keys \subseteq Elements(UsbKeys)
    BY <1>1, <1>3, <1>5 DEF KeyboardTypes
  <2>2. QED
    BY <1>1, <1>3, <1>5, <2>1 DEF KeyboardTypes, Elements
<1>7. key \notin keyboard.keys
  <2>1. \A k \in Elements(UsbKeys) : k \notin Elements(Modifiers)
    BY KeyAssumption DEF Elements
  <2>2. QED
    BY <1>1, <1>3, <2>1 DEF KeyboardTypes
<1>8. Down' = IF press THEN Down \cup {key} ELSE Down \ {key}
  BY <1>5, <1>7 DEF Down
<1>9. press \in BOOLEAN
  BY DEF press
<1>10. key # "F12"
  BY <1>3, KeyAssumption DEF Elements
<1>11. QED
  BY <1>1, <1>4, <1>5, <1>6, <1>8, <1>9, <1>10 DEF key

\* What the handler's loop does with the first of the changed keys.
LEMMA KeyTypes ==
  ASSUME SeesInvariant, plugged = "keyboard", CompareKey
  PROVE  /\ KeyboardTypes' /\ UNCHANGED <<report.stage, report.seen>>
         /\ Head(report.todo) \in Elements(report.todo) /\ Elements(report.todo)' \subseteq Elements(report.todo)
         /\ \E press \in BOOLEAN :
              /\ press <=> Head(report.todo) \in report.keys
              /\ Down' = IF press THEN Down \cup {Head(report.todo)} ELSE Down \ {Head(report.todo)}
              /\ sink' = Key(Unpressed(sink), Translated(Head(report.todo), report.seen /\ keyboard.shifts # {}), press)
<1> DEFINE key == Head(report.todo)
           press == key \in report.keys
           n == Translated(key, report.seen /\ keyboard.shifts # {})
<1>1. KeyboardTypes /\ report.stage = "keys" /\ report.todo # <<>>
  BY DEF SeesInvariant, KeyboardSees, CompareKey
<1>2. report.todo \in Seq(Elements(UsbKeys))
  BY <1>1 DEF KeyboardTypes
<1>3. key \in Elements(UsbKeys) /\ Tail(report.todo) \in Seq(Elements(UsbKeys))
  BY <1>1, <1>2, SeqGrows
<1>4. /\ keyboard' = [keyboard EXCEPT !.keys = IF press THEN @ \cup {key} ELSE @ \ {key}]
      /\ sink' = Key(Unpressed(sink), n, press)
      /\ report' = [report EXCEPT !.todo = Tail(@)]
  BY Zenon DEF CompareKey
<1> HIDE DEF key, press, n
<1>5. /\ DOMAIN keyboard' = DOMAIN keyboard /\ keyboard'.mods = keyboard.mods
      /\ keyboard'.keys = IF press THEN keyboard.keys \cup {key} ELSE keyboard.keys \ {key}
      /\ DOMAIN report' = DOMAIN report /\ report'.todo = Tail(report.todo) /\ report'.stage = report.stage
      /\ report'.seen = report.seen
  BY <1>1, <1>4 DEF KeyboardTypes
<1>6. KeyboardTypes'
  <2>1. keyboard'.mods \subseteq Elements(Modifiers) /\ keyboard'.keys \subseteq Elements(UsbKeys)
    BY <1>1, <1>3, <1>5 DEF KeyboardTypes
  <2>2. QED
    BY <1>1, <1>3, <1>5, <2>1 DEF KeyboardTypes, Elements
<1>7. key \notin keyboard.mods
  <2>1. \A k \in Elements(UsbKeys) : k \notin Elements(Modifiers)
    BY KeyAssumption DEF Elements
  <2>2. QED
    BY <1>1, <1>3, <2>1 DEF KeyboardTypes
<1>8. Down' = IF press THEN Down \cup {key} ELSE Down \ {key}
  BY <1>5, <1>7 DEF Down
<1>9. press \in BOOLEAN /\ (press <=> key \in report.keys)
  BY DEF press
<1>10. key \in Elements(report.todo) /\ Elements(report.todo)' \subseteq Elements(report.todo)
  <2>1. /\ \E j \in DOMAIN report.todo : key = report.todo[j]
        /\ \A i \in DOMAIN Tail(report.todo) : \E j \in DOMAIN report.todo : Tail(report.todo)[i] = report.todo[j]
    BY <1>1, <1>2, SeqGrows DEF key
  <2>2. QED
    BY <1>5, <2>1 DEF Elements
<1>11. QED
  BY <1>1, <1>4, <1>5, <1>6, <1>8, <1>9, <1>10 DEF key, n

\* The keyboard: a report, its modifiers, its keys.
LEMMA KeyboardSteps == SeesInvariant /\ KeyboardStep => SeesInvariant'
<1> SUFFICES ASSUME SeesInvariant, KeyboardStep PROVE SeesInvariant'
  OBVIOUS
<1> DEFINE named == IF Untold(report) THEN KeyNames(Head(report.todo)) ELSE {}
           new == ShiftMoved(keyboard.shifts, keyboard'.shifts) \cup named
<1>1. plugged = "keyboard" /\ UNCHANGED <<ui, joydevs>> /\ Account(new)
  BY DEF KeyboardStep, Quiet
<1>2. plugged' = "keyboard" /\ ui' \in BOOLEAN /\ ui \in BOOLEAN
  BY <1>1 DEF SeesInvariant, Account
<1> HIDE DEF new
<1>3. SUFFICES /\ EmuRight(sink)' /\ sink'.emu \ excused' \subseteq Source'
               /\ DownIsTold' /\ DirectionsFromKeys' /\ KeyboardTypes' /\ TodoExcused'
  BY <1>2 DEF SeesInvariant, KeyboardSees
<1>4. \/ (\E m, k : KeyReport(m, k)) \/ ReadUi \/ KeysDone
      \/ FlagShift \/ CompareModifier \/ CompareKey
  BY DEF KeyboardStep
<1>5. CASE (\E m, k : KeyReport(m, k)) \/ ReadUi \/ KeysDone
  <2>1. /\ KeyboardTypes' /\ report'.stage \in {"idle", "mods", "keys"}
        /\ UNCHANGED keyboard /\ sink' = Unpressed(sink)
        /\ report'.stage = "keys" => report'.seen = ui
    BY <1>1, <1>5, ReportTypes
  <2>2. Down' = Down
    BY <2>1 DEF Down
  <2>3. TodoExcused'
    BY <1>1, <2>1 DEF TodoExcused
  <2>4. QED
    BY <1>1, <2>1, <2>3, <2>2, KeyboardQuiet
<1>6. CASE FlagShift
  <2>1. KeyboardTypes' /\ report'.stage = "shift" /\ Down' = Down /\ sink' = Unpressed(sink)
    BY <1>1, <1>6, FlagTypes
  <2>2. TodoExcused'
    BY <2>1 DEF TodoExcused
  <2>3. QED
    BY <1>1, <2>1, <2>2, KeyboardQuiet
<1>7. CASE CompareModifier
  <2>1. KeyboardTypes' /\ report'.stage = "mods" /\ Head(report.todo) # "F12"
    BY <1>1, <1>7, ModifierTypes
  <2>2. PICK press \in BOOLEAN :
          /\ Down' = IF press THEN Down \cup {Head(report.todo)} ELSE Down \ {Head(report.todo)}
          /\ sink' = Key(Unpressed(sink), Head(report.todo), press)
    BY <1>1, <1>7, ModifierTypes
  <2>3. sink.capture => KeyNames(Head(report.todo)) \subseteq new
    BY <1>7 DEF new, CompareModifier, Untold
  <2>4. TodoExcused'
    BY <2>1 DEF TodoExcused
  <2> DEFINE key == Head(report.todo)
  <2> HIDE DEF key
  <2>5. key \in {key, Translated(key, TRUE)}
    OBVIOUS
  <2>6. /\ EmuRight(sink)' /\ sink'.emu \ excused' \subseteq Source'
        /\ DownIsTold' /\ DirectionsFromKeys'
    BY <1>1, <2>1, <2>2, <2>3, <2>5, KeyTold DEF key
  <2>7. QED
    BY <2>1, <2>4, <2>6
<1>8. CASE CompareKey
  <2> DEFINE key == Head(report.todo)
             n == Translated(key, report.seen /\ keyboard.shifts # {})
  <2>1. /\ KeyboardTypes' /\ UNCHANGED <<report.stage, report.seen>>
        /\ key \in Elements(report.todo) /\ Elements(report.todo)' \subseteq Elements(report.todo)
    BY <1>1, <1>8, KeyTypes
  <2>2. PICK press \in BOOLEAN :
          /\ press <=> key \in report.keys
          /\ Down' = IF press THEN Down \cup {key} ELSE Down \ {key}
          /\ sink' = Key(Unpressed(sink), n, press)
    BY <1>1, <1>8, KeyTypes
  <2>3. n \in {key, Translated(key, TRUE)} /\ (n = "F12" => key = "F12")
    BY DEF Translated
  <2>4. sink.capture \/ (n = "F12" /\ ~press /\ Takers(n) # {}) => KeyNames(key) \subseteq new
    BY <1>8, <2>2, <2>3 DEF new, CompareKey, Untold
  <2>5. n # key /\ ~ui => KeyNames(key) \subseteq excused
    <3>1. SUFFICES ASSUME n # key, ~ui PROVE KeyNames(key) \subseteq excused
      OBVIOUS
    <3>2. report.seen
      BY <3>1, <1>1 DEF Translated, SeesInvariant, KeyboardSees, KeyboardTypes
    <3>3. report.seen # ui /\ report.stage = "keys"
      BY <1>8, <3>1, <3>2 DEF CompareKey
    <3>4. AllNames(Elements(report.todo)) \subseteq excused
      BY <1>1, <3>3 DEF SeesInvariant, KeyboardSees, TodoExcused
    <3>5. QED
      BY <2>1, <3>4, Named
  <2> HIDE DEF key, n
  <2>6. /\ EmuRight(sink)' /\ sink'.emu \ excused' \subseteq Source'
        /\ DownIsTold' /\ DirectionsFromKeys'
    BY <1>1, <2>2, <2>4, <2>3, <2>5, KeyTold
  <2>7. TodoExcused'
    BY <1>1, <2>1, TodoStays
  <2>8. QED
    BY <2>1, <2>6, <2>7
<1>9. QED
  BY <1>4, <1>5, <1>7, <1>8, <1>6

\* The menu opens or closes, or changes what the handlers read: all that is held
\* is excused.
LEMMA HeldSame ==
  ASSUME UNCHANGED <<joydevs, plugged, usbVars, gpioVars>>
  PROVE  Held' = Held
  BY DEF Held, UsbHeld, UsbInFlight, GpioHeld, AllNames, KeyNames, Taken, MovesOf, AllButtonKeys, ButtonKeys, PinKeys, usbVars, gpioVars

\* A step that excuses everything held leaves nothing unexcused.
LEMMA EmuChanged ==
  ASSUME SeesInvariant, NEW new, Account(new), Held \cup Held' \subseteq new,
         SinkShape(sink)', sink'.capture \in BOOLEAN, sink'.emu = sink.emu
  PROVE  /\ EmuRight(sink)' /\ sink'.emu \subseteq excused'
         /\ Held' \subseteq excused'
<1>1. Held' \subseteq excused'
  BY Accounted
<1>2. sink.emu \ excused \subseteq Held
  BY SourceHeld DEF SeesInvariant
<1>3. sink'.emu \subseteq excused'
  BY <1>2, Accounted
<1>4. EmuRight(sink)'
  BY <1>3 DEF EmuRight
<1>5. QED
  BY <1>1, <1>3, <1>4

\* The menu changes something while a keyboard is plugged in.
LEMMA KeyboardChanged ==
  ASSUME SeesInvariant, plugged = "keyboard", NEW new, Account(new), Held \cup Held' \subseteq new,
         UNCHANGED <<keyboard, report>>, ui' \in BOOLEAN, sink'.joy = sink.joy,
         SinkShape(sink)', sink'.capture \in BOOLEAN, sink'.emu = sink.emu
  PROVE  SeesInvariant'
<1>1. plugged' = plugged /\ Held' \subseteq excused' /\ EmuRight(sink)' /\ sink'.emu \subseteq excused'
  BY EmuChanged, Accounted
<1>2. KeyboardTypes'
  BY DEF SeesInvariant, KeyboardSees, KeyboardTypes, Elements
<1>3. TodoExcused'
  BY <1>1 DEF TodoExcused, Held, UsbInFlight, Elements
<1>4. DownIsTold'
  <2>1. Down' \subseteq Held'
    BY <1>1, SourceHeldNext DEF Source
  <2>2. QED
    BY <1>1, <2>1 DEF DownIsTold
<1>5. DirectionsFromKeys'
  <2> SUFFICES ASSUME NEW p \in Ports, NEW d \in sink'.joy[p].dirs PROVE d \in excused'
    BY DEF DirectionsFromKeys
  <2>1. SUFFICES ASSUME d \notin excused PROVE d \in Held
    BY Accounted
  <2>2. PICK k \in Down : Takers(k) # {} /\ PortOf(k) = p /\ KeysOf(joydevs[p])[k] = d /\ d \in Directions
    BY <2>1 DEF SeesInvariant, KeyboardSees, DirectionsFromKeys
  <2>3. d \in KeyNames(k)
    BY <2>2, MoveNamed
  <2>4. QED
    BY <2>2, <2>3, Named DEF Held, UsbHeld, Down
<1>6. QED
  BY <1>1, <1>2, <1>3, <1>4, <1>5 DEF SeesInvariant, KeyboardSees

\* What the emulator has, excused keys apart, after a key.
KeyLeaves(s, t, keys, press) ==
  /\ EmuRight(t) /\ ~t.capture
  /\ t.emu \ excused \subseteq IF press THEN s.emu \cup keys ELSE s.emu \ keys

\* What a key leaves in the emulator when the next key is not captured.
LEMMA KeyEmu ==
  ASSUME ui \in BOOLEAN, NEW s, EmuRight(s), ~s.capture, NEW key, NEW press \in BOOLEAN
  PROVE  KeyLeaves(s, Key(s, key, press), {key}, press)
<1> DEFINE t == Key(s, key, press)
<1>1. KeyDoes(s, t, key, press)
  BY KeySink DEF EmuRight
<1> HIDE DEF t
<1>2. SinkShape(t) /\ t.capture \in BOOLEAN /\ ~t.capture
  BY <1>1 DEF KeyDoes
<1>3. CASE ui
  BY <1>1, <1>2, <1>3 DEF KeyDoes, KeyLeaves, EmuRight, t
<1>4. CASE ~ui /\ TakenBy(key, press) = {}
  <2>1. t.emu = IF press THEN s.emu \cup {key} ELSE s.emu \ {key}
    BY <1>1, <1>4 DEF KeyDoes
  <2>2. EmuRight(t)
    BY <1>2, <1>4, <2>1 DEF EmuRight, TakenBy
  <2>3. QED
    BY <1>2, <2>1, <2>2 DEF KeyLeaves, t
<1>5. CASE ~ui /\ TakenBy(key, press) # {}
  <2>1. t.emu = s.emu
    BY <1>1, <1>5 DEF KeyDoes
  <2>2. EmuRight(t) /\ key \notin t.emu \ excused
    BY <1>2, <1>5, <2>1 DEF EmuRight, TakenBy
  <2>3. QED
    BY <1>2, <2>1, <2>2 DEF KeyLeaves, t
<1>6. QED
  BY <1>3, <1>4, <1>5

\* Other changes of the sink.
LEMMA SameEmu ==
  ASSUME NEW s, EmuRight(s), NEW t, SinkShape(t), t.emu = s.emu, t.capture = s.capture
  PROVE  EmuRight(t)
  BY DEF EmuRight

\* Keys of the menu leave the emulator as it is,
LEMMA UiKeyEmu ==
  ASSUME NEW s, EmuRight(s), NEW key, NEW press
  PROVE  EmuRight(UiKey(s, key, press)) /\ UiKey(s, key, press).emu = s.emu /\ UiKey(s, key, press).capture = s.capture
<1>1. SinkShape(s) /\ SinkShape(UiKey(s, key, press))
  BY KeyShape DEF EmuRight
<1>2. UiKey(s, key, press).emu = s.emu /\ UiKey(s, key, press).capture = s.capture
  BY <1>1 DEF UiKey, SinkShape
<1>3. QED
  BY <1>1, <1>2, SameEmu

\* so do the directions that move the menu's cursor,
LEMMA MenuMovesEmu ==
  ASSUME NEW s, EmuRight(s), NEW old, NEW new
  PROVE  EmuRight(MenuMoves(s, old, new)) /\ MenuMoves(s, old, new).emu = s.emu
         /\ MenuMoves(s, old, new).capture = s.capture
<1>1. SinkShape(s) /\ SinkShape(MenuMoves(s, old, new))
  BY MenuMovesShape DEF EmuRight
<1>2. MenuMoves(s, old, new).emu = s.emu /\ MenuMoves(s, old, new).capture = s.capture
  BY <1>1 DEF MenuMoves, SinkShape
<1>3. QED
  BY <1>1, <1>2, SameEmu

\* so does a port that is set,
LEMMA LatchedEmu ==
  ASSUME NEW s, EmuRight(s), NEW port \in Ports, NEW dirs, NEW potx, NEW poty
  PROVE  EmuRight(Latched(s, port, dirs, potx, poty)) /\ Latched(s, port, dirs, potx, poty).emu = s.emu
         /\ Latched(s, port, dirs, potx, poty).capture = s.capture
<1>1. SinkShape(s) /\ SinkShape(Latched(s, port, dirs, potx, poty))
  BY LatchedShape DEF EmuRight
<1>2. Latched(s, port, dirs, potx, poty).emu = s.emu /\ Latched(s, port, dirs, potx, poty).capture = s.capture
  BY <1>1 DEF Latched, SinkShape
<1>3. QED
  BY <1>1, <1>2, SameEmu

\* and so does the release of what the menu had pressed.
LEMMA UnpressedEmu ==
  ASSUME NEW s, EmuRight(s)
  PROVE  EmuRight(Unpressed(s)) /\ Unpressed(s).emu = s.emu /\ Unpressed(s).capture = s.capture /\ Unpressed(s).joy = s.joy
<1>1. SinkShape(s) /\ SinkShape(Unpressed(s))
  BY UnpressedShape DEF EmuRight
<1>2. Unpressed(s).emu = s.emu /\ Unpressed(s).capture = s.capture /\ Unpressed(s).joy = s.joy
  BY <1>1 DEF Unpressed, SinkShape
<1>3. QED
  BY <1>1, <1>2, SameEmu

\* One button, when what the handler told by an older view of the menu is excused.
LEMMA ButtonEmu ==
  ASSUME ui \in BOOLEAN, NEW s, EmuRight(s), ~s.capture, NEW func, NEW press \in BOOLEAN,
         NEW isUi \in BOOLEAN, isUi # ui => EmuKeys(func) \subseteq excused
  PROVE  KeyLeaves(s, Button(s, func, press, isUi), EmuKeys(func), press)
<1> DEFINE t == Button(s, func, press, isUi)
<1>1. ASSUME NEW key, t = Key(s, key, press), EmuKeys(func) = {key}
      PROVE  KeyLeaves(s, t, EmuKeys(func), press)
  BY <1>1, KeyEmu
<1>2. CASE func = "MENU"
  <2>1. t = Key(s, "F12", press) /\ EmuKeys(func) = {"F12"}
    BY <1>2 DEF Button, EmuKeys, Directions
  <2>2. QED
    BY <1>1, <2>1
<1>3. CASE func = "CUSTOM"
  <2>1. t = Key(s, Binding, press) /\ EmuKeys(func) = {Binding}
    BY <1>3 DEF Button, EmuKeys, Directions
  <2>2. QED
    BY <1>1, <2>1
<1>4. CASE func = "BACK" /\ ~isUi
  <2>1. t = Key(s, "Escape", press) /\ EmuKeys(func) = {"Escape"}
    BY <1>4 DEF Button, EmuKeys, Directions
  <2>2. QED
    BY <1>1, <2>1
<1>5. CASE func = "BACK" /\ isUi
  <2>1. t = UiKey(s, "Escape", press) /\ EmuKeys(func) = {"Escape"}
    BY <1>5 DEF Button, EmuKeys, Directions
  <2>2. EmuRight(t) /\ t.emu = s.emu /\ ~t.capture
    BY <2>1, UiKeyEmu
  <2>3. ui => s.emu \subseteq excused
    BY DEF EmuRight
  <2>4. ~ui => "Escape" \in excused
    BY <1>5, <2>1
  <2> HIDE DEF t
  <2>5. t.emu \ excused \subseteq IF press THEN s.emu \cup {"Escape"} ELSE s.emu \ {"Escape"}
    BY <2>2, <2>3, <2>4
  <2>6. QED
    BY <2>1, <2>2, <2>5 DEF KeyLeaves, t
<1>6. CASE func \notin {"MENU", "CUSTOM", "BACK"}
  <2>1. EmuKeys(func) = {}
    BY <1>6 DEF EmuKeys
  <2>2. t \in {UiKey(s, MenuKey[func], press), s}
    BY <1>6 DEF Button
  <2>3. EmuRight(t) /\ t.emu = s.emu /\ ~t.capture
    BY <2>2, UiKeyEmu
  <2> HIDE DEF t
  <2>4. QED
    BY <2>1, <2>3 DEF KeyLeaves, t
<1>7. QED
  BY <1>2, <1>3, <1>4, <1>5, <1>6

\* All buttons of a report: what is left down comes from a button that is down.
LEMMA ButtonsEmu ==
  ASSUME ui \in BOOLEAN, NEW s, EmuRight(s), ~s.capture, pad.joyPrev \subseteq DOMAIN PadButtons,
         NEW buttons, NEW isUi \in BOOLEAN,
         isUi # ui => \A i \in pad.joyPrev \cup buttons : EmuKeys(PadButtons[i]) \subseteq excused,
         \A k \in s.emu \ excused : \E i \in pad.joyPrev : k \in EmuKeys(PadButtons[i])
  PROVE  /\ EmuRight(ButtonChanges(s, buttons, isUi)) /\ ~ButtonChanges(s, buttons, isUi).capture
         /\ \A k \in ButtonChanges(s, buttons, isUi).emu \ excused : \E i \in buttons : k \in EmuKeys(PadButtons[i])
<1> DEFINE n == Len(PadButtons)
           Left(i) == {j \in 1 .. n : IF j <= i THEN j \in buttons ELSE j \in pad.joyPrev}
<1>1. n \in Nat /\ DOMAIN PadButtons = 1 .. n
  BY PadAssumption
<1>2. PICK f : /\ f[0] = s
               /\ \A i \in 1 .. n : f[i] = IF (i \in buttons) = (i \in pad.joyPrev) THEN f[i - 1]
                                           ELSE Button(f[i - 1], PadButtons[i], i \in buttons, isUi)
               /\ ButtonChanges(s, buttons, isUi) = f[n]
  BY ButtonsTurns
<1> DEFINE T == {i \in 0 .. n : /\ EmuRight(f[i]) /\ ~f[i].capture
                                /\ \A k \in f[i].emu \ excused : \E j \in Left(i) : k \in EmuKeys(PadButtons[j])}
<1> HIDE DEF n
<1>3. n \in T
  <2>1. 0 \in T
    <3>1. pad.joyPrev \subseteq Left(0)
      BY <1>1
    <3> HIDE DEF Left
    <3>2. QED
      BY <1>1, <1>2, <3>1
  <2>2. ASSUME NEW i \in 1 .. n, i - 1 \in T PROVE i \in T
    <3> DEFINE func == PadButtons[i]
               press == i \in buttons
    <3>1. EmuRight(f[i - 1]) /\ ~f[i - 1].capture
          /\ \A k \in f[i - 1].emu \ excused : \E j \in Left(i - 1) : k \in EmuKeys(PadButtons[j])
      BY <2>2
    <3>2. /\ \A j \in Left(i - 1) : j # i => j \in Left(i)
          /\ i \in buttons => i \in Left(i)
          /\ i \in Left(i - 1) <=> i \in pad.joyPrev
      BY <1>1
    <3>3. CASE (i \in buttons) = (i \in pad.joyPrev)
      <4>1. f[i] = f[i - 1]
        BY <1>2, <3>3
      <4>2. Left(i - 1) \subseteq Left(i)
        BY <3>2, <3>3
      <4> HIDE DEF Left
      <4>3. QED
        BY <1>1, <3>1, <4>1, <4>2
    <3>4. CASE (i \in buttons) # (i \in pad.joyPrev)
      <4>1. f[i] = Button(f[i - 1], func, press, isUi)
        BY <1>2, <3>4
      <4>2. isUi # ui => EmuKeys(func) \subseteq excused
        BY <3>4
      <4>3. press \in BOOLEAN
        OBVIOUS
      <4> HIDE DEF press
      <4>4. KeyLeaves(f[i - 1], f[i], EmuKeys(func), press)
        BY <3>1, <4>1, <4>2, <4>3, ButtonEmu
      <4> HIDE DEF Left
      <4>5. ASSUME NEW k \in f[i].emu \ excused PROVE \E j \in Left(i) : k \in EmuKeys(PadButtons[j])
        BY <3>1, <3>2, <4>4, <4>5 DEF KeyLeaves, press
      <4>6. QED
        BY <1>1, <4>4, <4>5 DEF KeyLeaves
    <3>5. QED
      BY <3>3, <3>4
  <2> HIDE DEF T
  <2>3. T \in SUBSET (0 .. n)
    BY DEF T
  <2>4. QED
    BY <1>1, <2>1, <2>2, <2>3, Induct
<1>4. Left(n) \subseteq buttons
  BY <1>1
<1> HIDE DEF Left
<1>5. QED
  BY <1>2, <1>3, <1>4

\* A quiet step, which told the emulator right.
LEMMA QuietEmu ==
  ASSUME NEW new, Account(new), UNCHANGED <<ui, joydevs>>, ui \in BOOLEAN, EmuRight(sink'), sink'.emu \ excused \subseteq Source'
  PROVE  EmuRight(sink)' /\ sink'.emu \ excused' \subseteq Source'
<1>1. SinkShape(sink') /\ sink'.capture \in BOOLEAN
      /\ IF ui THEN sink'.emu \subseteq excused ELSE \A k \in sink'.emu \ excused : Takers(k) = {}
  BY DEF EmuRight
<1>2. SinkShape(sink)'
  BY <1>1 DEF SinkShape
<1>3. \A k : Takers(k)' = Takers(k)
  BY QuietTakers
<1>4. QED
  BY <1>1, <1>2, <1>3, EmuNext

\* The source of a gamepad's keys.
LEMMA PadSource ==
  ASSUME plugged = "pad"
  PROVE  \A k : k \in Source <=> \E i \in pad.joyPrev : k \in EmuKeys(PadButtons[i])
  BY DEF Source

\* A gamepad's keys are those of its pressed buttons.
LEMMA PadSourceNext ==
  ASSUME plugged' = "pad"
  PROVE  \A k : k \in Source' <=> \E i \in pad'.joyPrev : k \in EmuKeys(PadButtons[i])
  BY DEF Source, EmuKeys

\* What a step of the gamepad has to show.
LEMMA PadNext ==
  ASSUME SeesInvariant, plugged = "pad", Account({}), UNCHANGED <<ui, joydevs, keyboard, report>>,
         EmuRight(sink'), ~sink'.capture,
         \A k \in sink'.emu \ excused : \E i \in pad'.joyPrev : k \in EmuKeys(PadButtons[i]),
         PadSees'
  PROVE  SeesInvariant'
<1>1. plugged' = "pad"
  BY DEF Account
<1>2. sink'.emu \ excused \subseteq Source'
  BY <1>1, PadSourceNext
<1>3. EmuRight(sink)' /\ sink'.emu \ excused' \subseteq Source'
  BY <1>2, QuietEmu DEF SeesInvariant
<1>4. ui' \in BOOLEAN /\ keyboard'.keys = {} /\ keyboard'.mods = {} /\ report' = Idle
  BY DEF SeesInvariant
<1>5. QED
  BY <1>1, <1>3, <1>4 DEF SeesInvariant

\* A report that was handled, with the sink that its changes are told to.
LEMMA PadHandled ==
  ASSUME SeesInvariant, PadTypes, plugged = "pad", ~padReport.handled, Account({}),
         UNCHANGED <<ui, joydevs, keyboard, report>>, padReport' = NoPadReport,
         NEW s, EmuRight(s), ~s.capture, s.emu = sink.emu,
         NEW dirs, NEW potx, NEW poty,
         \/ pad'.joyPrev = pad.joyPrev /\ sink' = Unpressed(sink)
         \/ /\ pad'.joyPrev = padReport.buttons
            /\ LET told == ButtonChanges(s, padReport.buttons, padReport.seen)
               IN  sink' \in {told, SetJoyUsb(told, dirs, potx, poty)}
  PROVE  SeesInvariant'
<1> DEFINE told == ButtonChanges(s, padReport.buttons, padReport.seen)
<1>1. /\ EmuRight(sink) /\ ~sink.capture /\ PadSees /\ ui \in BOOLEAN
      /\ \A k \in sink.emu \ excused : \E i \in pad.joyPrev : k \in EmuKeys(PadButtons[i])
  BY PadSource DEF SeesInvariant, EmuRight
<1>2. PadSees'
  BY DEF PadSees, NoPadReport
<1>3. CASE pad'.joyPrev = pad.joyPrev /\ sink' = Unpressed(sink)
  <2>1. EmuRight(sink') /\ sink'.emu = sink.emu /\ ~sink'.capture
    BY <1>1, <1>3, UnpressedEmu
  <2>2. QED
    BY <1>1, <1>2, <1>3, <2>1, PadNext
<1>4. CASE pad'.joyPrev = padReport.buttons /\ sink' \in {told, SetJoyUsb(told, dirs, potx, poty)}
  <2>1. padReport.seen \in BOOLEAN /\ pad.joyPrev \subseteq DOMAIN PadButtons
    BY DEF PadTypes, PadReports, PadStates
  <2>2. padReport.seen # ui => \A i \in pad.joyPrev \cup padReport.buttons : EmuKeys(PadButtons[i]) \subseteq excused
    BY <1>1 DEF PadSees
  <2>3. /\ EmuRight(told) /\ ~told.capture
        /\ \A k \in told.emu \ excused : \E i \in padReport.buttons : k \in EmuKeys(PadButtons[i])
    BY <1>1, <2>1, <2>2, ButtonsEmu
  <2> HIDE DEF told
  <2>4. EmuRight(sink') /\ ~sink'.capture /\ sink'.emu = told.emu
    <3>1. CASE sink' = told
      BY <2>3, <3>1
    <3>2. CASE sink' = SetJoyUsb(told, dirs, potx, poty) /\ PadPorts = {}
      BY <2>3, <3>2 DEF SetJoyUsb
    <3>3. CASE sink' = SetJoyUsb(told, dirs, potx, poty) /\ PadPorts # {}
      <4>1. (CHOOSE p \in PadPorts : \A q \in PadPorts : p <= q) \in Ports
        BY <3>3 DEF PadPorts, Ports
      <4> DEFINE port == CHOOSE p \in PadPorts : \A q \in PadPorts : p <= q
      <4>2. sink' = Latched(told, port, dirs, potx, poty)
        BY <3>3 DEF SetJoyUsb
      <4> HIDE DEF port
      <4>3. port \in Ports
        BY <4>1 DEF port
      <4>4. QED
        BY <2>3, <4>2, <4>3, LatchedEmu
    <3>4. QED
      BY <1>4, <3>1, <3>2, <3>3
  <2>5. QED
    BY <1>2, <1>4, <2>3, <2>4, PadNext
<1>5. QED
  BY <1>3, <1>4

\* The gamepad: a report and its handling, by preference.
LEMMA PadSteps == SeesInvariant /\ PadTypes /\ PadStep => SeesInvariant'
<1> SUFFICES ASSUME SeesInvariant, PadTypes, PadStep PROVE SeesInvariant'
  OBVIOUS
<1>1. plugged = "pad" /\ UNCHANGED <<ui, joydevs>> /\ Account({})
  BY DEF PadStep, Quiet
<1>2. EmuRight(sink) /\ ~sink.capture
  BY <1>1 DEF SeesInvariant, EmuRight
<1>3. EmuRight(Unpressed(sink)) /\ Unpressed(sink).emu = sink.emu /\ ~Unpressed(sink).capture
  BY <1>2, UnpressedEmu
<1>4. \A old, new : /\ EmuRight(MenuMoves(Unpressed(sink), old, new))
                    /\ MenuMoves(Unpressed(sink), old, new).emu = sink.emu
                    /\ ~MenuMoves(Unpressed(sink), old, new).capture
  BY <1>3, MenuMovesEmu
<1>5. ASSUME NEW b \in SUBSET DOMAIN PadButtons, NEW m \in PadMoves, PadArrives(b, m[1], m[2]) PROVE SeesInvariant'
  <2>1. sink' = Unpressed(sink) /\ UNCHANGED <<keyboard, report, pad>>
    BY <1>5 DEF PadArrives
  <2>2. padReport'.handled \/ padReport'.seen = ui
    BY <1>5 DEF PadArrives, NoPadReport
  <2>3. PadSees'
    BY <1>1, <2>2 DEF PadSees
  <2>4. \A k \in sink.emu \ excused : \E i \in pad.joyPrev : k \in EmuKeys(PadButtons[i])
    BY <1>1, PadSource DEF SeesInvariant
  <2>5. QED
    BY <1>1, <1>3, <2>1, <2>3, <2>4, PadNext
<1>6. CASE HandleHat
  <2> DEFINE r == padReport
             paddles == pad.pref = "paddles"
             kept == IF paddles THEN [pad EXCEPT !.x = r.x, !.y = r.y] ELSE pad
             s == IF r.seen THEN MenuMoves(Unpressed(sink), MenuHat(pad.dpad), MenuHat(r.hat)) ELSE Unpressed(sink)
             told == ButtonChanges(s, r.buttons, r.seen)
             potx == IF paddles THEN "paddle" ELSE PotOf("potx", r.buttons)
             poty == IF paddles THEN "paddle" ELSE PotOf("poty", r.buttons)
  <2>1. EmuRight(s) /\ s.emu = sink.emu /\ ~s.capture
    BY <1>3, <1>4
  <2>2. kept.joyPrev = pad.joyPrev /\ [kept EXCEPT !.buttons = r.buttons, !.joyPrev = r.buttons, !.dpad = r.hat].joyPrev = r.buttons
    BY DEF PadTypes, PadStates
  <2>3. \/ pad' = kept /\ sink' = Unpressed(sink)
        \/ /\ pad' = [kept EXCEPT !.buttons = r.buttons, !.joyPrev = r.buttons, !.dpad = r.hat]
           /\ sink' = IF r.seen THEN told ELSE SetJoyUsb(told, padShown', potx, poty)
    BY <1>6 DEF HandleHat
  <2>4. ~padReport.handled /\ padReport' = NoPadReport /\ UNCHANGED <<keyboard, report>>
    BY <1>6 DEF HandleHat
  <2> HIDE DEF kept, s, potx, poty
  <2>5. \/ pad'.joyPrev = pad.joyPrev /\ sink' = Unpressed(sink)
        \/ pad'.joyPrev = r.buttons /\ sink' \in {told, SetJoyUsb(told, padShown', potx, poty)}
    <3> HIDE DEF told
    <3>1. QED
      BY <2>2, <2>3
  <2>6. QED
    BY <1>1, <2>1, <2>4, <2>5, PadHandled
<1>7. CASE HandleAnalog
  <2> DEFINE r == padReport
             s == IF r.seen THEN MenuMoves(Unpressed(sink), pad.dirs, AxisDirs(r)) ELSE Unpressed(sink)
             told == ButtonChanges(s, r.buttons, r.seen)
             potx == PotOf("potx", r.buttons)
             poty == PotOf("poty", r.buttons)
  <2>1. EmuRight(s) /\ s.emu = sink.emu /\ ~s.capture
    BY <1>3, <1>4
  <2>2. [pad EXCEPT !.buttons = r.buttons, !.joyPrev = r.buttons, !.dirs = AxisDirs(r)].joyPrev = r.buttons
    BY DEF PadTypes, PadStates
  <2>3. \/ pad' = pad /\ sink' = Unpressed(sink)
        \/ /\ pad' = [pad EXCEPT !.buttons = r.buttons, !.joyPrev = r.buttons, !.dirs = AxisDirs(r)]
           /\ sink' = IF r.seen THEN told ELSE SetJoyUsb(told, padShown', potx, poty)
    BY <1>7 DEF HandleAnalog
  <2>4. ~padReport.handled /\ padReport' = NoPadReport /\ UNCHANGED <<keyboard, report>>
    BY <1>7 DEF HandleAnalog
  <2> HIDE DEF s, potx, poty
  <2>5. \/ pad'.joyPrev = pad.joyPrev /\ sink' = Unpressed(sink)
        \/ pad'.joyPrev = r.buttons /\ sink' \in {told, SetJoyUsb(told, padShown', potx, poty)}
    <3> HIDE DEF told
    <3>1. QED
      BY <2>2, <2>3
  <2>6. QED
    BY <1>1, <2>1, <2>4, <2>5, PadHandled
<1>8. QED
  BY <1>5, <1>6, <1>7 DEF PadStep

\* The menu changes something while a gamepad is plugged in.
LEMMA PadChanged ==
  ASSUME SeesInvariant, plugged = "pad", NEW new, Account(new), Held \cup Held' \subseteq new,
         UNCHANGED <<keyboard, report, padReport>>, pad'.joyPrev = pad.joyPrev, ui' \in BOOLEAN,
         SinkShape(sink)', sink'.capture = sink.capture, sink'.emu = sink.emu
  PROVE  SeesInvariant'
<1>1. sink'.capture \in BOOLEAN /\ ~sink'.capture
  BY DEF SeesInvariant, EmuRight
<1>2. plugged' = "pad" /\ Held' \subseteq excused' /\ EmuRight(sink)' /\ sink'.emu \subseteq excused'
  BY <1>1, EmuChanged, Accounted
<1>3. PadSees'
  <2> SUFFICES ASSUME ~padReport'.handled, NEW i \in pad'.joyPrev \cup padReport'.buttons
               PROVE  EmuKeys(PadButtons[i]) \subseteq Held'
    BY <1>2 DEF PadSees
  <2>1. CASE i \in pad'.joyPrev
    <3>1. EmuKeys(PadButtons[i]) \subseteq Source'
      BY <1>2, <2>1, PadSourceNext
    <3>2. QED
      BY <3>1, SourceHeldNext
  <2>2. CASE i \in padReport'.buttons
    BY <1>2, <2>2, InFlightHeldNext
  <2>3. QED
    BY <2>1, <2>2
<1>4. keyboard'.keys = {} /\ keyboard'.mods = {} /\ report' = Idle
  BY DEF SeesInvariant
<1>5. QED
  BY <1>1, <1>2, <1>3, <1>4 DEF SeesInvariant

\* A scan's result, when the emulator was told right.
ScanGood(r) ==
  /\ DOMAIN r = {"sink", "scan", "contacts", "later"}
  /\ EmuRight(r.sink) /\ ~r.sink.capture
  /\ r.sink.emu \ excused \subseteq ScanSource(r.scan)
  /\ MemoryShape(r.scan) /\ MatrixTold(r.scan, r.sink)

\* A part of a scan that changes neither keys nor what it remembers of them.
LEMMA GoodSame ==
  ASSUME NEW r, ScanGood(r), NEW t, DOMAIN t = DOMAIN r, EmuRight(t.sink), ~t.sink.capture, t.sink.emu = r.sink.emu,
         DOMAIN t.scan = DOMAIN r.scan, t.scan.matrix = r.scan.matrix, t.scan.restore = r.scan.restore,
         t.scan.debounce = r.scan.debounce
  PROVE  ScanGood(t)
<1>1. ScanSource(t.scan) = ScanSource(r.scan)
  BY DEF ScanSource
<1>2. MemoryShape(t.scan) /\ MatrixTold(t.scan, t.sink)
  BY DEF ScanGood, MemoryShape, MatrixTold
<1>3. QED
  BY <1>1, <1>2 DEF ScanGood

\* ReadJoystick
LEMMA JoystickGood ==
  ASSUME ui \in BOOLEAN, NEW r, ScanGood(r), NEW dev \in {0, 1}, NEW config
  PROVE  ScanGood(ReadJoystick(r, dev, config))
<1> DEFINE name == IF dev = 0 THEN "GPIO_0" ELSE "GPIO_1"
           assigned == {p \in Ports : joydevs[p] = name}
           table == JoyPins(config, dev)
           driven == IF config = "keyboard" THEN {Selector[dev + 1]} ELSE {}
           low == {d \in DOMAIN table : Low(table[d], r.contacts, driven)}
           port == CHOOSE p \in assigned : \A q \in assigned : p <= q
           t == ReadJoystick(r, dev, config)
<1>1. EmuRight(r.sink) /\ ~r.sink.capture /\ DOMAIN r = {"sink", "scan", "contacts", "later"}
      /\ DOMAIN r.scan = {"debounce", "matrix", "restore", "joyPrev", "pinPrev", "shifts"}
  BY DEF ScanGood, MemoryShape
<1>2. t = CASE ui -> [r EXCEPT !.sink = MenuMoves(@, r.scan.joyPrev[dev], low \cap Directions),
                               !.scan.joyPrev[dev] = low \cap Directions]
            [] ~ui /\ assigned # {} -> [r EXCEPT !.sink = JoyAbsolute(@, port, low)]
            [] OTHER -> r
  BY Zenon DEF ReadJoystick
<1>3. assigned # {} => port \in Ports
  BY DEF Ports
<1> HIDE DEF low, port, assigned, t
<1>4. CASE ui
  <2>1. t = [r EXCEPT !.sink = MenuMoves(@, r.scan.joyPrev[dev], low \cap Directions),
                      !.scan.joyPrev[dev] = low \cap Directions]
    BY <1>2, <1>4
  <2>2. /\ DOMAIN t = DOMAIN r /\ t.sink = MenuMoves(r.sink, r.scan.joyPrev[dev], low \cap Directions)
        /\ DOMAIN t.scan = DOMAIN r.scan /\ t.scan.matrix = r.scan.matrix /\ t.scan.restore = r.scan.restore
        /\ t.scan.debounce = r.scan.debounce
    BY <1>1, <2>1
  <2>3. EmuRight(t.sink) /\ t.sink.emu = r.sink.emu /\ ~t.sink.capture
    BY <1>1, <2>2, MenuMovesEmu
  <2>4. QED
    BY <2>2, <2>3, GoodSame DEF t
<1>5. CASE ~ui /\ assigned # {}
  <2>1. t = [r EXCEPT !.sink = JoyAbsolute(@, port, low)]
    BY <1>2, <1>5
  <2>2. DOMAIN t = DOMAIN r /\ t.sink = JoyAbsolute(r.sink, port, low) /\ t.scan = r.scan
    BY <1>1, <2>1
  <2>3. EmuRight(t.sink) /\ t.sink.emu = r.sink.emu /\ ~t.sink.capture
    BY <1>1, <1>3, <1>5, <2>2, LatchedEmu DEF JoyAbsolute
  <2>4. QED
    BY <2>2, <2>3, GoodSame DEF t
<1>6. CASE ~ui /\ assigned = {}
  BY <1>2, <1>6 DEF t
<1>7. QED
  BY <1>4, <1>5, <1>6

\* ReadDebounced changes one pin's state.
LEMMA DebounceDoes ==
  ASSUME NEW r, ScanGood(r), NEW pin \in Pins
  PROVE  /\ DOMAIN Debounce(r, pin) = DOMAIN r
         /\ Debounce(r, pin).sink = r.sink
         /\ DOMAIN Debounce(r, pin).scan = DOMAIN r.scan
         /\ Debounce(r, pin).scan.matrix = r.scan.matrix
         /\ Debounce(r, pin).scan.restore = r.scan.restore
         /\ Debounce(r, pin).scan.joyPrev = r.scan.joyPrev
         /\ Debounce(r, pin).scan.pinPrev = r.scan.pinPrev
         /\ Debounce(r, pin).scan.shifts = r.scan.shifts
         /\ Debounce(r, pin).scan.debounce =
              [r.scan.debounce EXCEPT ![pin] = Debounced(@, Read(r, pin, FALSE), Read(r, pin, TRUE))]
         /\ MemoryShape(Debounce(r, pin).scan)
<1> DEFINE d == Debounce(r, pin)
           new == Debounced(r.scan.debounce[pin], Read(r, pin, FALSE), Read(r, pin, TRUE))
<1>1. DOMAIN r = {"sink", "scan", "contacts", "later"} /\ MemoryShape(r.scan)
      /\ DOMAIN r.scan = {"debounce", "matrix", "restore", "joyPrev", "pinPrev", "shifts"}
  BY DEF ScanGood, MemoryShape
<1>2. d = [r EXCEPT !.scan.debounce[pin] = new]
  BY DEF Debounce
<1>3. r.scan.debounce[pin] \in {"up", "press", "down", "release"} => new \in {"up", "press", "down", "release"}
  BY DEF Debounced
<1> HIDE DEF new, d
<1>4. /\ DOMAIN d = DOMAIN r /\ d.sink = r.sink /\ DOMAIN d.scan = DOMAIN r.scan
      /\ d.scan.matrix = r.scan.matrix /\ d.scan.restore = r.scan.restore
      /\ d.scan.joyPrev = r.scan.joyPrev /\ d.scan.pinPrev = r.scan.pinPrev /\ d.scan.shifts = r.scan.shifts
      /\ d.scan.debounce = [r.scan.debounce EXCEPT ![pin] = new]
  BY <1>1, <1>2
<1>5. MemoryShape(d.scan)
  BY <1>1, <1>3, <1>4 DEF MemoryShape
<1>6. QED
  BY <1>4, <1>5 DEF d, new

\* Where no scan tells the emulator of a key that stays down.
LEMMA NoSource ==
  ASSUME gpio_config \notin {"keyboard", "custom"}
  PROVE  \A memory : ScanSource(memory) = {}
  BY DEF ScanSource

\* A press and a release at once.
LEMMA ClickGood ==
  ASSUME ui \in BOOLEAN, gpio_config \notin {"keyboard", "custom"}, NEW r, ScanGood(r),
         NEW button, button[1] \in Pins
  PROVE  ScanGood(Click(r, button))
<1> DEFINE d == Debounce(r, button[1])
           one == Key(d.sink, button[2], TRUE)
           two == Key(one, button[2], FALSE)
           t == Click(r, button)
<1>1. /\ DOMAIN d = DOMAIN r /\ d.sink = r.sink /\ d.scan.matrix = r.scan.matrix /\ MemoryShape(d.scan)
  BY DebounceDoes
<1>2. EmuRight(d.sink) /\ ~d.sink.capture /\ d.sink.emu \subseteq excused
  BY <1>1, NoSource DEF ScanGood
<1>3. MatrixTold(d.scan, d.sink)
  BY <1>1 DEF ScanGood, MatrixTold
<1>4. t = IF d.scan.debounce[button[1]] = "press" /\ button[2] # "quick" THEN [d EXCEPT !.sink = two] ELSE d
  BY DEF Click
<1> HIDE DEF d, t
<1>5. KeyLeaves(d.sink, one, {button[2]}, TRUE)
  BY <1>2, KeyEmu
<1> HIDE DEF one
<1>6. KeyLeaves(one, two, {button[2]}, FALSE)
  <2>1. EmuRight(one) /\ ~one.capture
    BY <1>5 DEF KeyLeaves
  <2>2. QED
    BY <2>1, KeyEmu
<1> HIDE DEF two
<1>7. EmuRight(two) /\ ~two.capture /\ two.emu \subseteq excused
  BY <1>2, <1>5, <1>6 DEF KeyLeaves
<1>8. DOMAIN t = {"sink", "scan", "contacts", "later"} /\ t.scan = d.scan /\ t.sink \in {d.sink, two}
  BY <1>1, <1>4 DEF ScanGood
<1>9. MatrixTold(t.scan, t.sink)
  BY <1>3, <1>8 DEF MatrixTold
<1>10. EmuRight(t.sink) /\ ~t.sink.capture /\ t.sink.emu \subseteq excused
  BY <1>2, <1>7, <1>8
<1>11. ScanGood(t)
  BY <1>1, <1>8, <1>9, <1>10 DEF ScanGood
<1>12. QED
  BY <1>11 DEF t

\* The buttons of the nav and Waveshare hats.
LEMMA ClicksGood ==
  ASSUME ui \in BOOLEAN, gpio_config \notin {"keyboard", "custom"}, NEW r, ScanGood(r),
         NEW buttons, Len(buttons) \in Nat, \A i \in 1 .. Len(buttons) : buttons[i][1] \in Pins
  PROVE  ScanGood(Clicks(r, buttons))
<1> DEFINE n == Len(buttons)
<1>1. PICK f : /\ f[0] = r
               /\ \A i \in 1 .. n : f[i] = Click(f[i - 1], buttons[i])
               /\ Clicks(r, buttons) = f[n]
  BY ClicksTurns
<1> DEFINE T == {i \in 0 .. n : ScanGood(f[i])}
<1> HIDE DEF n
<1>2. n \in Nat
  BY DEF n
<1>3. n \in T
  <2>1. 0 \in T
    BY <1>1, <1>2
  <2>2. ASSUME NEW i \in 1 .. n, i - 1 \in T PROVE i \in T
    <3>1. f[i] = Click(f[i - 1], buttons[i]) /\ buttons[i][1] \in Pins /\ ScanGood(f[i - 1])
      BY <1>1, <2>2 DEF n
    <3>2. ScanGood(f[i])
      BY <3>1, ClickGood
    <3>3. QED
      BY <1>2, <3>2
  <2> HIDE DEF T
  <2>3. T \in SUBSET (0 .. n)
    BY DEF T
  <2>4. QED
    BY <1>2, <2>1, <2>2, <2>3, Induct
<1>4. QED
  BY <1>1, <1>3

\* The matrix: keys are told while the menu is closed, unless a port takes them.
LEMMA MatrixKeyGood ==
  ASSUME ui \in BOOLEAN, gpio_config = "keyboard", NEW r, ScanGood(r), NEW key, NEW low \in BOOLEAN,
         NEW n, n # key => ui, NEW t,
         DOMAIN t = DOMAIN r, t.sink = Key(r.sink, n, low), MemoryShape(t.scan),
         \A k : k \in ScanSource(t.scan) <=> IF k = key THEN low ELSE k \in ScanSource(r.scan),
         \A j \in t.scan.matrix : j \in r.scan.matrix \/ (MatrixKeys[j] = key /\ low),
         \A j \in t.scan.matrix : MatrixKeys[j] = key => low
  PROVE  ScanGood(t)
<1>1. /\ EmuRight(r.sink) /\ ~r.sink.capture /\ SinkShape(r.sink) /\ r.sink.capture \in BOOLEAN
      /\ r.sink.emu \ excused \subseteq ScanSource(r.scan)
  BY DEF ScanGood, EmuRight
<1>2. KeyLeaves(r.sink, t.sink, {n}, low) /\ KeyDoes(r.sink, t.sink, n, low)
  BY <1>1, KeyEmu, KeySink
<1>3. CASE ui
  <2>1. t.sink.emu \subseteq excused
    BY <1>2, <1>3 DEF KeyLeaves, EmuRight
  <2>2. MatrixTold(t.scan, t.sink)
    BY <1>3 DEF MatrixTold
  <2>3. QED
    BY <1>2, <2>1, <2>2 DEF ScanGood, KeyLeaves
<1>4. CASE ~ui
  <2>1. n = key /\ (TakenBy(key, low) = {} => t.sink.emu = IF low THEN r.sink.emu \cup {key} ELSE r.sink.emu \ {key})
        /\ (TakenBy(key, low) # {} => t.sink.emu = r.sink.emu)
    BY <1>1, <1>2, <1>4 DEF KeyDoes
  <2>2. TakenBy(key, low) = {} => Takers(key) = {} \/ ~low
    BY DEF TakenBy
  <2>3. TakenBy(key, low) # {} => Takers(key) # {}
    BY DEF TakenBy
  <2>4. Takers(key) # {} => key \notin r.sink.emu \ excused
    BY <1>1, <1>4 DEF EmuRight
  <2>5. t.sink.emu \ excused \subseteq ScanSource(t.scan)
    BY <1>1, <2>1, <2>4, <2>2, <2>3
  <2>6. \A j \in t.scan.matrix : MatrixKeys[j] \notin excused /\ Takers(MatrixKeys[j]) = {} => MatrixKeys[j] \in t.sink.emu
    <3>1. \A j \in r.scan.matrix : MatrixKeys[j] \notin excused /\ Takers(MatrixKeys[j]) = {} => MatrixKeys[j] \in r.sink.emu
      BY <1>4 DEF ScanGood, MatrixTold
    <3>2. QED
      BY <2>1, <2>2, <2>3, <3>1
  <2>7. MatrixTold(t.scan, t.sink)
    BY <2>6 DEF MatrixTold
  <2>8. QED
    BY <1>2, <2>5, <2>7 DEF ScanGood, KeyLeaves
<1>5. QED
  BY <1>3, <1>4

\* The keys that a scan of the matrix has told.
LEMMA MatrixSource ==
  ASSUME gpio_config = "keyboard", NEW memory, MemoryShape(memory)
  PROVE  \A k : k \in ScanSource(memory) <=> (\E j \in memory.matrix : k = MatrixKeys[j]) \/ (memory.restore /\ k = "PageUp")
  BY DEF ScanSource, MemoryShape

\* One contact of the matrix.
LEMMA ScanKeyGood ==
  ASSUME ui \in BOOLEAN, gpio_config = "keyboard", NEW r, ScanGood(r), NEW pa, NEW pb, <<pa, pb>> \in DOMAIN MatrixKeys
  PROVE  ScanGood(ScanKey(r, pa, pb))
<1> DEFINE low == Low(pb + 8, r.contacts, {pa})
           this == <<pa, pb>>
           was == this \in r.scan.matrix
           key == MatrixKeys[this]
           flip(S, x) == IF low THEN S \cup {x} ELSE S \ {x}
           shifts == IF ui /\ key \in {"LeftShift", "RightShift"} THEN flip(r.scan.shifts, key) ELSE r.scan.shifts
           n == Translated(key, ui /\ shifts # {})
           t == ScanKey(r, pa, pb)
<1>1. t = IF low = was THEN r
          ELSE [r EXCEPT !.sink = Key(@, n, low), !.scan.shifts = shifts, !.scan.matrix = flip(@, this)]
  BY Zenon DEF ScanKey
<1>2. low \in BOOLEAN
  BY DEF Low
<1>3. n # key => ui
  BY DEF Translated
<1>4. DOMAIN r = {"sink", "scan", "contacts", "later"} /\ MemoryShape(r.scan)
      /\ DOMAIN r.scan = {"debounce", "matrix", "restore", "joyPrev", "pinPrev", "shifts"}
  BY DEF ScanGood, MemoryShape
<1>5. this \in DOMAIN MatrixKeys
  OBVIOUS
<1> HIDE DEF low, this, n, shifts, t
<1>6. CASE low = was
  BY <1>1, <1>6 DEF t
<1>7. CASE low # was
  <2>1. t = [r EXCEPT !.sink = Key(@, n, low), !.scan.shifts = shifts, !.scan.matrix = flip(@, this)]
    BY <1>1, <1>7
  <2> DEFINE matrix == flip(r.scan.matrix, this)
  <2> HIDE DEF matrix
  <2>2. /\ DOMAIN t = DOMAIN r /\ t.sink = Key(r.sink, n, low) /\ DOMAIN t.scan = DOMAIN r.scan
        /\ t.scan.matrix = matrix /\ t.scan.restore = r.scan.restore /\ t.scan.debounce = r.scan.debounce
    BY <1>4, <2>1 DEF matrix
  <2>3. /\ \A j \in matrix : j \in r.scan.matrix \/ (j = this /\ low)
        /\ \A j \in r.scan.matrix : j # this => j \in matrix
        /\ this \in matrix <=> low
        /\ matrix \subseteq DOMAIN MatrixKeys
    BY <1>4, <1>5 DEF matrix, MemoryShape
  <2>4. MemoryShape(t.scan)
    BY <1>4, <2>2, <2>3 DEF MemoryShape
  <2>5. \A j \in DOMAIN MatrixKeys : MatrixKeys[j] = key => j = this
    BY <1>5, MatrixAssumption
  <2>6. key # "PageUp"
    BY <1>5, MatrixAssumption
  <2>7. r.scan.matrix \subseteq DOMAIN MatrixKeys
    BY <1>4 DEF MemoryShape
  <2>8. \A k : k \in ScanSource(t.scan) <=> IF k = key THEN low ELSE k \in ScanSource(r.scan)
    BY <1>2, <1>4, <2>2, <2>3, <2>4, <2>5, <2>6, <2>7, MatrixSource
  <2>9. /\ \A j \in t.scan.matrix : j \in r.scan.matrix \/ (MatrixKeys[j] = key /\ low)
        /\ \A j \in t.scan.matrix : MatrixKeys[j] = key => low
    BY <2>2, <2>3, <2>5
  <2> HIDE DEF key
  <2>10. ScanGood(t)
    BY <1>2, <1>3, <2>2, <2>4, <2>8, <2>9, MatrixKeyGood
  <2>11. QED
    BY <2>10 DEF t
<1>8. QED
  BY <1>6, <1>7

\* The restore key.
LEMMA RestoreGood ==
  ASSUME ui \in BOOLEAN, gpio_config = "keyboard", NEW r, ScanGood(r)
  PROVE  ScanGood(ScanRestore(r))
<1> DEFINE low == Read(r, RestorePin, FALSE)
           t == ScanRestore(r)
<1>1. t = [r EXCEPT !.sink = IF low # r.scan.restore THEN Key(@, "PageUp", low) ELSE @, !.scan.restore = low]
  BY Zenon DEF ScanRestore
<1>2. low \in BOOLEAN
  BY DEF Read, Low
<1>3. DOMAIN r = {"sink", "scan", "contacts", "later"} /\ MemoryShape(r.scan)
      /\ DOMAIN r.scan = {"debounce", "matrix", "restore", "joyPrev", "pinPrev", "shifts"}
  BY DEF ScanGood, MemoryShape
<1> HIDE DEF low, t
<1>4. /\ DOMAIN t = DOMAIN r /\ DOMAIN t.scan = DOMAIN r.scan
      /\ t.sink = IF low # r.scan.restore THEN Key(r.sink, "PageUp", low) ELSE r.sink
      /\ t.scan.matrix = r.scan.matrix /\ t.scan.restore = low /\ t.scan.debounce = r.scan.debounce
  BY <1>1, <1>3
<1>5. MemoryShape(t.scan)
  BY <1>2, <1>3, <1>4 DEF MemoryShape
<1>6. CASE low = r.scan.restore
  <2>1. t.sink = r.sink
    BY <1>4, <1>6
  <2>2. QED
    BY <1>4, <1>6, <2>1, GoodSame DEF t, ScanGood
<1>7. CASE low # r.scan.restore
  <2>1. \A j \in r.scan.matrix : MatrixKeys[j] # "PageUp"
    BY <1>3, MatrixAssumption DEF MemoryShape
  <2>2. \A k : k \in ScanSource(t.scan) <=> IF k = "PageUp" THEN low ELSE k \in ScanSource(r.scan)
    BY <1>2, <1>3, <1>4, <1>5, <2>1, MatrixSource
  <2>3. t.sink = Key(r.sink, "PageUp", low)
    BY <1>4, <1>7
  <2>4. \A j \in t.scan.matrix : j \in r.scan.matrix /\ MatrixKeys[j] # "PageUp"
    BY <1>4, <2>1
  <2>5. ScanGood(t)
    BY <1>2, <1>4, <1>5, <2>2, <2>3, <2>4, MatrixKeyGood
  <2>6. QED
    BY <2>5 DEF t
<1>8. QED
  BY <1>6, <1>7

\* The whole matrix.
LEMMA ScanKeyboardGood ==
  ASSUME ui \in BOOLEAN, gpio_config = "keyboard", NEW r, ScanGood(r)
  PROVE  ScanGood(ScanKeyboard(r))
<1>1. PICK f : /\ f[0] = ScanRestore(r)
               /\ \A i \in 1 .. 64 :
                    f[i] = IF <<(i - 1) \div 8, (i - 1) % 8>> \in DOMAIN MatrixKeys
                           THEN ScanKey(f[i - 1], (i - 1) \div 8, (i - 1) % 8) ELSE f[i - 1]
               /\ ScanKeyboard(r) = f[64]
  BY MatrixTurns
<1> DEFINE T == {i \in 0 .. 64 : ScanGood(f[i])}
<1>2. 64 \in T
  <2>1. 0 \in T
    BY <1>1, RestoreGood
  <2>2. ASSUME NEW i \in 1 .. 64, i - 1 \in T PROVE i \in T
    <3> DEFINE pa == (i - 1) \div 8
               pb == (i - 1) % 8
    <3>1. ScanGood(f[i - 1]) /\ i \in 0 .. 64
      BY <2>2
    <3>2. f[i] = IF <<pa, pb>> \in DOMAIN MatrixKeys THEN ScanKey(f[i - 1], pa, pb) ELSE f[i - 1]
      BY <1>1
    <3> HIDE DEF pa, pb
    <3>3. ScanGood(f[i])
      BY <3>1, <3>2, ScanKeyGood
    <3>4. QED
      BY <3>1, <3>3
  <2> HIDE DEF T
  <2>3. T \in SUBSET (0 .. 64) /\ 64 \in Nat
    BY DEF T
  <2>4. QED
    BY <2>1, <2>2, <2>3, Induct
<1>3. QED
  BY <1>1, <1>2

\* ReadCustomGPIO: one pin, and the joysticks.
LEMMA CustomSource ==
  ASSUME gpio_config = "custom", NEW memory
  PROVE  \A k : k \in ScanSource(memory) <=> \E p \in Pressed(memory.debounce) : k \in EmuKeys(Bindings[p][2])
  BY DEF ScanSource

\* One bound pin.
LEMMA CustomPinGood ==
  ASSUME ui \in BOOLEAN, gpio_config = "custom", NEW r, ScanGood(r), NEW pin \in DOMAIN Bindings
  PROVE  ScanGood(CustomPin(r, pin))
<1> DEFINE bank == Bindings[pin][1]
           func == Bindings[pin][2]
           low == Read(r, pin, FALSE)
           was == pin \in r.scan.pinPrev
           d == Debounce(r, pin)
           held == d.scan.debounce[pin]
           key == IF func \in Directions THEN MenuKey[func] ELSE "none"
           told == Button(d.sink, func, held = "press", ui)
           t == CustomPin(r, pin)
<1>1. pin \in Pins
  BY BindingsAssumption DEF Pins
<1>2. /\ DOMAIN r = {"sink", "scan", "contacts", "later"} /\ EmuRight(r.sink) /\ ~r.sink.capture
      /\ DOMAIN r.scan = {"debounce", "matrix", "restore", "joyPrev", "pinPrev", "shifts"}
      /\ r.scan.debounce \in [Pins -> {"up", "press", "down", "release"}]
      /\ \A k \in r.sink.emu \ excused : \E p \in Pressed(r.scan.debounce) : k \in EmuKeys(Bindings[p][2])
  BY CustomSource DEF ScanGood, MemoryShape
<1>3. /\ bank = 0 /\ held \in {"press", "release"} => t = [d EXCEPT !.sink = told]
      /\ bank = 0 /\ held \notin {"press", "release"} => t = d
      /\ bank # 0 => \/ t = r
                     \/ t = [r EXCEPT !.sink = IF low # was THEN UiKey(@, key, low) ELSE @,
                                      !.scan.pinPrev = IF low THEN @ \cup {pin} ELSE @ \ {pin}]
  <2> HIDE DEF bank, func, low, was, d, held, key
  <2>1. t = CASE bank = 0 /\ held \in {"press", "release"} -> [d EXCEPT !.sink = told]
              [] bank = 0 /\ held \notin {"press", "release"} -> d
              [] bank > 0 /\ ui ->
                   [r EXCEPT !.sink = IF low # was THEN UiKey(@, key, low) ELSE @,
                             !.scan.pinPrev = IF low THEN @ \cup {pin} ELSE @ \ {pin}]
              [] OTHER -> r
    BY Zenon DEF CustomPin, bank, func, low, was, d, held, key
  <2> HIDE DEF told, t
  <2>2. QED
    BY <2>1
<1>4. /\ DOMAIN d = DOMAIN r /\ d.sink = r.sink /\ d.scan.matrix = r.scan.matrix /\ MemoryShape(d.scan)
      /\ d.scan.debounce = [r.scan.debounce EXCEPT ![pin] = Debounced(@, Read(r, pin, FALSE), Read(r, pin, TRUE))]
  BY <1>1, DebounceDoes
<1>5. /\ held = Debounced(r.scan.debounce[pin], Read(r, pin, FALSE), Read(r, pin, TRUE))
      /\ \A p \in Pins \ {pin} : d.scan.debounce[p] = r.scan.debounce[p]
      /\ held \in {"up", "press", "down", "release"}
  BY <1>1, <1>2, <1>4 DEF MemoryShape
<1>6. held = "up" => r.scan.debounce[pin] \in {"up", "release"}
  BY <1>1, <1>2, <1>5 DEF Debounced
<1>7. /\ \A p \in Pressed(r.scan.debounce) : p # pin => p \in Pressed(d.scan.debounce)
      /\ bank = 0 /\ held \in {"press", "down"} => pin \in Pressed(d.scan.debounce)
      /\ held = "up" => pin \notin Pressed(r.scan.debounce)
  BY <1>1, <1>5, <1>6, BindingsAssumption DEF Pressed, Pins
<1>8. MatrixTold(r.scan, r.sink) /\ gpio_config # "keyboard"
  BY DEF ScanGood
<1> HIDE DEF bank, d, held, told, t, key, low, was
<1>9. CASE bank = 0 /\ held \in {"press", "release"}
  <2>1. t = [d EXCEPT !.sink = told]
    BY <1>3, <1>9
  <2>2. DOMAIN t = DOMAIN r /\ t.sink = told /\ t.scan = d.scan
    BY <1>2, <1>4, <2>1
  <2>3. KeyLeaves(r.sink, told, EmuKeys(func), held = "press")
    <3>1. (held = "press") \in BOOLEAN
      OBVIOUS
    <3>2. QED
      BY <1>2, <1>4, <3>1, ButtonEmu DEF told
  <2> HIDE DEF func
  <2>4. ASSUME NEW k \in told.emu \ excused PROVE \E p \in Pressed(d.scan.debounce) : k \in EmuKeys(Bindings[p][2])
    <3>1. CASE held = "press"
      <4>1. k \in r.sink.emu \/ k \in EmuKeys(func)
        BY <2>3, <3>1, <2>4 DEF KeyLeaves
      <4>2. pin \in Pressed(d.scan.debounce)
        BY <1>7, <1>9, <3>1
      <4>3. QED
        BY <1>2, <1>7, <4>1, <4>2, <2>4 DEF func
    <3>2. CASE held = "release"
      <4>1. k \in r.sink.emu /\ k \notin EmuKeys(func)
        BY <2>3, <3>2, <2>4 DEF KeyLeaves
      <4>2. QED
        BY <1>2, <1>7, <4>1, <2>4 DEF func
    <3>3. QED
      BY <1>9, <3>1, <3>2
  <2>5. told.emu \ excused \subseteq ScanSource(t.scan)
    BY <2>2, <2>4, CustomSource
  <2>6. MatrixTold(t.scan, t.sink)
    BY <1>4, <1>8, <2>2 DEF MatrixTold
  <2>7. ScanGood(t)
    BY <1>2, <1>4, <2>2, <2>3, <2>5, <2>6 DEF ScanGood, KeyLeaves
  <2>8. QED
    BY <2>7 DEF t
<1>10. CASE bank = 0 /\ held \notin {"press", "release"}
  <2>1. t = d
    BY <1>3, <1>10
  <2>2. d.sink.emu \ excused \subseteq ScanSource(d.scan)
    <3>1. \A k \in r.sink.emu \ excused : \E p \in Pressed(d.scan.debounce) : k \in EmuKeys(Bindings[p][2])
      BY <1>2, <1>5, <1>7, <1>10
    <3>2. QED
      BY <1>4, <3>1, CustomSource
  <2>3. MatrixTold(d.scan, d.sink)
    BY <1>4, <1>8 DEF MatrixTold
  <2>4. ScanGood(t)
    BY <1>2, <1>4, <2>1, <2>2, <2>3 DEF ScanGood
  <2>5. QED
    BY <2>4 DEF t
<1>11. CASE bank # 0
  <2>1. CASE t = r
    BY <2>1 DEF t
  <2>2. CASE t = [r EXCEPT !.sink = IF low # was THEN UiKey(@, key, low) ELSE @,
                           !.scan.pinPrev = IF low THEN @ \cup {pin} ELSE @ \ {pin}]
    <3>1. /\ DOMAIN t = DOMAIN r /\ DOMAIN t.scan = DOMAIN r.scan /\ t.sink \in {r.sink, UiKey(r.sink, key, low)}
          /\ t.scan.matrix = r.scan.matrix /\ t.scan.restore = r.scan.restore /\ t.scan.debounce = r.scan.debounce
      BY <1>2, <2>2
    <3>2. EmuRight(t.sink) /\ t.sink.emu = r.sink.emu /\ ~t.sink.capture
      BY <1>2, <3>1, UiKeyEmu
    <3>3. QED
      BY <3>1, <3>2, GoodSame DEF t
  <2>3. QED
    BY <1>3, <1>11, <2>1, <2>2
<1>12. QED
  BY <1>9, <1>10, <1>11

\* All bound pins.
LEMMA CustomPinsGood ==
  ASSUME ui \in BOOLEAN, gpio_config = "custom", NEW r, ScanGood(r)
  PROVE  ScanGood(CustomPins(r))
<1>1. PICK f : /\ f[0] = r
               /\ \A i \in 1 .. 23 : f[i] = IF i - 1 \in DOMAIN Bindings THEN CustomPin(f[i - 1], i - 1) ELSE f[i - 1]
               /\ CustomPins(r) = f[23]
  BY PinsTurns
<1> DEFINE T == {i \in 0 .. 23 : ScanGood(f[i])}
<1>2. 23 \in T
  <2>1. 0 \in T
    BY <1>1
  <2>2. ASSUME NEW i \in 1 .. 23, i - 1 \in T PROVE i \in T
    <3>1. ScanGood(f[i - 1]) /\ i \in 0 .. 23
      BY <2>2
    <3>2. f[i] = IF i - 1 \in DOMAIN Bindings THEN CustomPin(f[i - 1], i - 1) ELSE f[i - 1]
      BY <1>1
    <3>3. ScanGood(f[i])
      BY <3>1, <3>2, CustomPinGood
    <3>4. QED
      BY <3>1, <3>3
  <2> HIDE DEF T
  <2>3. T \in SUBSET (0 .. 23) /\ 23 \in Nat
    BY DEF T
  <2>4. QED
    BY <2>1, <2>2, <2>3, Induct
<1>3. QED
  BY <1>1, <1>2

\* The joysticks on bound pins.
LEMMA CustomJoyGood ==
  ASSUME NEW r, ScanGood(r), NEW port \in Ports
  PROVE  ScanGood(CustomJoy(r, port))
<1> DEFINE bound == {pin \in DOMAIN Bindings : Bindings[pin][1] > 0 /\ port \in BankPort(Bindings[pin][1])}
           low == {Bindings[pin][2] : pin \in {q \in bound : Read(r, q, FALSE)}}
           t == CustomJoy(r, port)
<1>1. t \in {r, [r EXCEPT !.sink = JoyAbsolute(@, port, low)]}
  <2> HIDE DEF low
  <2>1. t = IF ui \/ bound = {} THEN r ELSE [r EXCEPT !.sink = JoyAbsolute(@, port, low)]
    BY Zenon DEF CustomJoy, low
  <2> HIDE DEF t, bound
  <2>2. QED
    BY <2>1
<1> HIDE DEF low, t
<1>2. DOMAIN r = {"sink", "scan", "contacts", "later"} /\ EmuRight(r.sink) /\ ~r.sink.capture
  BY DEF ScanGood
<1>3. DOMAIN t = DOMAIN r /\ t.sink \in {r.sink, JoyAbsolute(r.sink, port, low)} /\ t.scan = r.scan
  BY <1>1, <1>2
<1>4. EmuRight(t.sink) /\ t.sink.emu = r.sink.emu /\ ~t.sink.capture
  BY <1>2, <1>3, LatchedEmu DEF JoyAbsolute
<1>5. QED
  BY <1>3, <1>4, GoodSame DEF t

\* circle_check_gpio
LEMMA ScannedGood ==
  ASSUME SeesInvariant, plugged = "gpio", NEW later
  PROVE  ScanGood(Scanned(Start(later)))
<1> DEFINE r == Start(later)
<1>1. ui \in BOOLEAN /\ EmuRight(sink) /\ ~sink.capture /\ sink.emu \ excused \subseteq ScanSource(scan)
      /\ MemoryShape(scan) /\ MatrixTold(scan, sink)
  BY DEF SeesInvariant, EmuRight, Source, GpioSees
<1>2. ScanGood(r)
  <2>1. DOMAIN r = {"sink", "scan", "contacts", "later"} /\ r.sink = Unpressed(sink) /\ r.scan = scan
    BY DEF Start, Unpressed
  <2> HIDE DEF r
  <2>2. EmuRight(r.sink) /\ r.sink.emu = sink.emu /\ ~r.sink.capture
    BY <1>1, <2>1, UnpressedEmu
  <2>3. MatrixTold(r.scan, r.sink)
    BY <1>1, <2>1, <2>2 DEF MatrixTold
  <2>4. QED
    BY <1>1, <2>1, <2>2, <2>3 DEF ScanGood
<1> HIDE DEF r
<1>3. ASSUME NEW q, ScanGood(q) PROVE ScanGood(Joysticks(q))
  BY <1>1, <1>3, JoystickGood DEF Joysticks
<1>4. CASE gpio_config = "nav"
  <2>1. Len(NavButtons) = 8 /\ \A i \in 1 .. 8 : NavButtons[i][1] \in Pins
    BY DEF NavButtons, Pins
  <2>2. ScanGood(Clicks(r, NavButtons))
    BY <1>1, <1>2, <1>4, <2>1, ClicksGood
  <2>3. QED
    BY <1>3, <1>4, <2>2 DEF Scanned, r
<1>5. CASE gpio_config = "keyboard"
  <2>1. ScanGood(ScanKeyboard(r))
    BY <1>1, <1>2, <1>5, ScanKeyboardGood
  <2>2. QED
    BY <1>3, <1>5, <2>1 DEF Scanned, r
<1>6. CASE gpio_config = "waveshare"
  <2>1. Len(WaveshareButtons) = 5 /\ \A i \in 1 .. 5 : WaveshareButtons[i][1] \in Pins
    BY DEF WaveshareButtons, Pins
  <2>2. ScanGood(Clicks(r, WaveshareButtons))
    <3>1. Len(WaveshareButtons) \in Nat /\ \A i \in 1 .. Len(WaveshareButtons) : WaveshareButtons[i][1] \in Pins
      BY <2>1
    <3>2. gpio_config \notin {"keyboard", "custom"}
      BY <1>6
    <3>3. QED
      BY <1>1, <1>2, <3>1, <3>2, ClicksGood, Zenon
  <2>3. ScanGood(ReadJoystick(Clicks(r, WaveshareButtons), 0, "waveshare"))
    BY <1>1, <2>2, JoystickGood
  <2>4. QED
    BY <1>6, <2>3 DEF Scanned, r
<1>7. CASE gpio_config = "userport"
  BY <1>2, <1>3, <1>7 DEF Scanned, r
<1>8. CASE gpio_config = "custom"
  <2>1. ScanGood(CustomPins(r))
    BY <1>1, <1>2, <1>8, CustomPinsGood
  <2>2. ScanGood(ReadCustomGPIO(r))
    BY <2>1, CustomJoyGood DEF ReadCustomGPIO, Ports
  <2>3. QED
    BY <1>8, <2>2 DEF Scanned, r
<1>9. CASE gpio_config \notin {"nav", "keyboard", "waveshare", "userport", "custom"}
  BY <1>2, <1>9 DEF Scanned, r
<1>10. QED
  BY <1>4, <1>5, <1>6, <1>7, <1>8, <1>9

\* What a scan of the pins has to show.
LEMMA GpioNext ==
  ASSUME SeesInvariant, plugged = "gpio", NEW new, Account(new),
         UNCHANGED <<ui, joydevs, gpio_config, keyboard, report>>,
         EmuRight(sink'), ~sink'.capture, sink'.emu \ excused \subseteq ScanSource(scan'),
         MemoryShape(scan'), MatrixTold(scan', sink')
  PROVE  SeesInvariant'
<1>1. plugged' = "gpio" /\ ui \in BOOLEAN
  BY Accounted DEF SeesInvariant
<1>2. Source' = ScanSource(scan)'
  BY <1>1 DEF Source
<1>3. ScanSource(scan)' = ScanSource(scan')
  BY DEF ScanSource, Pressed, EmuKeys
<1>4. EmuRight(sink)' /\ sink'.emu \ excused' \subseteq Source'
  BY <1>1, <1>2, <1>3, QuietEmu
<1>5. MemoryShape(scan)' <=> MemoryShape(scan')
  BY DEF MemoryShape
<1>6. MatrixTold(scan, sink)'
  <2>1. \A k \in scan'.matrix : MatrixKeys[k] \in excused => MatrixKeys[k] \in excused'
    <3>1. \A k \in scan'.matrix : MatrixKeys[k] \in Held'
      BY <1>1, MatrixHeldNext DEF Account
    <3>2. QED
      BY <3>1, Accounted
  <2>2. \A k : Takers(k)' = Takers(k)
    BY QuietTakers
  <2>3. CASE gpio_config = "keyboard" /\ ~ui
    BY <2>1, <2>2, <2>3 DEF MatrixTold
  <2>4. CASE gpio_config = "keyboard" /\ ui
    BY <2>4 DEF MatrixTold
  <2>5. CASE gpio_config # "keyboard"
    BY <2>1, <2>5 DEF MatrixTold
  <2>6. QED
    BY <1>1, <2>3, <2>4, <2>5
<1>7. keyboard'.keys = {} /\ keyboard'.mods = {} /\ report' = Idle
  BY DEF SeesInvariant
<1>8. QED
  BY <1>1, <1>4, <1>5, <1>6, <1>7 DEF SeesInvariant, GpioSees

\* The pins: a scan in any configuration.
LEMMA GpioSteps == SeesInvariant /\ GpioStep => SeesInvariant'
<1> SUFFICES ASSUME SeesInvariant, GpioStep PROVE SeesInvariant'
  OBVIOUS
<1> DEFINE new == ShiftMoved(scan.shifts, scan'.shifts)
<1>1. plugged = "gpio" /\ UNCHANGED <<ui, joydevs, keyboard, report>> /\ Account(new)
  BY DEF GpioStep, Quiet, usbVars
<1> HIDE DEF new
<1>2. CASE Check
  <2>1. PICK later : LET r == Scanned(Start(later)) IN
          /\ scan' = r.scan /\ UNCHANGED gpio_config
          /\ sink' = r.sink \/ \E port : sink' = [r.sink EXCEPT !.userport = port]
    BY <1>2, Zenon DEF Check
  <2> DEFINE r == Scanned(Start(later))
  <2>2. ScanGood(r)
    BY <1>1, ScannedGood
  <2> HIDE DEF r
  <2>3. /\ scan' = r.scan /\ UNCHANGED gpio_config
        /\ sink' = r.sink \/ \E port : sink' = [r.sink EXCEPT !.userport = port]
    BY <2>1 DEF r
  <2>4. EmuRight(sink') /\ sink'.emu = r.sink.emu /\ ~sink'.capture
    <3>1. CASE sink' = r.sink
      BY <2>2, <3>1 DEF ScanGood
    <3>2. ASSUME NEW port, sink' = [r.sink EXCEPT !.userport = port]
          PROVE  EmuRight(sink') /\ sink'.emu = r.sink.emu /\ ~sink'.capture
      <4>1. EmuRight(r.sink) /\ SinkShape(r.sink) /\ ~r.sink.capture
        BY <2>2 DEF ScanGood, EmuRight
      <4>2. SinkShape(sink') /\ sink'.emu = r.sink.emu /\ sink'.capture = r.sink.capture
        BY <3>2, <4>1 DEF SinkShape
      <4>3. QED
        BY <4>1, <4>2, SameEmu
    <3>3. QED
      BY <2>3, <3>1, <3>2
  <2>5. MemoryShape(scan') /\ MatrixTold(scan', sink') /\ sink'.emu \ excused \subseteq ScanSource(scan')
    BY <2>2, <2>3, <2>4 DEF ScanGood, MatrixTold
  <2>6. QED
    BY <1>1, <2>3, <2>4, <2>5, GpioNext
<1>3. CASE Switch
  <2>1. sink' = Unpressed(sink) /\ UNCHANGED <<gpio_config, scan>>
    BY <1>3 DEF Switch, Unpressed
  <2>2. EmuRight(sink) /\ ~sink.capture /\ sink.emu \ excused \subseteq ScanSource(scan)
        /\ MemoryShape(scan) /\ MatrixTold(scan, sink)
    BY <1>1 DEF SeesInvariant, EmuRight, Source, GpioSees
  <2>3. EmuRight(sink') /\ sink'.emu = sink.emu /\ ~sink'.capture
    BY <2>1, <2>2, UnpressedEmu
  <2>4. MatrixTold(scan', sink')
    BY <2>1, <2>2, <2>3 DEF MatrixTold
  <2>5. QED
    BY <1>1, <2>1, <2>2, <2>3, <2>4, GpioNext
<1>4. QED
  BY <1>2, <1>3 DEF GpioStep

\* The mouse has no keys.
LEMMA MouseSteps == SeesInvariant /\ MouseStep => SeesInvariant'
<1> SUFFICES ASSUME SeesInvariant, MouseStep PROVE SeesInvariant'
  OBVIOUS
<1>1. plugged = "mouse" /\ UNCHANGED <<ui, joydevs, keyboard, report>> /\ Account({}) /\ sink' = Unpressed(sink)
  BY DEF MouseStep, Quiet, MouseReport
<1>2. plugged' = "mouse" /\ ui \in BOOLEAN /\ ~sink.capture /\ EmuRight(sink) /\ sink.emu \subseteq excused
  BY <1>1, Accounted DEF SeesInvariant, EmuRight, Source
<1>3. EmuRight(sink') /\ sink'.emu = sink.emu /\ ~sink'.capture
  BY <1>1, <1>2, UnpressedEmu
<1>4. EmuRight(sink)' /\ sink'.emu \ excused' \subseteq Source'
  BY <1>1, <1>2, <1>3, QuietEmu
<1>5. keyboard'.keys = {} /\ keyboard'.mods = {} /\ report' = Idle
  BY <1>1 DEF SeesInvariant
<1>6. QED
  BY <1>1, <1>2, <1>3, <1>4, <1>5 DEF SeesInvariant

\* The menu changes something while neither a keyboard nor a gamepad is plugged in.
LEMMA OtherChanged ==
  ASSUME SeesInvariant, plugged \notin {"keyboard", "pad"}, NEW new, Account(new), Held \cup Held' \subseteq new,
         UNCHANGED <<keyboard, report, scan>>, ui' \in BOOLEAN,
         SinkShape(sink)', sink'.capture = sink.capture, sink'.emu = sink.emu
  PROVE  SeesInvariant'
<1>1. sink'.capture \in BOOLEAN /\ ~sink'.capture
  BY DEF SeesInvariant, EmuRight
<1>2. plugged' = plugged /\ Held' \subseteq excused' /\ EmuRight(sink)' /\ sink'.emu \subseteq excused'
  BY <1>1, EmuChanged, Accounted
<1>3. keyboard'.keys = {} /\ keyboard'.mods = {} /\ report' = Idle
  BY DEF SeesInvariant
<1>4. ASSUME plugged = "gpio" PROVE GpioSees'
  <2>1. MemoryShape(scan)'
    BY <1>4 DEF SeesInvariant, GpioSees, MemoryShape
  <2>2. \A k \in scan'.matrix : MatrixKeys[k] \in excused'
    <3>1. \A k \in scan'.matrix : MatrixKeys[k] \in Held'
      BY <1>2, <1>4, MatrixHeldNext
    <3>2. QED
      BY <1>2, <3>1
  <2>3. MatrixTold(scan, sink)'
    BY <2>2 DEF MatrixTold
  <2>4. QED
    BY <2>1, <2>3 DEF GpioSees
<1>5. QED
  BY <1>1, <1>2, <1>3, <1>4 DEF SeesInvariant

\* The menu, or an assignment, changes.
LEMMA Changes ==
  ASSUME SeesInvariant, NEW new, Account(new), Held \cup Held' \subseteq new, ui' \in BOOLEAN,
         UNCHANGED <<keyboard, report, padReport, scan>>, pad'.joyPrev = pad.joyPrev,
         \/ sink' = Unpressed(sink)
         \/ plugged = "keyboard" /\ sink' = [Unpressed(sink) EXCEPT !.capture = TRUE]
  PROVE  SeesInvariant'
<1>1. EmuRight(sink) /\ SinkShape(sink) /\ sink.capture \in BOOLEAN
  BY DEF SeesInvariant, EmuRight
<1>2. CASE sink' = Unpressed(sink)
  <2>1. EmuRight(sink') /\ sink'.emu = sink.emu /\ sink'.capture = sink.capture /\ sink'.joy = sink.joy
    BY <1>1, <1>2, UnpressedEmu
  <2>2. SinkShape(sink)'
    BY <2>1 DEF EmuRight, SinkShape
  <2>3. QED
    BY <1>1, <2>1, <2>2, KeyboardChanged, PadChanged, OtherChanged
<1>3. CASE plugged = "keyboard" /\ sink' = [Unpressed(sink) EXCEPT !.capture = TRUE]
  <2>1. /\ SinkShape(Unpressed(sink)) /\ Unpressed(sink).emu = sink.emu /\ Unpressed(sink).joy = sink.joy
    BY <1>1, UnpressedEmu DEF EmuRight
  <2>2. SinkShape(sink') /\ sink'.emu = sink.emu /\ sink'.capture = TRUE /\ sink'.joy = sink.joy
    BY <1>3, <2>1 DEF SinkShape
  <2>3. SinkShape(sink)'
    BY <2>2 DEF SinkShape
  <2>4. QED
    BY <1>3, <2>2, <2>3, KeyboardChanged
<1>4. QED
  BY <1>2, <1>3

\* The menu opens or closes: what is held now is excused.
LEMMA ToggleSees == SeesInvariant /\ Toggle => SeesInvariant'
<1> SUFFICES ASSUME SeesInvariant, Toggle PROVE SeesInvariant'
  OBVIOUS
<1>1. /\ Account(Held) /\ ui' = ~ui /\ sink' = Unpressed(sink)
      /\ UNCHANGED <<joydevs, usbVars, gpioVars>>
  BY DEF Toggle
<1>2. Held' = Held
  BY <1>1, HeldSame, Accounted
<1>3. UNCHANGED <<keyboard, report, padReport, scan, pad>> /\ ui' \in BOOLEAN
  BY <1>1 DEF usbVars, gpioVars
<1>4. QED
  BY <1>1, <1>2, <1>3, Changes

\* The menu assigns, captures a key or chooses functions: what is or was held is excused.
LEMMA MenuSees == SeesInvariant /\ PadTypes /\ MenuChange => SeesInvariant'
<1> SUFFICES ASSUME SeesInvariant, PadTypes, MenuChange PROVE SeesInvariant'
  OBVIOUS
<1>1. Account(Held \cup Held') /\ ui' = ui /\ ui \in BOOLEAN
  BY DEF MenuChange, SeesInvariant
<1>2. (\E choice : Assign(choice)) \/ Capture \/ PadMenu \/ PinMenu
  BY Zenon DEF MenuChange
<1>3. /\ UNCHANGED <<keyboard, report, padReport, scan>> /\ pad'.joyPrev = pad.joyPrev
      /\ \/ sink' = Unpressed(sink)
         \/ plugged = "keyboard" /\ sink' = [Unpressed(sink) EXCEPT !.capture = TRUE]
  <2>1. ASSUME NEW choice, Assign(choice)
        PROVE  UNCHANGED <<keyboard, report, pad, padReport, scan>> /\ sink' = Unpressed(sink)
    BY <2>1 DEF Assign, gpioVars
  <2>2. CASE Capture
    BY <2>2 DEF Capture, usbVars, gpioVars
  <2>3. CASE PadMenu
    <3>1. UNCHANGED <<keyboard, report, padReport, scan>> /\ sink' = Unpressed(sink)
      BY <2>3 DEF PadMenu, gpioVars
    <3>2. PICK p \in {"hat", "paddles", "analog"}, raw \in BOOLEAN : pad' = [pad EXCEPT !.pref = p, !.raw = raw]
      BY <2>3 DEF PadMenu
    <3>3. pad'.joyPrev = pad.joyPrev
      BY <3>2 DEF PadTypes, PadStates
    <3>4. QED
      BY <3>1, <3>3
  <2>4. CASE PinMenu
    <3>1. UNCHANGED usbVars /\ \E config : Configure(config)
      BY <2>4 DEF PinMenu, LoadSettings, ChooseConfig
    <3>2. UNCHANGED scan /\ sink' = Unpressed(sink)
      BY <3>1 DEF Configure, Unpressed
    <3>3. QED
      BY <3>1, <3>2 DEF usbVars
  <2>5. QED
    BY <1>2, <2>1, <2>2, <2>3, <2>4
<1>4. QED
  BY <1>1, <1>3, Changes

\* At first nothing is held and nothing was told.
LEMMA SeesStart == Init => SeesInvariant
<1> SUFFICES ASSUME Init PROVE SeesInvariant
  OBVIOUS
<1>1. /\ keyboard = [mods |-> {}, keys |-> {}, shifts |-> {}] /\ report = Idle /\ padReport = NoPadReport
      /\ \E pref \in {"hat", "paddles", "analog"} :
           pad = [pref |-> pref, buttons |-> {}, dpad |-> 8, dirs |-> {}, x |-> "mid", y |-> "mid",
                  joyPrev |-> {}, raw |-> FALSE]
  BY Zenon DEF Init, UsbInit
<1>2. scan = [debounce |-> [p \in Pins |-> "up"], matrix |-> {}, restore |-> FALSE,
              joyPrev |-> [d \in {0, 1} |-> {}], pinPrev |-> {}, shifts |-> {}]
  BY DEF Init, GpioInit
<1>3. /\ sink = [emu |-> {}, menu |-> {}, unpressed |-> {}, capture |-> FALSE, userport |-> {},
                 joy |-> [p \in Ports |-> [dirs |-> {}, potx |-> "high", poty |-> "high"]]]
      /\ ui = FALSE /\ excused = {}
  BY DEF Init
<1>4. EmuRight(sink) /\ sink.emu = {} /\ ~sink.capture /\ \A p \in Ports : sink.joy[p].dirs = {}
  BY <1>3 DEF EmuRight, SinkShape
<1>5. KeyboardSees
  <2>1. KeyboardTypes
    BY <1>1 DEF KeyboardTypes, Idle, Elements
  <2>2. TodoExcused /\ DownIsTold /\ DirectionsFromKeys
    BY <1>1, <1>4 DEF TodoExcused, DownIsTold, DirectionsFromKeys, Idle, Down
  <2>3. QED
    BY <2>1, <2>2 DEF KeyboardSees
<1>6. PadSees
  BY <1>1 DEF PadSees, NoPadReport
<1>7. GpioSees
  <2>1. MemoryShape(scan) /\ scan.matrix = {}
    BY <1>2 DEF MemoryShape
  <2>2. QED
    BY <2>1 DEF GpioSees, MatrixTold
<1>8. QED
  BY <1>1, <1>3, <1>4, <1>5, <1>6, <1>7 DEF SeesInvariant

\* Every step keeps the invariant.
LEMMA SeesKept == SeesInvariant /\ PadInvariant /\ [Next]_vars => SeesInvariant'
<1> SUFFICES ASSUME SeesInvariant, PadTypes, [Next]_vars PROVE SeesInvariant'
  BY DEF PadInvariant
<1>1. CASE KeyboardStep
  BY <1>1, KeyboardSteps
<1>2. CASE PadStep
  BY <1>2, PadSteps
<1>3. CASE MouseStep
  BY <1>3, MouseSteps
<1>4. CASE GpioStep
  BY <1>4, GpioSteps
<1>5. CASE Toggle
  BY <1>5, ToggleSees
<1>6. CASE MenuChange
  BY <1>6, MenuSees
<1>7. CASE UNCHANGED vars
  <2>1. UNCHANGED <<ui, joydevs, sink, keyboard, report, pad, padReport, scan, gpio_config, plugged, excused>>
    BY <1>7 DEF vars, usbVars, gpioVars
  <2>2. \A k : Takers(k)' = Takers(k) /\ PortOf(k)' = PortOf(k)
    BY <2>1, QuietTakers
  <2>3. EmuRight(sink)' <=> EmuRight(sink)
    BY <2>1, <2>2 DEF EmuRight, SinkShape
  <2>4. Source' = Source
    BY <2>1 DEF Source, ScanSource, Pressed, EmuKeys, Down
  <2>5. KeyboardSees' <=> KeyboardSees
    <3>1. KeyboardTypes' <=> KeyboardTypes
      BY <2>1 DEF KeyboardTypes, Elements
    <3>2. AllNames(Elements(report.todo))' = AllNames(Elements(report.todo))
      BY <2>1, QuietTakers DEF Elements
    <3>3. TodoExcused' <=> TodoExcused
      BY <2>1, <3>2 DEF TodoExcused
    <3>4. DownIsTold' <=> DownIsTold
      BY <2>1, <2>2 DEF DownIsTold, Down
    <3>5. DirectionsFromKeys' <=> DirectionsFromKeys
      BY <2>1, <2>2 DEF DirectionsFromKeys, Down
    <3>6. QED
      BY <3>1, <3>3, <3>4, <3>5 DEF KeyboardSees
  <2>6. PadSees' <=> PadSees
    BY <2>1 DEF PadSees, EmuKeys
  <2>7. GpioSees' <=> GpioSees
    BY <2>1, <2>2 DEF GpioSees, MemoryShape, MatrixTold
  <2>8. QED
    BY <2>1, <2>3, <2>4, <2>5, <2>6, <2>7 DEF SeesInvariant
<1>8. QED
  BY <1>1, <1>2, <1>3, <1>4, <1>5, <1>6, <1>7 DEF Next

\* Whatever is pressed, told and assigned, in whatever order with the menu, the
\* emulator has no key and no direction down that nobody holds, and none that is
\* held is missing, unless it was held across such a change, defined a key set,
\* or is the direction of an F12 that a key set holds (kbd.c, joy.c and the
\* handlers of kernel.cpp).
THEOREM EmulatorAlwaysSeesKeys == Spec => []EmulatorSeesKeys
<1>1. SeesInvariant => EmulatorSeesKeys
  BY SeesEnough
<1>2. QED
  BY <1>1, SeesStart, SeesKept, PadStart, PadKept, PTL DEF Spec

(***************************************************************************)
(* What the menu sees                                                      *)
(***************************************************************************)
MenuKeys(dirs) == {MenuKey[d] : d \in dirs}

\* The menu's name of a key, and those of a button: none while it is closed.
KeySays(key) ==
  IF ~ui THEN {} ELSE IF Takers(key) = {} THEN {key} ELSE {MenuKey[KeysOf(joydevs[PortOf(key)])[key]]}
ButtonSays(func, isUi) ==
  CASE func = "MENU"   -> KeySays("F12")
    [] func = "CUSTOM" -> KeySays(Binding)
    [] func = "BACK"   -> IF isUi THEN {"Escape"} ELSE KeySays("Escape")
    [] OTHER -> IF isUi /\ func \in Directions THEN {MenuKey[func]} ELSE {}

\* The names in the menu of what the handlers remember as down.
KeyboardSays(memory) ==
  (UNION {KeySays(Translated(k, memory.shifts # {})) : k \in memory.keys}) \cup (UNION {KeySays(m) : m \in memory.mods})
PadDirs(memory) == IF memory.pref = "analog" THEN memory.dirs ELSE MenuHat(memory.dpad)
PadSays(memory) ==
  (IF ui THEN MenuKeys(PadDirs(memory)) ELSE {}) \cup (UNION {ButtonSays(PadButtons[i], ui) : i \in memory.joyPrev})
PinSays(pin) ==
  CASE ~ui -> {}
    [] ui /\ Bindings[pin][1] = 0 -> ButtonSays(Bindings[pin][2], TRUE)
    [] OTHER -> IF Bindings[pin][2] \in Directions THEN {MenuKey[Bindings[pin][2]]} ELSE {"none"}
PinsDown(memory) ==
  {p \in DOMAIN Bindings : IF Bindings[p][1] = 0 THEN memory.debounce[p] \in {"press", "down"} ELSE p \in memory.pinPrev}
StickSays(memory) == IF ui THEN MenuKeys(memory.joyPrev[0] \cup memory.joyPrev[1]) ELSE {}
MatrixSays(memory) ==
  (UNION {KeySays(Translated(MatrixKeys[k], memory.shifts # {})) : k \in memory.matrix})
    \cup (IF memory.restore THEN KeySays("PageUp") ELSE {})
ScanSays(memory) ==
  CASE gpio_config = "keyboard" -> StickSays(memory) \cup MatrixSays(memory)
    [] gpio_config = "custom"   -> UNION {PinSays(p) : p \in PinsDown(memory)}
    [] OTHER -> StickSays(memory)
Says ==
  CASE plugged = "keyboard" -> KeyboardSays(keyboard)
    [] plugged = "pad"      -> PadSays(pad)
    [] plugged = "gpio"     -> ScanSays(scan)
    [] OTHER -> {}

\* What is left of a keyboard's report has changed, and is told once.
Distinct(keys) == \A i, j \in DOMAIN keys : keys[i] = keys[j] => i = j
Fresh(keys, old, new) == Distinct(keys) /\ \A k \in Elements(keys) : ~(k \in old <=> k \in new)
TodoFresh ==
  /\ report.stage \in {"mods", "shift"} => Fresh(report.todo, keyboard.mods, report.mods)
  /\ report.stage = "keys" => Fresh(report.todo, keyboard.keys, report.keys)

\* The menu has down what it was told, and was told what is remembered.
MenuRight ==
  /\ unexplained = {}
  /\ sink.menu \ excused \subseteq Says
  /\ Says \subseteq sink.menu \cup excused \cup doubled
SticksShape(memory) == memory.joyPrev \in [{0, 1} -> SUBSET Directions]
MenuInvariant ==
  /\ MenuRight
  /\ plugged = "keyboard" => TodoFresh
  /\ plugged = "pad" /\ ~padReport.handled /\ padReport.seen # ui => Held \subseteq excused
  /\ plugged = "gpio" => SticksShape(scan)

\* What the menu is told of some names.
MenuTold(s, t, names, press) ==
  /\ t.menu = IF press THEN s.menu \cup names ELSE s.menu \ names
  /\ t.unpressed = IF press THEN s.unpressed ELSE s.unpressed \cup (names \ s.menu)

\* In the middle of a step: the menu has down what is remembered now, and misses
\* or was wrongly told only what was remembered before; known names apart.
Fits(s, now, before, known) ==
  /\ s.menu \ known \subseteq now
  /\ now \subseteq s.menu \cup before \cup known
  /\ s.unpressed \subseteq before \cup known

\* One thing that is told, and remembered.
LEMMA ToldFits ==
  ASSUME NEW s, NEW now, NEW before, NEW known, Fits(s, now, before, known),
         NEW t, NEW names, NEW press \in BOOLEAN, MenuTold(s, t, names, press), NEW next,
         press => next \subseteq now \cup names \cup known /\ now \cup names \subseteq next \cup known,
         ~press => /\ names \subseteq before \cup known
                   /\ next \subseteq now \cup known /\ now \subseteq next \cup names \cup known
  PROVE  Fits(t, next, before, known)
<1>1. CASE press
  BY <1>1 DEF Fits, MenuTold
<1>2. CASE ~press
  BY <1>2 DEF Fits, MenuTold
<1>3. QED
  BY <1>1, <1>2

\* More is known, or what is remembered changes within what is known.
LEMMA KnownFits ==
  ASSUME NEW s, NEW now, NEW before, NEW known, Fits(s, now, before, known),
         NEW more, known \subseteq more, NEW next, next \subseteq now \cup more, now \subseteq next \cup more,
         NEW t, t.menu = s.menu, t.unpressed = s.unpressed
  PROVE  Fits(t, next, before, more)
  BY DEF Fits

\* The cursor's directions, from those remembered.
LEMMA MovesFit ==
  ASSUME NEW s, SinkShape(s), NEW now, NEW before, NEW known, Fits(s, now, before, known),
         NEW old, NEW new, MenuKeys(old) \subseteq before \cup known, NEW next,
         next \subseteq now \cup MenuKeys(new) \cup known,
         now \cup MenuKeys(new) \subseteq next \cup MenuKeys(old \ new) \cup known
  PROVE  Fits(MenuMoves(s, old, new), next, before, known)
<1> DEFINE t == MenuMoves(s, old, new)
<1>1. /\ t.menu = (s.menu \cup MenuKeys(new \ old)) \ MenuKeys(old \ new)
      /\ t.unpressed = s.unpressed \cup (MenuKeys(old \ new) \ s.menu)
  BY DEF MenuMoves, SinkShape, MenuKeys
<1>2. /\ MenuKeys(old \ new) \subseteq MenuKeys(old) /\ MenuKeys(new \ old) \subseteq MenuKeys(new)
      /\ MenuKeys(new) \subseteq MenuKeys(new \ old) \cup MenuKeys(old)
  BY DEF MenuKeys
<1> HIDE DEF t
<1>3. Fits(t, next, before, known)
  BY <1>1, <1>2 DEF Fits
<1>4. QED
  BY <1>3 DEF t

\* In the menu only the number pad is taken, for the cursor's directions.
LEMMA PadTaken ==
  ASSUME ui, NEW key, Takers(key) # {}
  PROVE  /\ key \in {"KP0", "KP1", "KP2", "KP3", "KP4", "KP5", "KP6", "KP7", "KP8", "KP9"}
         /\ PortOf(key) \in Ports /\ key \in DOMAIN KeysOf(joydevs[PortOf(key)])
         /\ KeysOf(joydevs[PortOf(key)])[key] \in Directions
<1> DEFINE p == PortOf(key)
<1>1. p \in Ports /\ key \in DOMAIN KeysOf(joydevs[p]) /\ joydevs[p] \in NumberPad
  BY DEF PortOf, Takers, Ports
<1>2. CASE joydevs[p] = "NUMS_1"
  <2>1. KeysOf(joydevs[p]) = [KP8 |-> "up", KP2 |-> "down", KP4 |-> "left", KP6 |-> "right", KP5 |-> "fire"]
    BY <1>2, KeysetAssumption DEF KeysOf
  <2> HIDE DEF p
  <2>2. key \in {"KP8", "KP2", "KP4", "KP6", "KP5"} /\ KeysOf(joydevs[p])[key] \in Directions
    BY <1>1, <2>1 DEF Directions
  <2>3. QED
    BY <1>1, <2>2 DEF p
<1>3. CASE joydevs[p] = "NUMS_2"
  <2>1. KeysOf(joydevs[p]) = [KP9 |-> "up", KP3 |-> "down", KP7 |-> "left", KP1 |-> "right", KP0 |-> "fire"]
    BY <1>3, KeysetAssumption DEF KeysOf
  <2> HIDE DEF p
  <2>2. key \in {"KP9", "KP3", "KP7", "KP1", "KP0"} /\ KeysOf(joydevs[p])[key] \in Directions
    BY <1>1, <2>1 DEF Directions
  <2>3. QED
    BY <1>1, <2>2 DEF p
<1>4. QED
  BY <1>1, <1>2, <1>3 DEF NumberPad

\* A key is told to the menu by the menu's name, if the menu is open.
LEMMA UiKeyMenu ==
  ASSUME NEW s, SinkShape(s), NEW key, NEW press \in BOOLEAN
  PROVE  MenuTold(s, UiKey(s, key, press), {key}, press)
  BY DEF UiKey, SinkShape, MenuTold

LEMMA KeyMenu ==
  ASSUME ui \in BOOLEAN, NEW s, SinkShape(s), ~s.capture, NEW key, NEW press \in BOOLEAN
  PROVE  MenuTold(s, Key(s, key, press), KeySays(key), press)
<1> DEFINE moves == KeysOf(joydevs[PortOf(key)])[key]
           t == Key(s, key, press)
<1>1. ui => TakenBy(key, press) = Takers(key)
  BY PadTaken DEF TakenBy
<1>2. t = IF TakenBy(key, press) # {} THEN IF ui THEN UiKey(s, MenuKey[moves], press) ELSE JoyKey(s, PortOf(key), moves, press)
          ELSE IF ui THEN UiKey(s, key, press) ELSE EmuKey(s, key, press)
  BY DEF Key, PortOf, TakenBy
<1>3. KeySays(key) = IF ~ui THEN {} ELSE IF Takers(key) = {} THEN {key} ELSE {MenuKey[moves]}
  BY DEF KeySays
<1>4. TakenBy(key, press) # {} => PortOf(key) \in Ports /\ moves \in Moves
  BY KeysOfMoves DEF TakenBy, PortOf, Takers, Ports
<1> HIDE DEF moves, t
<1>5. CASE ui
  BY <1>2, <1>3, <1>5, <1>1, UiKeyMenu DEF t
<1>6. CASE ~ui /\ TakenBy(key, press) # {}
  <2>1. t = JoyKey(s, PortOf(key), moves, press) /\ KeySays(key) = {}
    BY <1>2, <1>3, <1>6
  <2>2. t.menu = s.menu /\ t.unpressed = s.unpressed
    BY <1>4, <1>6, <2>1, JoyKeySink
  <2>3. QED
    BY <2>1, <2>2 DEF MenuTold, t
<1>7. CASE ~ui /\ TakenBy(key, press) = {}
  <2>1. t = EmuKey(s, key, press) /\ KeySays(key) = {}
    BY <1>2, <1>3, <1>7
  <2>2. t.menu = s.menu /\ t.unpressed = s.unpressed
    BY <2>1 DEF EmuKey, SinkShape
  <2>3. QED
    BY <2>1, <2>2 DEF MenuTold, t
<1>8. QED
  BY <1>5, <1>6, <1>7

\* A captured key is not told.
LEMMA CaptureMenu ==
  ASSUME NEW s, SinkShape(s), s.capture, NEW key, NEW press \in BOOLEAN
  PROVE  Key(s, key, press).menu = s.menu /\ Key(s, key, press).unpressed = s.unpressed
<1>1. Key(s, key, press) \in {s, [s EXCEPT !.capture = FALSE]}
  BY DEF Key
<1>2. [s EXCEPT !.capture = FALSE].menu = s.menu /\ [s EXCEPT !.capture = FALSE].unpressed = s.unpressed
  BY DEF SinkShape
<1>3. QED
  BY <1>1, <1>2

LEMMA ButtonMenu ==
  ASSUME ui \in BOOLEAN, NEW s, SinkShape(s), ~s.capture, NEW func, NEW press \in BOOLEAN, NEW isUi \in BOOLEAN
  PROVE  MenuTold(s, Button(s, func, press, isUi), ButtonSays(func, isUi), press)
<1> DEFINE t == Button(s, func, press, isUi)
<1>1. CASE func = "MENU"
  <2>1. t = Key(s, "F12", press) /\ ButtonSays(func, isUi) = KeySays("F12")
    BY <1>1 DEF Button, ButtonSays, Directions
  <2>2. QED
    BY <2>1, KeyMenu
<1>2. CASE func = "CUSTOM"
  <2>1. t = Key(s, Binding, press) /\ ButtonSays(func, isUi) = KeySays(Binding)
    BY <1>2 DEF Button, ButtonSays, Directions
  <2>2. QED
    BY <2>1, KeyMenu
<1>3. CASE func = "BACK" /\ ~isUi
  <2>1. t = Key(s, "Escape", press) /\ ButtonSays(func, isUi) = KeySays("Escape")
    BY <1>3 DEF Button, ButtonSays, Directions
  <2>2. QED
    BY <2>1, KeyMenu
<1>4. CASE func = "BACK" /\ isUi
  <2>1. t = UiKey(s, "Escape", press) /\ ButtonSays(func, isUi) = {"Escape"}
    BY <1>4 DEF Button, ButtonSays, Directions
  <2>2. QED
    BY <2>1, UiKeyMenu
<1>5. CASE func \in Directions /\ isUi
  <2>1. t = UiKey(s, MenuKey[func], press) /\ ButtonSays(func, isUi) = {MenuKey[func]}
    BY <1>5 DEF Button, ButtonSays, Directions
  <2>2. QED
    BY <2>1, UiKeyMenu
<1>6. CASE func \notin {"MENU", "CUSTOM", "BACK"} /\ ~(func \in Directions /\ isUi)
  <2>1. t = s /\ ButtonSays(func, isUi) = {}
    BY <1>6 DEF Button, ButtonSays
  <2>2. QED
    BY <2>1 DEF MenuTold
<1>7. QED
  BY <1>1, <1>2, <1>3, <1>4, <1>5, <1>6

\* A key of its own name, if it is not of the number pad.
LEMMA OwnName ==
  ASSUME NEW key, key \notin {"KP0", "KP1", "KP2", "KP3", "KP4", "KP5", "KP6", "KP7", "KP8", "KP9"}
  PROVE  KeySays(key) = IF ui THEN {key} ELSE {}
  BY PadTaken DEF KeySays

\* The menu's name is one of the names of the key,
LEMMA SaysNamed ==
  /\ \A n : KeySays(n) \subseteq {n} \cup Taken({n})
  /\ \A key : \A n \in {key, Translated(key, TRUE)} : KeySays(n) \subseteq KeyNames(key)
  /\ \A isUi \in BOOLEAN : \A func : ButtonSays(func, isUi) \subseteq ButtonKeys(func)
<1>1. ASSUME NEW n PROVE KeySays(n) \subseteq {n} \cup Taken({n})
  <2>1. CASE ~ui \/ Takers(n) = {}
    BY <2>1 DEF KeySays
  <2>2. CASE ui /\ Takers(n) # {}
    <3> DEFINE p == PortOf(n)
               d == KeysOf(joydevs[p])[n]
    <3>1. p \in Ports /\ n \in DOMAIN KeysOf(joydevs[p]) /\ d \in Directions
      BY <2>2, PadTaken
    <3>2. d \in MovesOf({n}, p)
      BY <3>1 DEF MovesOf
    <3>3. KeySays(n) = {MenuKey[d]}
      BY <2>2 DEF KeySays
    <3> HIDE DEF d
    <3>4. MenuKey[d] \in MoveKeys(d)
      BY <3>1 DEF MoveKeys
    <3>5. QED
      BY <3>1, <3>2, <3>3, <3>4 DEF Taken
  <2>3. QED
    BY <2>1, <2>2
<1>2. ASSUME NEW key, NEW n \in {key, Translated(key, TRUE)} PROVE KeySays(n) \subseteq KeyNames(key)
  <2>1. Taken({n}) \subseteq Taken({key, Translated(key, TRUE)})
    <3>1. \A p \in Ports : MovesOf({n}, p) \subseteq MovesOf({key, Translated(key, TRUE)}, p)
      BY DEF MovesOf
    <3>2. QED
      BY <3>1 DEF Taken
  <2>2. QED
    BY <1>1, <2>1 DEF KeyNames
<1>3. ASSUME NEW isUi \in BOOLEAN, NEW func PROVE ButtonSays(func, isUi) \subseteq ButtonKeys(func)
  <2>1. KeySays("F12") \subseteq {"F12"} /\ KeySays("Escape") \subseteq {"Escape"}
    BY OwnName
  <2>2. KeySays(Binding) \subseteq {Binding} \cup Taken({Binding})
    BY <1>1
  <2>3. func \in Directions => func \notin {"MENU", "CUSTOM", "BACK"} /\ MenuKey[func] \in MoveKeys(func)
    BY DEF Directions, MoveKeys
  <2>4. QED
    BY <2>1, <2>2, <2>3 DEF ButtonSays, ButtonKeys
<1>4. QED
  BY <1>1, <1>2, <1>3

\* so what the menu is told of what is remembered is held.
LEMMA SaysHeld ==
  ASSUME PadTypes, plugged = "gpio" => SticksShape(scan)
  PROVE  Says \subseteq Held
<1>1. CASE plugged = "keyboard"
  <2>1. \A k \in keyboard.keys \cup keyboard.mods : KeyNames(k) \subseteq Held
    <3>1. \A k \in keyboard.keys \cup keyboard.mods : KeyNames(k) \subseteq AllNames(keyboard.keys \cup keyboard.mods)
      BY Named
    <3>2. QED
      BY <1>1, <3>1 DEF Held, UsbHeld
  <2>2. \A k \in keyboard.keys : KeySays(Translated(k, keyboard.shifts # {})) \subseteq KeyNames(k)
    <3>1. \A k : Translated(k, keyboard.shifts # {}) \in {k, Translated(k, TRUE)}
      BY DEF Translated
    <3>2. QED
      BY <3>1, SaysNamed
  <2>3. \A m \in keyboard.mods : KeySays(m) \subseteq KeyNames(m)
    BY SaysNamed
  <2>4. KeyboardSays(keyboard) \subseteq Held
    BY <2>1, <2>2, <2>3 DEF KeyboardSays
  <2>5. QED
    BY <1>1, <2>4 DEF Says
<1>2. CASE plugged = "pad"
  <2> DEFINE funcs == pad.dirs \cup MenuHat(pad.dpad) \cup Assigned(pad.joyPrev)
  <2>1. \A f \in funcs : ButtonKeys(f) \subseteq Held
    <3>1. AllButtonKeys(funcs) \subseteq Held
      BY <1>2 DEF Held, UsbHeld
    <3> HIDE DEF funcs
    <3>2. QED
      BY <3>1, Named
  <2>2. pad.dirs \subseteq Directions /\ MenuHat(pad.dpad) \subseteq Directions
    BY DEF PadTypes, PadStates, MenuHat, HatKeys, Directions
  <2>3. PadDirs(pad) \subseteq funcs /\ PadDirs(pad) \subseteq Directions
    BY <2>2 DEF PadDirs
  <2>4. \A d \in Directions : MenuKey[d] \in ButtonKeys(d)
    BY DEF ButtonKeys, MoveKeys, Directions
  <2>5. \A i \in pad.joyPrev : PadButtons[i] \in funcs
    BY DEF Assigned
  <2>6. ui \in BOOLEAN
    BY DEF PadTypes
  <2> HIDE DEF funcs
  <2>7. PadSays(pad) \subseteq Held
    BY <2>1, <2>3, <2>4, <2>5, <2>6, SaysNamed DEF PadSays, MenuKeys
  <2>8. QED
    BY <1>2, <2>7 DEF Says
<1>3. CASE plugged = "gpio"
  <2>0. Held = GpioHeld
    BY <1>3 DEF Held
  <2>1. StickSays(scan) \subseteq GpioHeld
    <3> DEFINE funcs == scan.joyPrev[0] \cup scan.joyPrev[1]
    <3>1. AllButtonKeys(funcs) \subseteq GpioHeld
      BY DEF GpioHeld
    <3>2. funcs \subseteq Directions
      BY <1>3 DEF SticksShape
    <3>3. \A d \in Directions : MenuKey[d] \in ButtonKeys(d)
      BY DEF ButtonKeys, MoveKeys, Directions
    <3>4. StickSays(scan) \subseteq MenuKeys(funcs)
      BY DEF StickSays
    <3> HIDE DEF funcs
    <3>5. QED
      BY <3>1, <3>2, <3>3, <3>4, Named DEF MenuKeys
  <2>2. MatrixSays(scan) \subseteq GpioHeld
    <3> DEFINE keys == {MatrixKeys[k] : k \in scan.matrix} \cup (IF scan.restore THEN {"PageUp"} ELSE {})
    <3>1. AllNames(keys) \subseteq GpioHeld
      BY DEF GpioHeld
    <3>2. \A k \in scan.matrix : MatrixKeys[k] \in keys
      OBVIOUS
    <3>3. scan.restore => "PageUp" \in keys
      OBVIOUS
    <3> HIDE DEF keys
    <3>4. \A k : Translated(k, scan.shifts # {}) \in {k, Translated(k, TRUE)}
      BY DEF Translated
    <3>5. \A k \in keys : KeyNames(k) \subseteq GpioHeld
      BY <3>1, Named
    <3>6. \A k : KeySays(Translated(k, scan.shifts # {})) \subseteq KeyNames(k) /\ KeySays(k) \subseteq KeyNames(k)
      BY <3>4, SaysNamed
    <3>7. QED
      BY <3>2, <3>3, <3>5, <3>6 DEF MatrixSays
  <2>3. ASSUME NEW p \in PinsDown(scan) PROVE PinSays(p) \subseteq GpioHeld
    <3>1. p \in {q \in DOMAIN Bindings : q \in scan.pinPrev \/ scan.debounce[q] \in {"press", "down"}}
      BY DEF PinsDown
    <3>2. PinKeys(p) \subseteq GpioHeld
      BY <3>1 DEF GpioHeld
    <3>3. PinSays(p) \subseteq PinKeys(p)
      <4>1. CASE Bindings[p][1] = 0
        BY <4>1, SaysNamed DEF PinSays, PinKeys
      <4>2. CASE Bindings[p][1] # 0
        <5>1. Bindings[p][2] \in Directions => MenuKey[Bindings[p][2]] \in ButtonKeys(Bindings[p][2])
          BY DEF ButtonKeys, MoveKeys, Directions
        <5>2. QED
          BY <4>2, <5>1 DEF PinSays, PinKeys
      <4>3. QED
        BY <4>1, <4>2
    <3>4. QED
      BY <3>2, <3>3
  <2>4. ScanSays(scan) \subseteq GpioHeld
    BY <2>1, <2>2, <2>3 DEF ScanSays
  <2>5. QED
    BY <1>3, <2>0, <2>4 DEF Says
<1>4. CASE plugged \notin {"keyboard", "pad", "gpio"}
  BY <1>4 DEF Says
<1>5. QED
  BY <1>1, <1>2, <1>3, <1>4

LEMMA SaysHeldNext == (PadTypes /\ (plugged = "gpio" => SticksShape(scan)) => Says \subseteq Held)'
<1>1. PadTypes /\ (plugged = "gpio" => SticksShape(scan)) => Says \subseteq Held
  BY SaysHeld
<1>2. QED
  BY <1>1, PTL

\* What a step has to show.
LEMMA MenuNext ==
  ASSUME MenuRight, NEW new, Account(new), Fits(sink', Says', Says, excused \cup new), Says' \subseteq Held'
  PROVE  MenuRight'
<1>1. \A k \in excused \cup new : k \in Held' \/ k \in sink'.menu => k \in excused'
  BY DEF Account, Heard
<1>2. unexplained' = {}
  BY DEF Account, Fits, MenuRight
<1>3. sink'.menu \ excused' \subseteq Says'
  BY <1>1 DEF Fits
<1>4. Says' \subseteq sink'.menu \cup excused' \cup doubled'
  <2>1. \A k \in Held' : k \in doubled \/ (k \in sink.menu /\ k \notin sink'.menu) => k \in doubled'
    BY DEF Account
  <2>2. QED
    BY <1>1, <2>1 DEF Fits, MenuRight
<1>5. QED
  BY <1>2, <1>3, <1>4 DEF MenuRight

\* Nothing is told at the beginning.
LEMMA UnpressedFits ==
  ASSUME MenuRight, SinkShape(sink), NEW known, excused \subseteq known
  PROVE  Fits(Unpressed(sink), Says, Says, known)
<1>1. Unpressed(sink).menu = sink.menu /\ Unpressed(sink).unpressed = {}
  BY DEF Unpressed, SinkShape
<1>2. QED
  BY <1>1 DEF Fits, MenuRight

\* The menu's names change with the menu and the assignment only.
LEMMA QuietSays ==
  ASSUME UNCHANGED <<ui, joydevs>>
  PROVE  /\ \A k : KeySays(k)' = KeySays(k)
         /\ KeyboardSays(keyboard)' = KeyboardSays(keyboard')
         /\ PadSays(pad)' = PadSays(pad')
         /\ gpio_config' = gpio_config => ScanSays(scan)' = ScanSays(scan')
<1>1. \A k : KeySays(k)' = KeySays(k)
  BY QuietTakers DEF KeySays
<1>2. KeyboardSays(keyboard)' = KeyboardSays(keyboard')
  BY DEF KeyboardSays, KeySays, Takers, PortOf
<1>3. PadSays(pad)' = PadSays(pad')
  BY DEF PadSays, ButtonSays, KeySays, Takers, PortOf, PadDirs, MenuHat
<1>4. gpio_config' = gpio_config => ScanSays(scan)' = ScanSays(scan')
  BY DEF ScanSays, StickSays, MatrixSays, PinsDown, PinSays, ButtonSays, KeySays, Takers, PortOf
<1>5. QED
  BY <1>1, <1>2, <1>3, <1>4


\* The changed keys of a report, each once.
LEMMA ChangedFresh ==
  ASSUME NEW keys \in Seq(STRING), Distinct(keys), NEW old, NEW new
  PROVE  Fresh(Changed(keys, old, new), old, new)
<1> DEFINE n == Len(keys)
<1>1. n \in Nat /\ DOMAIN keys = 1 .. n /\ \A i \in 1 .. n : keys[i] \in STRING
  OBVIOUS
<1>0. n \in Nat
  OBVIOUS
<1>2. PICK f : /\ f[0] = <<>>
               /\ \A i \in 1 .. n :
                    f[i] = IF (keys[i] \in new) = (keys[i] \in old) THEN f[i - 1] ELSE Append(f[i - 1], keys[i])
               /\ Changed(keys, old, new) = f[n]
  BY <1>0, ChangedTurns
<1> DEFINE Good(i) == /\ f[i] \in Seq(STRING)
                      /\ Fresh(f[i], old, new)
                      /\ \A x \in DOMAIN f[i] : \E j \in 1 .. i : f[i][x] = keys[j]
<1>3. Good(0)
  <2>1. f[0] \in Seq(STRING) /\ DOMAIN f[0] = {}
    BY <1>2
  <2>2. QED
    BY <2>1 DEF Fresh, Distinct, Elements
<1>4. ASSUME NEW i \in 1 .. n, Good(i - 1) PROVE Good(i)
  <2> DEFINE g == f[i - 1]
             k == keys[i]
  <2>1. i - 1 \in Nat /\ g \in Seq(STRING) /\ k \in STRING /\ i \in DOMAIN keys
    BY <1>1, <1>4
  <2>2. CASE (k \in new) = (k \in old)
    <3>1. f[i] = g
      BY <1>2, <2>2
    <3>2. \A j \in 1 .. i - 1 : j \in 1 .. i
      BY <1>1
    <3> HIDE DEF g
    <3>3. QED
      BY <1>4, <3>1, <3>2 DEF g
  <2>3. CASE ~((k \in new) = (k \in old))
    <3>1. f[i] = Append(g, k)
      BY <1>2, <2>3
    <3>2. \A x \in DOMAIN g : g[x] # k
      <4>1. \A x \in DOMAIN g : \E j \in 1 .. i - 1 : g[x] = keys[j]
        BY <1>4
      <4>2. \A j \in 1 .. i - 1 : j \in DOMAIN keys /\ j # i
        BY <1>1
      <4>3. QED
        BY <2>1, <4>1, <4>2 DEF Distinct
    <3>3. Distinct(g) /\ \A x \in DOMAIN g : ~(g[x] \in old <=> g[x] \in new)
      BY <1>4 DEF Fresh, Elements
    <3>4. \A x \in DOMAIN g : \E j \in 1 .. i : g[x] = keys[j]
      BY <1>1, <1>4
    <3> HIDE DEF g
    <3>5. /\ f[i] \in Seq(STRING)
          /\ DOMAIN f[i] = DOMAIN g \cup {Len(g) + 1} /\ f[i][Len(g) + 1] = k
          /\ \A x \in DOMAIN g : f[i][x] = g[x]
      BY <2>1, <3>1
    <3> HIDE DEF k
    <3>6. Distinct(f[i])
      BY <3>2, <3>3, <3>5 DEF Distinct
    <3>7. \A x \in DOMAIN f[i] : ~(f[i][x] \in old <=> f[i][x] \in new)
      BY <2>3, <3>3, <3>5
    <3>8. \A x \in DOMAIN f[i] : \E j \in 1 .. i : f[i][x] = keys[j]
      BY <1>1, <3>4, <3>5 DEF k
    <3>9. QED
      BY <3>5, <3>6, <3>7, <3>8 DEF Fresh, Elements
  <2>4. QED
    BY <2>2, <2>3
<1> DEFINE T == {i \in 0 .. n : Good(i)}
<1>5. T \in SUBSET (0 .. n) /\ 0 \in T
  BY <1>1, <1>3
<1>6. \A i \in 1 .. n : i - 1 \in T => i \in T
  BY <1>1, <1>4
<1> HIDE DEF T
<1>7. n \in T
  BY <1>1, <1>5, <1>6, Induct
<1> USE DEF T
<1> HIDE DEF Good
<1>8. Good(n)
  BY <1>7
<1>9. QED
  BY <1>2, <1>8 DEF Good

\* The first of them is told, and is the same in both reports then.
LEMMA TailFresh ==
  ASSUME NEW E, NEW q \in Seq(E), q # <<>>, NEW old, NEW new, Fresh(q, old, new),
         NEW next, next = IF Head(q) \in new THEN old \cup {Head(q)} ELSE old \ {Head(q)}
  PROVE  /\ Fresh(Tail(q), next, new)
         /\ Head(q) \in new <=> Head(q) \notin old
<1>1. /\ DOMAIN Tail(q) = 1 .. Len(q) - 1 /\ Len(q) \in Nat \ {0} /\ DOMAIN q = 1 .. Len(q) /\ Head(q) = q[1]
      /\ \A i \in 1 .. Len(q) - 1 : Tail(q)[i] = q[i + 1]
  OBVIOUS
<1>2. 1 \in DOMAIN q /\ \A i \in DOMAIN Tail(q) : i + 1 \in DOMAIN q /\ i + 1 # 1 /\ Tail(q)[i] = q[i + 1]
  BY <1>1
<1>3. \A i, j \in DOMAIN Tail(q) : i + 1 = j + 1 => i = j
  BY <1>1
<1> DEFINE t == Tail(q)
           h == Head(q)
<1>4. h = q[1]
  BY <1>1
<1>5. \A i \in DOMAIN t : i + 1 \in DOMAIN q /\ t[i] = q[i + 1] /\ t[i] # h
  BY <1>2, <1>4 DEF Fresh, Distinct
<1>6. Distinct(t)
  BY <1>2, <1>3 DEF Fresh, Distinct
<1>7. \A i \in DOMAIN q : ~(q[i] \in old <=> q[i] \in new)
  BY DEF Fresh, Elements
<1> HIDE DEF t, h
<1>8. \A i \in DOMAIN t : ~(t[i] \in next <=> t[i] \in new)
  BY <1>5, <1>7 DEF h
<1>9. h \in new <=> h \notin old
  BY <1>2, <1>4, <1>7
<1>10. QED
  BY <1>6, <1>8, <1>9 DEF Fresh, Elements, t, h

\* One key that is told, or captured.
LEMMA KeyFits ==
  ASSUME MenuRight, SinkShape(sink), ui \in BOOLEAN, NEW n, NEW press \in BOOLEAN, sink' = Key(Unpressed(sink), n, press),
         NEW known, excused \subseteq known, NEW own, sink.capture => own \subseteq known,
         own = KeySays(n) \/ own \cup KeySays(n) \subseteq known, NEW next,
         press => next \subseteq Says \cup own \cup known /\ Says \cup own \subseteq next \cup known,
         ~press => /\ own \subseteq Says \cup known
                   /\ next \subseteq Says \cup known /\ Says \subseteq next \cup own \cup known
  PROVE  Fits(sink', next, Says, known)
<1> DEFINE s == Unpressed(sink)
<1>1. SinkShape(s) /\ s.capture = sink.capture
  BY UnpressedShape DEF Unpressed, SinkShape
<1>2. Fits(s, Says, Says, known)
  BY UnpressedFits
<1>3. CASE sink.capture
  <2>1. sink'.menu = s.menu /\ sink'.unpressed = s.unpressed
    BY <1>1, <1>3, CaptureMenu
  <2> HIDE DEF s
  <2>2. QED
    BY <1>2, <1>3, <2>1, KnownFits
<1>4. CASE ~sink.capture
  <2>1. MenuTold(s, sink', KeySays(n), press)
    BY <1>1, <1>4, KeyMenu
  <2> HIDE DEF s
  <2>2. /\ press => next \subseteq Says \cup KeySays(n) \cup known /\ Says \cup KeySays(n) \subseteq next \cup known
        /\ ~press => /\ KeySays(n) \subseteq Says \cup known
                     /\ next \subseteq Says \cup known /\ Says \subseteq next \cup KeySays(n) \cup known
    OBVIOUS
  <2>3. QED
    BY <1>2, <2>1, <2>2, ToldFits
<1>5. QED
  BY <1>3, <1>4

\* A shift key changes the cursor's names only.
LEMMA ShiftSays ==
  ASSUME NEW key, NEW a, NEW b
  PROVE  KeySays(Translated(key, a)) \subseteq KeySays(Translated(key, b)) \cup Cursor
<1>1. CASE Translated(key, a) = Translated(key, b)
  BY <1>1
<1>2. CASE Translated(key, a) # Translated(key, b)
  <2>1. Translated(key, a) \in Cursor
    BY <1>2 DEF Translated, Cursor
  <2>2. KeySays(Translated(key, a)) \subseteq {Translated(key, a)}
    BY <2>1, OwnName DEF Cursor
  <2>3. QED
    BY <2>1, <2>2
<1>3. QED
  BY <1>1, <1>2

\* What a keyboard's step tells.
LEMMA KeyboardNext ==
  ASSUME MenuRight, plugged = "keyboard", UNCHANGED <<ui, joydevs>>, PadTypes', NEW new, Account(new),
         Fits(sink', KeyboardSays(keyboard'), Says, excused \cup new)
  PROVE  MenuRight'
<1>1. plugged' = "keyboard"
  BY DEF Account
<1>2. Says' = KeyboardSays(keyboard')
  BY <1>1, QuietSays DEF Says
<1>3. Says' \subseteq Held'
  BY <1>1, SaysHeldNext
<1>4. QED
  BY <1>2, <1>3, MenuNext

\* A shift's flag gives the cursor keys other names.
LEMMA FlagMenu ==
  ASSUME MenuRight, TodoFresh, SeesInvariant, plugged = "keyboard", UNCHANGED <<ui, joydevs>>, FlagShift,
         NEW known, excused \cup ShiftMoved(keyboard.shifts, keyboard'.shifts) \subseteq known
  PROVE  Fits(sink', KeyboardSays(keyboard'), Says, known) /\ TodoFresh'
<1> DEFINE next == KeyboardSays(keyboard')
<1>1. /\ report'.stage = "shift" /\ keyboard'.keys = keyboard.keys /\ keyboard'.mods = keyboard.mods
      /\ report'.todo = report.todo /\ report'.mods = report.mods /\ sink' = Unpressed(sink)
      /\ report.stage = "mods" /\ SinkShape(sink)
  BY FlagTypes DEF FlagShift, SeesInvariant, EmuRight
<1>2. TodoFresh'
  BY <1>1 DEF TodoFresh, Fresh, Distinct, Elements
<1>3. Says = KeyboardSays(keyboard)
  BY DEF Says
<1>4. \A k : /\ KeySays(Translated(k, keyboard.shifts # {})) \subseteq KeySays(Translated(k, keyboard'.shifts # {})) \cup known
             /\ KeySays(Translated(k, keyboard'.shifts # {})) \subseteq KeySays(Translated(k, keyboard.shifts # {})) \cup known
  <2>1. CASE keyboard'.shifts = keyboard.shifts
    BY <2>1
  <2>2. CASE keyboard'.shifts # keyboard.shifts
    <3>1. Cursor \subseteq known
      BY <2>2 DEF ShiftMoved
    <3>2. QED
      BY <3>1, ShiftSays
  <2>3. QED
    BY <2>1, <2>2
<1>5. next \subseteq Says \cup known /\ Says \subseteq next \cup known
  BY <1>1, <1>3, <1>4 DEF KeyboardSays
<1>6. Fits(Unpressed(sink), Says, Says, excused)
  BY <1>1, UnpressedFits
<1> HIDE DEF next
<1>7. Fits(sink', next, Says, known)
  BY <1>1, <1>5, <1>6, KnownFits
<1>8. QED
  BY <1>2, <1>7 DEF next

\* One modifier.
LEMMA ModifierMenu ==
  ASSUME MenuRight, TodoFresh, SeesInvariant, plugged = "keyboard", UNCHANGED <<ui, joydevs>>, CompareModifier,
         NEW known, excused \subseteq known,
         sink.capture => KeyNames(Head(report.todo)) \subseteq known
  PROVE  Fits(sink', KeyboardSays(keyboard'), Says, known) /\ TodoFresh'
<1> DEFINE m == Head(report.todo)
           press == m \in report.mods
<1>1. /\ KeyboardTypes /\ report.stage \in {"mods", "shift"} /\ report.todo # <<>>
      /\ SinkShape(sink) /\ ui \in BOOLEAN
  BY DEF SeesInvariant, KeyboardSees, CompareModifier, EmuRight
<1>2. report.todo \in Seq(Elements(Modifiers)) /\ Fresh(report.todo, keyboard.mods, report.mods)
  BY <1>1 DEF KeyboardTypes, TodoFresh
<1>3. /\ keyboard' = [keyboard EXCEPT !.mods = IF press THEN @ \cup {m} ELSE @ \ {m}]
      /\ sink' = Key(Unpressed(sink), m, press)
      /\ report' = [report EXCEPT !.todo = Tail(@), !.stage = "mods"]
  BY Zenon DEF CompareModifier
<1> HIDE DEF m, press
<1>4. /\ keyboard'.keys = keyboard.keys /\ keyboard'.shifts = keyboard.shifts
      /\ keyboard'.mods = IF press THEN keyboard.mods \cup {m} ELSE keyboard.mods \ {m}
      /\ report'.todo = Tail(report.todo) /\ report'.stage = "mods" /\ report'.mods = report.mods
  BY <1>1, <1>3 DEF KeyboardTypes
<1>5. Fresh(Tail(report.todo), keyboard'.mods, report.mods) /\ (press <=> m \notin keyboard.mods)
  <2>1. keyboard'.mods = IF Head(report.todo) \in report.mods THEN keyboard.mods \cup {Head(report.todo)}
                         ELSE keyboard.mods \ {Head(report.todo)}
    BY <1>4, Zenon DEF m, press
  <2>2. /\ Fresh(Tail(report.todo), keyboard'.mods, report.mods)
        /\ Head(report.todo) \in report.mods <=> Head(report.todo) \notin keyboard.mods
    BY <1>1, <1>2, <2>1, TailFresh
  <2>3. QED
    BY <2>2 DEF m, press
<1>6. TodoFresh'
  BY <1>1, <1>4, <1>5 DEF TodoFresh, Fresh, Distinct, Elements
<1> DEFINE own == KeySays(m)
           next == KeyboardSays(keyboard')
<1>7. Says = KeyboardSays(keyboard)
  BY DEF Says
<1>8. sink.capture => own \subseteq known
  BY SaysNamed DEF m
<1>9. press \in BOOLEAN
  BY DEF press
<1>10. press => next \subseteq Says \cup own \cup known /\ Says \cup own \subseteq next \cup known
  BY <1>4, <1>7 DEF KeyboardSays
<1>11. ~press => /\ own \subseteq Says \cup known
                 /\ next \subseteq Says \cup known /\ Says \subseteq next \cup own \cup known
  BY <1>4, <1>5, <1>7 DEF KeyboardSays
<1> HIDE DEF own, next
<1>12. excused \subseteq known
  OBVIOUS
<1>13. Fits(sink', next, Says, known)
  BY <1>1, <1>3, <1>8, <1>9, <1>10, <1>11, <1>12, KeyFits DEF own
<1>14. QED
  BY <1>6, <1>13 DEF next

\* One key: its name in the menu is the one it is remembered by, unless the menu
\* changed meanwhile.
LEMMA KeyMenuFits ==
  ASSUME MenuRight, TodoFresh, SeesInvariant, plugged = "keyboard", UNCHANGED <<ui, joydevs>>, CompareKey,
         NEW known, excused \subseteq known, sink.capture => KeyNames(Head(report.todo)) \subseteq known
  PROVE  Fits(sink', KeyboardSays(keyboard'), Says, known) /\ TodoFresh'
<1> DEFINE k == Head(report.todo)
           press == k \in report.keys
           n == Translated(k, report.seen /\ keyboard.shifts # {})
<1>1. /\ KeyboardTypes /\ report.stage = "keys" /\ report.todo # <<>> /\ TodoExcused
      /\ SinkShape(sink) /\ ui \in BOOLEAN /\ report.seen \in BOOLEAN
  BY DEF SeesInvariant, KeyboardSees, CompareKey, EmuRight, KeyboardTypes
<1>2. report.todo \in Seq(Elements(UsbKeys)) /\ Fresh(report.todo, keyboard.keys, report.keys)
  BY <1>1 DEF KeyboardTypes, TodoFresh
<1>3. /\ keyboard' = [keyboard EXCEPT !.keys = IF press THEN @ \cup {k} ELSE @ \ {k}]
      /\ sink' = Key(Unpressed(sink), n, press)
      /\ report' = [report EXCEPT !.todo = Tail(@)]
  BY Zenon DEF CompareKey
<1> HIDE DEF k, press, n
<1>4. /\ keyboard'.mods = keyboard.mods /\ keyboard'.shifts = keyboard.shifts
      /\ keyboard'.keys = IF press THEN keyboard.keys \cup {k} ELSE keyboard.keys \ {k}
      /\ report'.todo = Tail(report.todo) /\ report'.stage = report.stage /\ report'.keys = report.keys
  BY <1>1, <1>3 DEF KeyboardTypes
<1>5. Fresh(Tail(report.todo), keyboard'.keys, report.keys) /\ (press <=> k \notin keyboard.keys)
  <2>1. keyboard'.keys = IF Head(report.todo) \in report.keys THEN keyboard.keys \cup {Head(report.todo)}
                         ELSE keyboard.keys \ {Head(report.todo)}
    BY <1>4, Zenon DEF k, press
  <2>2. /\ Fresh(Tail(report.todo), keyboard'.keys, report.keys)
        /\ Head(report.todo) \in report.keys <=> Head(report.todo) \notin keyboard.keys
    BY <1>1, <1>2, <2>1, TailFresh
  <2>3. QED
    BY <2>2 DEF k, press
<1>6. TodoFresh'
  BY <1>1, <1>4, <1>5 DEF TodoFresh, Fresh, Distinct, Elements
<1> DEFINE own == KeySays(Translated(k, keyboard.shifts # {}))
           next == KeyboardSays(keyboard')
<1>7. Says = KeyboardSays(keyboard)
  BY DEF Says
<1>8. own \subseteq KeyNames(k) /\ KeySays(n) \subseteq KeyNames(k)
  <2>1. Translated(k, keyboard.shifts # {}) \in {k, Translated(k, TRUE)} /\ n \in {k, Translated(k, TRUE)}
    BY DEF Translated, n
  <2>2. QED
    BY <2>1, SaysNamed
<1>9. own = KeySays(n) \/ own \cup KeySays(n) \subseteq known
  <2>1. CASE ~ui
    BY <2>1 DEF KeySays
  <2>2. CASE ui /\ report.seen
    <3>1. n = Translated(k, keyboard.shifts # {})
      BY <2>2 DEF n
    <3>2. QED
      BY <3>1
  <2>3. CASE ui /\ ~report.seen
    <3>1. AllNames(Elements(report.todo)) \subseteq excused
      BY <1>1, <2>3 DEF TodoExcused
    <3>2. k \in Elements(report.todo)
      BY <1>1, <1>2, SeqGrows DEF k, Elements
    <3>3. KeyNames(k) \subseteq known
      BY <3>1, <3>2, Named
    <3>4. QED
      BY <1>8, <3>3
  <2>4. QED
    BY <1>1, <2>1, <2>2, <2>3
<1>10. sink.capture => own \subseteq known
  BY <1>8 DEF k
<1>11. press \in BOOLEAN
  BY DEF press
<1>12. press => next \subseteq Says \cup own \cup known /\ Says \cup own \subseteq next \cup known
  BY <1>4, <1>7 DEF KeyboardSays
<1>13. ~press => /\ own \subseteq Says \cup known
                 /\ next \subseteq Says \cup known /\ Says \subseteq next \cup own \cup known
  BY <1>4, <1>5, <1>7 DEF KeyboardSays
<1> HIDE DEF own, next
<1>14. Fits(sink', next, Says, known)
  BY <1>1, <1>3, <1>9, <1>10, <1>11, <1>12, <1>13, KeyFits
<1>15. QED
  BY <1>6, <1>14 DEF next

\* The keyboard: a report, its modifiers, its keys.
LEMMA KeyboardMenu ==
  ASSUME MenuInvariant, SeesInvariant, PadTypes', KeyboardStep
  PROVE  MenuInvariant'
<1> DEFINE named == IF Untold(report) THEN KeyNames(Head(report.todo)) ELSE {}
           new == ShiftMoved(keyboard.shifts, keyboard'.shifts) \cup named
           known == excused \cup new
<1>1. plugged = "keyboard" /\ UNCHANGED <<ui, joydevs>> /\ Account(new)
  BY DEF KeyboardStep, Quiet
<1>2. plugged' = "keyboard" /\ MenuRight /\ TodoFresh
  BY <1>1 DEF Account, MenuInvariant
<1>3. KeyboardTypes /\ SinkShape(sink)
  BY <1>1 DEF SeesInvariant, KeyboardSees, EmuRight
<1> HIDE DEF new
<1>4. SUFFICES Fits(sink', KeyboardSays(keyboard'), Says, known) /\ TodoFresh'
  <2>1. ASSUME Fits(sink', KeyboardSays(keyboard'), Says, known) PROVE MenuRight'
    BY <1>1, <1>2, <2>1, KeyboardNext
  <2>2. QED
    BY <1>2, <2>1 DEF MenuInvariant
<1>5. \/ (\E m, k : KeyReport(m, k)) \/ ReadUi \/ KeysDone
      \/ FlagShift \/ CompareModifier \/ CompareKey
  BY DEF KeyboardStep
<1>6. CASE (\E m, k : KeyReport(m, k)) \/ ReadUi \/ KeysDone
  <2>1. sink' = Unpressed(sink) /\ UNCHANGED keyboard
    BY <1>1, <1>6, ReportTypes
  <2>2. Says = KeyboardSays(keyboard)
    BY <1>1 DEF Says
  <2>3. Fits(sink', KeyboardSays(keyboard'), Says, known)
    BY <1>2, <1>3, <2>1, <2>2, UnpressedFits
  <2>4. TodoFresh'
    <3>1. ASSUME NEW m, NEW k, KeyReport(m, k) PROVE TodoFresh'
      <4>1. report' = [todo |-> Changed(Modifiers, keyboard.mods, m), stage |-> "mods", seen |-> FALSE, mods |-> m, keys |-> k]
        BY <3>1 DEF KeyReport
      <4>2. Fresh(Changed(Modifiers, keyboard.mods, m), keyboard.mods, m)
        BY ChangedFresh, KeyAssumption DEF Distinct
      <4>3. QED
        BY <2>1, <4>1, <4>2 DEF TodoFresh, Fresh, Distinct, Elements
    <3>2. CASE ReadUi
      <4>1. report'.todo = Changed(UsbKeys, keyboard.keys, report.keys) /\ report'.stage = "keys" /\ report'.keys = report.keys
        BY <1>3, <3>2 DEF ReadUi, KeyboardTypes
      <4>2. Fresh(Changed(UsbKeys, keyboard.keys, report.keys), keyboard.keys, report.keys)
        BY ChangedFresh, KeyAssumption DEF Distinct
      <4>3. QED
        BY <2>1, <4>1, <4>2 DEF TodoFresh, Fresh, Distinct, Elements
    <3>3. CASE KeysDone
      BY <3>3 DEF KeysDone, Idle, TodoFresh
    <3>4. QED
      BY <1>6, <3>1, <3>2, <3>3
  <2>5. QED
    BY <2>3, <2>4
<1>7. CASE FlagShift
  <2>1. excused \cup ShiftMoved(keyboard.shifts, keyboard'.shifts) \subseteq known
    BY DEF new
  <2> HIDE DEF known
  <2>2. QED
    BY <1>1, <1>2, <1>7, <2>1, FlagMenu
<1>8. CASE CompareModifier
  <2>1. excused \subseteq known
    OBVIOUS
  <2>2. sink.capture => KeyNames(Head(report.todo)) \subseteq known
    BY <1>8 DEF new, CompareModifier, Untold
  <2> HIDE DEF known
  <2>3. QED
    BY <1>1, <1>2, <1>8, <2>1, <2>2, ModifierMenu
<1>9. CASE CompareKey
  <2>1. sink.capture => KeyNames(Head(report.todo)) \subseteq known
    BY <1>9 DEF new, CompareKey, Untold
  <2>2. excused \subseteq known
    OBVIOUS
  <2> HIDE DEF known
  <2>3. QED
    BY <1>1, <1>2, <1>9, <2>1, <2>2, KeyMenuFits
<1>10. QED
  BY <1>5, <1>6, <1>8, <1>9, <1>7

\* A button leaves the next key to be told.
Uncaught(s) == s.capture \in BOOLEAN /\ ~s.capture
LEMMA ButtonUncaught ==
  ASSUME ui \in BOOLEAN, NEW s, SinkShape(s), Uncaught(s), NEW func, NEW press \in BOOLEAN, NEW isUi
  PROVE  Uncaught(Button(s, func, press, isUi))
<1>1. \A key : Uncaught(Key(s, key, press))
  BY KeySink DEF KeyDoes, Uncaught
<1>2. \A key : Uncaught(UiKey(s, key, press))
  BY DEF UiKey, SinkShape, Uncaught
<1> DEFINE t == Button(s, func, press, isUi)
<1>3. CASE func \in {"MENU", "CUSTOM", "BACK"}
  <2>1. t \in {Key(s, "F12", press), Key(s, Binding, press), Key(s, "Escape", press), UiKey(s, "Escape", press)}
    BY <1>3 DEF Button, Directions
  <2>2. QED
    BY <1>1, <1>2, <2>1
<1>4. CASE func \notin {"MENU", "CUSTOM", "BACK"}
  <2>1. t \in {UiKey(s, MenuKey[func], press), s}
    BY <1>4 DEF Button
  <2>2. QED
    BY <1>2, <2>1
<1>5. QED
  BY <1>3, <1>4

\* All buttons of a report, after the directions.
LEMMA ButtonsFit ==
  ASSUME ui \in BOOLEAN, NEW s, SinkShape(s), Uncaught(s), pad.joyPrev \subseteq DOMAIN PadButtons,
         NEW buttons \in SUBSET DOMAIN PadButtons, NEW isUi \in BOOLEAN, NEW moved, NEW before, NEW known,
         \A i \in pad.joyPrev : ButtonSays(PadButtons[i], isUi) \subseteq before \cup known,
         Fits(s, moved \cup (UNION {ButtonSays(PadButtons[i], isUi) : i \in pad.joyPrev}), before, known)
  PROVE  Fits(ButtonChanges(s, buttons, isUi), moved \cup (UNION {ButtonSays(PadButtons[i], isUi) : i \in buttons}),
              before, known)
<1> DEFINE n == Len(PadButtons)
           Left(i) == {j \in 1 .. n : IF j <= i THEN j \in buttons ELSE j \in pad.joyPrev}
           now(i) == moved \cup (UNION {ButtonSays(PadButtons[j], isUi) : j \in Left(i)})
<1>1. n \in Nat /\ DOMAIN PadButtons = 1 .. n
  BY PadAssumption
<1>2. PICK f : /\ f[0] = s
               /\ \A i \in 1 .. n : f[i] = IF (i \in buttons) = (i \in pad.joyPrev) THEN f[i - 1]
                                           ELSE Button(f[i - 1], PadButtons[i], i \in buttons, isUi)
               /\ ButtonChanges(s, buttons, isUi) = f[n]
  BY ButtonsTurns
<1> DEFINE T == {i \in 0 .. n : SinkShape(f[i]) /\ Uncaught(f[i]) /\ Fits(f[i], now(i), before, known)}
<1> HIDE DEF n
<1>3. n \in T
  <2>1. 0 \in T
    <3>1. Left(0) = pad.joyPrev
      BY <1>1
    <3> HIDE DEF Left
    <3>2. now(0) = moved \cup (UNION {ButtonSays(PadButtons[i], isUi) : i \in pad.joyPrev})
      BY <3>1
    <3> HIDE DEF now
    <3>3. SinkShape(f[0]) /\ Uncaught(f[0]) /\ Fits(f[0], now(0), before, known)
      BY <1>2, <3>2
    <3>4. QED
      BY <1>1, <3>3
  <2>2. ASSUME NEW i \in 1 .. n, i - 1 \in T PROVE i \in T
    <3> DEFINE names == ButtonSays(PadButtons[i], isUi)
               press == i \in buttons
    <3>1. SinkShape(f[i - 1]) /\ Uncaught(f[i - 1]) /\ Fits(f[i - 1], now(i - 1), before, known)
      BY <2>2
    <3>2. /\ \A j \in Left(i - 1) : j # i => j \in Left(i)
          /\ \A j \in Left(i) : j # i => j \in Left(i - 1)
          /\ i \in Left(i) <=> i \in buttons
          /\ i \in Left(i - 1) <=> i \in pad.joyPrev
      BY <1>1
    <3>3. CASE (i \in buttons) = (i \in pad.joyPrev)
      <4>1. f[i] = f[i - 1]
        BY <1>2, <3>3
      <4>2. Left(i - 1) = Left(i)
        BY <3>2, <3>3
      <4>3. now(i - 1) = now(i)
        BY <4>2
      <4> HIDE DEF now
      <4>4. QED
        BY <1>1, <3>1, <4>1, <4>3
    <3>4. CASE (i \in buttons) # (i \in pad.joyPrev)
      <4>1. f[i] = Button(f[i - 1], PadButtons[i], press, isUi)
        BY <1>2, <3>4
      <4>2. press \in BOOLEAN
        OBVIOUS
      <4>3. now(i) \subseteq now(i - 1) \cup names /\ now(i - 1) \subseteq now(i) \cup names
        BY <3>2
      <4>4. press => names \subseteq now(i)
        <5>1. press => i \in Left(i)
          BY <3>2
        <5> HIDE DEF Left
        <5>2. QED
          BY <5>1
      <4>5. ~press => now(i) \subseteq now(i - 1) /\ names \subseteq before \cup known
        <5>1. ~press => Left(i) \subseteq Left(i - 1) /\ i \in pad.joyPrev
          BY <3>2, <3>4
        <5> HIDE DEF Left, press
        <5>2. QED
          BY <5>1
      <4> HIDE DEF press, now
      <4>6. MenuTold(f[i - 1], f[i], names, press)
        BY <3>1, <4>1, <4>2, ButtonMenu DEF Uncaught
      <4> HIDE DEF names
      <4>7. Fits(f[i], now(i), before, known)
        <5>1. press => now(i) \subseteq now(i - 1) \cup names \cup known /\ now(i - 1) \cup names \subseteq now(i) \cup known
          BY <4>3, <4>4
        <5>2. ~press => /\ names \subseteq before \cup known
                        /\ now(i) \subseteq now(i - 1) \cup known /\ now(i - 1) \subseteq now(i) \cup names \cup known
          BY <4>3, <4>5
        <5>3. QED
          BY <3>1, <4>2, <4>6, <5>1, <5>2, ToldFits
      <4>8. SinkShape(f[i]) /\ Uncaught(f[i])
        BY <3>1, <4>1, <4>2, ButtonShape, ButtonUncaught
      <4>9. QED
        BY <1>1, <4>7, <4>8
    <3>5. QED
      BY <3>3, <3>4
  <2> HIDE DEF T
  <2>3. T \in SUBSET (0 .. n)
    BY DEF T
  <2>4. QED
    BY <1>1, <2>1, <2>2, <2>3, Induct
<1>4. Left(n) = buttons
  BY <1>1
<1> HIDE DEF Left
<1>5. Fits(f[n], now(n), before, known)
  BY <1>3
<1>6. QED
  BY <1>2, <1>4, <1>5

\* The directions and buttons of the pad, and of the report that it handles,
\* are held.
LEMMA PadHeld ==
  plugged = "pad" =>
    /\ \A f \in pad.dirs \cup MenuHat(pad.dpad) \cup Assigned(pad.joyPrev) : ButtonKeys(f) \subseteq Held
    /\ ~padReport.handled =>
         \A f \in Assigned(padReport.buttons) \cup MenuHat(padReport.hat) \cup AxisDirs(padReport) : ButtonKeys(f) \subseteq Held
<1> DEFINE F == pad.dirs \cup MenuHat(pad.dpad) \cup Assigned(pad.joyPrev)
           G == Assigned(padReport.buttons) \cup MenuHat(padReport.hat) \cup AxisDirs(padReport)
<1>1. plugged = "pad" => AllButtonKeys(F) \subseteq Held
  BY DEF Held, UsbHeld
<1>2. plugged = "pad" /\ ~padReport.handled => AllButtonKeys(G) \subseteq Held
  BY DEF Held, UsbInFlight
<1> HIDE DEF F, G
<1>3. /\ plugged = "pad" => \A f \in F : ButtonKeys(f) \subseteq Held
      /\ plugged = "pad" /\ ~padReport.handled => \A f \in G : ButtonKeys(f) \subseteq Held
  BY <1>1, <1>2, Named
<1>4. QED
  BY <1>3 DEF F, G

\* What the menu is told by a report: all its directions and buttons, unless the
\* menu changed after the handler had read ui_activated.
LEMMA PadFits ==
  ASSUME MenuInvariant, SeesInvariant, PadTypes, plugged = "pad", ~padReport.handled,
         NEW dirs \in SUBSET Directions, dirs \subseteq MenuHat(padReport.hat) \cup AxisDirs(padReport)
  PROVE  Fits(ButtonChanges(IF padReport.seen THEN MenuMoves(Unpressed(sink), PadDirs(pad), dirs) ELSE Unpressed(sink),
                            padReport.buttons, padReport.seen),
              (IF ui THEN MenuKeys(dirs) ELSE {}) \cup (UNION {ButtonSays(PadButtons[i], ui) : i \in padReport.buttons}),
              Says, excused)
<1> DEFINE isUi == padReport.seen
           buttons == padReport.buttons
           old == PadDirs(pad)
           s0 == Unpressed(sink)
           s1 == IF isUi THEN MenuMoves(s0, old, dirs) ELSE s0
           names(B, u) == UNION {ButtonSays(PadButtons[i], u) : i \in B}
           moves(u) == IF u THEN MenuKeys(dirs) ELSE {}
<1>1. /\ ui \in BOOLEAN /\ isUi \in BOOLEAN /\ SinkShape(sink) /\ Uncaught(sink) /\ MenuRight
      /\ buttons \in SUBSET DOMAIN PadButtons /\ pad.joyPrev \subseteq DOMAIN PadButtons
      /\ old \in SUBSET Directions
  <2>1. Uncaught(sink) /\ SinkShape(sink)
    BY DEF SeesInvariant, EmuRight, Uncaught
  <2>2. buttons \in SUBSET DOMAIN PadButtons /\ pad.joyPrev \subseteq DOMAIN PadButtons /\ isUi \in BOOLEAN /\ ui \in BOOLEAN
    BY DEF PadTypes, PadReports, PadStates
  <2>3. old \in SUBSET Directions
    BY DEF PadTypes, PadStates, PadDirs, MenuHat, HatKeys, Directions
  <2>4. QED
    BY <2>1, <2>2, <2>3 DEF MenuInvariant
<1>2. /\ SinkShape(s0) /\ Uncaught(s0)
      /\ SinkShape(s1) /\ Uncaught(s1)
  <2>1. SinkShape(s0) /\ Uncaught(s0)
    BY <1>1, UnpressedShape DEF Unpressed, SinkShape, Uncaught
  <2>2. SinkShape(MenuMoves(s0, old, dirs))
    BY <2>1, MenuMovesShape
  <2>3. MenuMoves(s0, old, dirs).capture = s0.capture
    BY <2>1 DEF MenuMoves, SinkShape
  <2>4. QED
    BY <2>1, <2>2, <2>3 DEF Uncaught
<1>3. Fits(s0, Says, Says, excused)
  BY <1>1, UnpressedFits
<1>4. Says = (IF ui THEN MenuKeys(old) ELSE {}) \cup names(pad.joyPrev, ui)
  BY DEF Says, PadSays
<1>5. isUi # ui => /\ Says \subseteq excused /\ MenuKeys(old) \subseteq excused /\ MenuKeys(dirs) \subseteq excused
                   /\ \A u \in BOOLEAN : names(pad.joyPrev, u) \subseteq excused /\ names(buttons, u) \subseteq excused
  <2>1. isUi # ui => Held \subseteq excused
    BY DEF MenuInvariant
  <2>2. Says \subseteq Held
    BY SaysHeld
  <2>3. \A d \in Directions : MenuKey[d] \in ButtonKeys(d)
    BY DEF ButtonKeys, MoveKeys, Directions
  <2>4. old \subseteq pad.dirs \cup MenuHat(pad.dpad)
    BY DEF PadDirs
  <2>5. MenuKeys(old) \subseteq Held /\ MenuKeys(dirs) \subseteq Held
    <3>1. \A d \in old \cup dirs : ButtonKeys(d) \subseteq Held
      BY <2>4, PadHeld
    <3> HIDE DEF old
    <3>2. QED
      BY <1>1, <2>3, <3>1 DEF MenuKeys
  <2>6. \A u \in BOOLEAN : \A i \in pad.joyPrev \cup buttons : ButtonSays(PadButtons[i], u) \subseteq Held
    <3>1. \A i \in pad.joyPrev \cup buttons : ButtonKeys(PadButtons[i]) \subseteq Held
      BY PadHeld DEF Assigned
    <3>2. QED
      BY <3>1, SaysNamed
  <2>7. QED
    BY <2>1, <2>2, <2>5, <2>6
<1> HIDE DEF isUi, buttons, old, s0
<1>6. Fits(s1, moves(isUi) \cup names(pad.joyPrev, isUi), Says, excused)
  <2>1. CASE isUi
    <3> DEFINE next == MenuKeys(dirs) \cup names(pad.joyPrev, TRUE)
    <3>1. Says \subseteq MenuKeys(old) \cup names(pad.joyPrev, TRUE) \cup excused
          /\ names(pad.joyPrev, TRUE) \subseteq Says \cup excused /\ MenuKeys(old) \subseteq Says \cup excused
      <4>1. CASE ui
        BY <1>4, <4>1
      <4>2. CASE ~ui
        BY <1>5, <2>1, <4>2
      <4>3. QED
        BY <4>1, <4>2
    <3>2. MenuKeys(old) \subseteq MenuKeys(dirs) \cup MenuKeys(old \ dirs)
      BY DEF MenuKeys
    <3> HIDE DEF names
    <3>3. next \subseteq Says \cup MenuKeys(dirs) \cup excused /\ Says \cup MenuKeys(dirs) \subseteq next \cup MenuKeys(old \ dirs) \cup excused
      BY <3>1, <3>2
    <3> HIDE DEF next
    <3>4. Fits(MenuMoves(s0, old, dirs), next, Says, excused)
      BY <1>2, <1>3, <3>1, <3>3, MovesFit
    <3>5. QED
      BY <1>1, <2>1, <3>4 DEF next
  <2>2. CASE ~isUi
    <3>1. Says \subseteq names(pad.joyPrev, FALSE) \cup excused /\ names(pad.joyPrev, FALSE) \subseteq Says \cup excused
      <4>1. CASE ui
        BY <1>5, <2>2, <4>1
      <4>2. CASE ~ui
        BY <1>1, <1>4, <4>2
      <4>3. QED
        BY <4>1, <4>2
    <3> HIDE DEF names
    <3>2. isUi = FALSE /\ s1 = s0 /\ moves(FALSE) = {}
      BY <1>1, <2>2
    <3>3. Fits(s0, names(pad.joyPrev, FALSE), Says, excused)
      BY <1>3, <3>1, KnownFits
    <3>4. moves(FALSE) \cup names(pad.joyPrev, FALSE) = names(pad.joyPrev, FALSE)
      BY <3>2
    <3>5. QED
      BY <3>2, <3>3, <3>4
  <2>3. QED
    BY <2>1, <2>2
<1>7. \A i \in pad.joyPrev : ButtonSays(PadButtons[i], isUi) \subseteq Says \cup excused
  <2>1. names(pad.joyPrev, isUi) \subseteq Says \cup excused
    <3>1. CASE isUi = ui
      BY <1>4, <3>1
    <3>2. CASE isUi # ui
      BY <1>1, <1>5, <3>2
    <3>3. QED
      BY <3>1, <3>2
  <2>2. QED
    BY <2>1
<1> HIDE DEF s1, moves
<1>8. Fits(ButtonChanges(s1, buttons, isUi), moves(isUi) \cup names(buttons, isUi), Says, excused)
  BY <1>1, <1>2, <1>6, <1>7, ButtonsFit
<1>9. moves(ui) \cup names(buttons, ui) \subseteq moves(isUi) \cup names(buttons, isUi) \cup excused
      /\ moves(isUi) \cup names(buttons, isUi) \subseteq moves(ui) \cup names(buttons, ui) \cup excused
  <2>1. CASE isUi = ui
    BY <2>1
  <2>2. CASE isUi # ui
    <3>1. \A u : moves(u) \subseteq MenuKeys(dirs)
      BY DEF moves
    <3>2. QED
      BY <1>1, <1>5, <2>2, <3>1
  <2>3. QED
    BY <2>1, <2>2
<1>10. Fits(ButtonChanges(s1, buttons, isUi), moves(ui) \cup names(buttons, ui), Says, excused)
  <2> HIDE DEF names
  <2>1. QED
    BY <1>8, <1>9, KnownFits
<1>11. QED
  BY <1>10 DEF s0, s1, moves, isUi, buttons, old

\* The port of the pad is not the menu's.
LEMMA SetJoyMenu ==
  ASSUME NEW s, SinkShape(s), NEW dirs, NEW potx, NEW poty
  PROVE  LET t == SetJoyUsb(s, dirs, potx, poty) IN t.menu = s.menu /\ t.unpressed = s.unpressed
<1>1. \A p : /\ Latched(s, p, dirs, potx, poty).menu = s.menu
             /\ Latched(s, p, dirs, potx, poty).unpressed = s.unpressed
  BY DEF Latched, SinkShape
<1>2. CASE PadPorts = {}
  BY <1>2 DEF SetJoyUsb
<1>3. CASE PadPorts # {}
  <2> DEFINE first == CHOOSE p \in PadPorts : \A q \in PadPorts : p <= q
  <2>1. SetJoyUsb(s, dirs, potx, poty) = Latched(s, first, dirs, potx, poty)
    BY <1>3 DEF SetJoyUsb
  <2> HIDE DEF first
  <2>2. QED
    BY <1>1, <2>1
<1>4. QED
  BY <1>2, <1>3

\* What a step of the gamepad has to show.
LEMMA PadMenuNext ==
  ASSUME MenuRight, plugged = "pad", UNCHANGED <<ui, joydevs>>, PadTypes', Account({}),
         Fits(sink', PadSays(pad'), Says, excused), padReport'.handled \/ padReport'.seen = ui
  PROVE  MenuInvariant'
<1>1. plugged' = "pad"
  BY DEF Account
<1>2. Says' = PadSays(pad')
  BY <1>1, QuietSays DEF Says
<1>3. Says' \subseteq Held'
  BY <1>1, SaysHeldNext
<1>4. Fits(sink', Says', Says, excused \cup {})
  BY <1>2 DEF Fits
<1>5. MenuRight'
  BY <1>3, <1>4, MenuNext
<1>6. QED
  BY <1>1, <1>5 DEF MenuInvariant

\* A report that was handled.
LEMMA PadHandledMenu ==
  ASSUME MenuInvariant, SeesInvariant, PadTypes, PadTypes', plugged = "pad", ~padReport.handled, Account({}),
         UNCHANGED <<ui, joydevs>>, padReport' = NoPadReport,
         NEW dirs \in SUBSET Directions, dirs \subseteq MenuHat(padReport.hat) \cup AxisDirs(padReport),
         NEW shown, NEW potx, NEW poty,
         \/ PadDirs(pad') = PadDirs(pad) /\ pad'.joyPrev = pad.joyPrev /\ sink' = Unpressed(sink)
         \/ /\ PadDirs(pad') = dirs /\ pad'.joyPrev = padReport.buttons
            /\ LET told == ButtonChanges(IF padReport.seen THEN MenuMoves(Unpressed(sink), PadDirs(pad), dirs)
                                         ELSE Unpressed(sink), padReport.buttons, padReport.seen)
               IN  sink' \in {told, SetJoyUsb(told, shown, potx, poty)}
  PROVE  MenuInvariant'
<1> DEFINE told == ButtonChanges(IF padReport.seen THEN MenuMoves(Unpressed(sink), PadDirs(pad), dirs)
                                 ELSE Unpressed(sink), padReport.buttons, padReport.seen)
<1>1. MenuRight /\ SinkShape(sink)
  BY DEF MenuInvariant, SeesInvariant, EmuRight
<1>2. padReport'.handled
  BY DEF NoPadReport
<1>3. CASE PadDirs(pad') = PadDirs(pad) /\ pad'.joyPrev = pad.joyPrev /\ sink' = Unpressed(sink)
  <2>1. PadSays(pad') = Says
    BY <1>3 DEF Says, PadSays
  <2>2. Fits(sink', PadSays(pad'), Says, excused)
    BY <1>1, <1>3, <2>1, UnpressedFits
  <2>3. QED
    BY <1>1, <1>2, <2>2, PadMenuNext
<1>4. CASE PadDirs(pad') = dirs /\ pad'.joyPrev = padReport.buttons /\ sink' \in {told, SetJoyUsb(told, shown, potx, poty)}
  <2>1. Fits(told, PadSays(pad'), Says, excused)
    BY <1>4, PadFits DEF PadSays
  <2>2. SinkShape(told)
    <3>1. SinkShape(Unpressed(sink)) /\ SinkShape(MenuMoves(Unpressed(sink), PadDirs(pad), dirs))
      BY <1>1, UnpressedShape, MenuMovesShape
    <3>2. QED
      BY <3>1, ButtonsShape
  <2> HIDE DEF told
  <2>3. sink'.menu = told.menu /\ sink'.unpressed = told.unpressed
    BY <1>4, <2>2, SetJoyMenu
  <2>4. Fits(sink', PadSays(pad'), Says, excused)
    BY <2>1, <2>3 DEF Fits
  <2>5. QED
    BY <1>1, <1>2, <2>4, PadMenuNext
<1>5. QED
  BY <1>3, <1>4

\* The gamepad: a report and its handling, by preference.
LEMMA GamepadMenu ==
  ASSUME MenuInvariant, SeesInvariant, PadTypes, PadTypes', PadStep
  PROVE  MenuInvariant'
<1>1. plugged = "pad" /\ UNCHANGED <<ui, joydevs>> /\ Account({})
  BY DEF PadStep, Quiet
<1>2. MenuRight /\ SinkShape(sink)
  BY DEF MenuInvariant, SeesInvariant, EmuRight
<1>3. ASSUME NEW b \in SUBSET DOMAIN PadButtons, NEW m \in PadMoves, PadArrives(b, m[1], m[2]) PROVE MenuInvariant'
  <2>1. sink' = Unpressed(sink) /\ UNCHANGED pad
    BY <1>3 DEF PadArrives
  <2>2. padReport'.handled \/ padReport'.seen = ui
    BY <1>3 DEF PadArrives, NoPadReport
  <2>3. PadSays(pad') = Says
    BY <1>1, <2>1 DEF Says
  <2>4. Fits(sink', PadSays(pad'), Says, excused)
    BY <1>2, <2>1, <2>3, UnpressedFits
  <2>5. QED
    BY <1>1, <1>2, <2>2, <2>4, PadMenuNext
<1>4. CASE HandleHat
  <2> DEFINE r == padReport
             paddles == pad.pref = "paddles"
             kept == IF paddles THEN [pad EXCEPT !.x = r.x, !.y = r.y] ELSE pad
             new == [kept EXCEPT !.buttons = r.buttons, !.joyPrev = r.buttons, !.dpad = r.hat]
             told == ButtonChanges(IF r.seen THEN MenuMoves(Unpressed(sink), MenuHat(pad.dpad), MenuHat(r.hat))
                                   ELSE Unpressed(sink), r.buttons, r.seen)
             potx == IF paddles THEN "paddle" ELSE PotOf("potx", r.buttons)
             poty == IF paddles THEN "paddle" ELSE PotOf("poty", r.buttons)
  <2>1. pad.pref \in {"hat", "paddles"} /\ ~padReport.handled /\ padReport' = NoPadReport
    BY <1>4 DEF HandleHat
  <2>2. \/ pad' = kept /\ sink' = Unpressed(sink)
        \/ pad' = new /\ sink' = IF r.seen THEN told ELSE SetJoyUsb(told, padShown', potx, poty)
    BY <1>4 DEF HandleHat
  <2>3. /\ kept.joyPrev = pad.joyPrev /\ kept.pref = pad.pref /\ kept.dpad = pad.dpad
        /\ new.joyPrev = r.buttons /\ new.pref = pad.pref /\ new.dpad = r.hat
    BY DEF PadTypes, PadStates
  <2>4. PadDirs(pad) = MenuHat(pad.dpad)
    BY <2>1 DEF PadDirs
  <2> HIDE DEF kept, new, told, potx, poty
  <2>5. \/ PadDirs(pad') = PadDirs(pad) /\ pad'.joyPrev = pad.joyPrev /\ sink' = Unpressed(sink)
        \/ /\ PadDirs(pad') = MenuHat(r.hat) /\ pad'.joyPrev = r.buttons
           /\ sink' \in {told, SetJoyUsb(told, padShown', potx, poty)}
    BY <2>1, <2>2, <2>3 DEF PadDirs
  <2>6. MenuHat(r.hat) \in SUBSET Directions
    BY DEF MenuHat, HatKeys, Directions
  <2>7. QED
    BY <1>1, <2>1, <2>4, <2>5, <2>6, PadHandledMenu DEF told
<1>5. CASE HandleAnalog
  <2> DEFINE r == padReport
             new == [pad EXCEPT !.buttons = r.buttons, !.joyPrev = r.buttons, !.dirs = AxisDirs(r)]
             told == ButtonChanges(IF r.seen THEN MenuMoves(Unpressed(sink), pad.dirs, AxisDirs(r))
                                   ELSE Unpressed(sink), r.buttons, r.seen)
             potx == PotOf("potx", r.buttons)
             poty == PotOf("poty", r.buttons)
  <2>1. pad.pref = "analog" /\ ~padReport.handled /\ padReport' = NoPadReport
    BY <1>5 DEF HandleAnalog
  <2>2. \/ pad' = pad /\ sink' = Unpressed(sink)
        \/ pad' = new /\ sink' = IF r.seen THEN told ELSE SetJoyUsb(told, padShown', potx, poty)
    BY <1>5 DEF HandleAnalog
  <2>3. new.joyPrev = r.buttons /\ new.pref = pad.pref /\ new.dirs = AxisDirs(r)
    BY DEF PadTypes, PadStates
  <2>4. PadDirs(pad) = pad.dirs
    BY <2>1 DEF PadDirs
  <2> HIDE DEF new, told, potx, poty
  <2>5. \/ PadDirs(pad') = PadDirs(pad) /\ pad'.joyPrev = pad.joyPrev /\ sink' = Unpressed(sink)
        \/ /\ PadDirs(pad') = AxisDirs(r) /\ pad'.joyPrev = r.buttons
           /\ sink' \in {told, SetJoyUsb(told, padShown', potx, poty)}
    BY <2>1, <2>2, <2>3 DEF PadDirs
  <2>6. AxisDirs(r) \in SUBSET Directions
    BY DEF AxisDirs
  <2>7. QED
    BY <1>1, <2>1, <2>4, <2>5, <2>6, PadHandledMenu DEF told
<1>6. QED
  BY <1>3, <1>4, <1>5 DEF PadStep

\* The result of a part of a scan, when the menu was told right.
ScanFits(r, known) == ScanGood(r) /\ SticksShape(r.scan) /\ Fits(r.sink, ScanSays(r.scan), Says, known)

\* A part of a scan that tells the menu nothing and forgets nothing of it.
LEMMA FitsSame ==
  ASSUME NEW r, NEW known, ScanFits(r, known), NEW t, ScanGood(t),
         t.sink.menu = r.sink.menu, t.sink.unpressed = r.sink.unpressed,
         t.scan.joyPrev = r.scan.joyPrev, ScanSays(t.scan) = ScanSays(r.scan)
  PROVE  ScanFits(t, known)
<1>1. SticksShape(t.scan)
  BY DEF ScanFits, SticksShape
<1>2. Fits(t.sink, ScanSays(t.scan), Says, known)
  BY DEF ScanFits, Fits
<1>3. QED
  BY <1>1, <1>2 DEF ScanFits

\* ReadJoystick
LEMMA JoystickFits ==
  ASSUME ui \in BOOLEAN, plugged = "gpio", gpio_config # "custom",
         NEW r, NEW known, ScanFits(r, known), NEW dev \in {0, 1}, NEW config,
         r.scan.joyPrev[dev] = scan.joyPrev[dev]
  PROVE  LET t == ReadJoystick(r, dev, config) IN
         /\ ScanFits(t, known)
         /\ t.scan.shifts = r.scan.shifts
         /\ \A e \in {0, 1} \ {dev} : t.scan.joyPrev[e] = r.scan.joyPrev[e]
<1> DEFINE name == IF dev = 0 THEN "GPIO_0" ELSE "GPIO_1"
           assigned == {p \in Ports : joydevs[p] = name}
           table == JoyPins(config, dev)
           driven == IF config = "keyboard" THEN {Selector[dev + 1]} ELSE {}
           low == {d \in DOMAIN table : Low(table[d], r.contacts, driven)}
           port == CHOOSE p \in assigned : \A q \in assigned : p <= q
           t == ReadJoystick(r, dev, config)
           dirs == low \cap Directions
           old == r.scan.joyPrev[dev]
           other == 1 - dev
           rest(memory) == IF gpio_config = "keyboard" THEN MatrixSays(memory) ELSE {}
<1>1. SinkShape(r.sink) /\ DOMAIN r = {"sink", "scan", "contacts", "later"} /\ SticksShape(r.scan) /\ ScanGood(r)
      /\ DOMAIN r.scan = {"debounce", "matrix", "restore", "joyPrev", "pinPrev", "shifts"}
  BY DEF ScanFits, ScanGood, EmuRight, MemoryShape
<1>2. t = CASE ui -> [r EXCEPT !.sink = MenuMoves(@, old, dirs), !.scan.joyPrev[dev] = dirs]
            [] ~ui /\ assigned # {} -> [r EXCEPT !.sink = JoyAbsolute(@, port, low)]
            [] OTHER -> r
  BY Zenon DEF ReadJoystick
<1>3. ScanGood(t)
  BY <1>1, JoystickGood
<1>4. dirs \subseteq Directions /\ other \in {0, 1} /\ other # dev /\ {0, 1} \ {dev} = {other}
  OBVIOUS
<1>5. \A memory : ScanSays(memory) = StickSays(memory) \cup rest(memory)
  BY DEF ScanSays
<1>6. Says = ScanSays(scan)
  BY DEF Says
<1> HIDE DEF low, port, assigned, t, dirs, other
<1>7. CASE ui
  <2>1. t = [r EXCEPT !.sink = MenuMoves(@, old, dirs), !.scan.joyPrev[dev] = dirs]
    BY <1>2, <1>7
  <2>2. /\ t.sink = MenuMoves(r.sink, old, dirs)
        /\ t.scan.matrix = r.scan.matrix /\ t.scan.restore = r.scan.restore /\ t.scan.shifts = r.scan.shifts
        /\ t.scan.joyPrev = [r.scan.joyPrev EXCEPT ![dev] = dirs]
    BY <1>1, <2>1
  <2>3. /\ t.scan.joyPrev \in [{0, 1} -> SUBSET Directions]
        /\ t.scan.joyPrev[dev] = dirs /\ t.scan.joyPrev[other] = r.scan.joyPrev[other]
    BY <1>1, <1>4, <2>2 DEF SticksShape
  <2>4. rest(t.scan) = rest(r.scan)
    BY <2>2 DEF MatrixSays
  <2>5. \A memory : StickSays(memory) = MenuKeys(memory.joyPrev[dev]) \cup MenuKeys(memory.joyPrev[other])
    <3>1. \A memory : memory.joyPrev[0] \cup memory.joyPrev[1] = memory.joyPrev[dev] \cup memory.joyPrev[other]
      BY <1>4
    <3>2. QED
      BY <1>7, <3>1 DEF StickSays, MenuKeys
  <2>6. MenuKeys(old) \subseteq MenuKeys(dirs) \cup MenuKeys(old \ dirs)
    BY DEF MenuKeys
  <2> HIDE DEF rest
  <2>7. MenuKeys(old) \subseteq Says
    BY <1>5, <1>6, <2>5
  <2>8. /\ ScanSays(t.scan) \subseteq ScanSays(r.scan) \cup MenuKeys(dirs)
        /\ ScanSays(r.scan) \cup MenuKeys(dirs) \subseteq ScanSays(t.scan) \cup MenuKeys(old \ dirs)
    BY <1>5, <2>3, <2>4, <2>5, <2>6
  <2>9. Fits(r.sink, ScanSays(r.scan), Says, known)
    BY DEF ScanFits
  <2> HIDE DEF old
  <2>10. Fits(t.sink, ScanSays(t.scan), Says, known)
    BY <1>1, <2>2, <2>7, <2>8, <2>9, MovesFit
  <2>11. QED
    BY <1>3, <1>4, <2>2, <2>3, <2>10 DEF ScanFits, SticksShape, t
<1>8. CASE ~ui
  <2>1. t \in {r, [r EXCEPT !.sink = JoyAbsolute(@, port, low)]}
    BY <1>2, <1>8
  <2>2. t.sink \in {r.sink, JoyAbsolute(r.sink, port, low)} /\ t.scan = r.scan
    BY <1>1, <2>1
  <2>3. JoyAbsolute(r.sink, port, low).menu = r.sink.menu /\ JoyAbsolute(r.sink, port, low).unpressed = r.sink.unpressed
    BY <1>1 DEF JoyAbsolute, Latched, SinkShape
  <2>4. ScanFits(t, known)
    BY <1>3, <2>2, <2>3, FitsSame
  <2>5. QED
    BY <2>2, <2>4 DEF t
<1>9. QED
  BY <1>7, <1>8

\* Both joysticks, after what does not concern them.
LEMMA JoysticksFit ==
  ASSUME ui \in BOOLEAN, plugged = "gpio", gpio_config # "custom",
         NEW r, NEW known, ScanFits(r, known), r.scan.joyPrev = scan.joyPrev
  PROVE  ScanFits(Joysticks(r), known) /\ Joysticks(r).scan.shifts = r.scan.shifts
<1> DEFINE q == ReadJoystick(r, 0, gpio_config)
<1>1. ScanFits(q, known) /\ q.scan.shifts = r.scan.shifts /\ q.scan.joyPrev[1] = scan.joyPrev[1]
  BY JoystickFits
<1> HIDE DEF q
<1>2. ScanFits(ReadJoystick(q, 1, gpio_config), known) /\ ReadJoystick(q, 1, gpio_config).scan.shifts = q.scan.shifts
  BY <1>1, JoystickFits
<1>3. QED
  BY <1>1, <1>2 DEF Joysticks, q

\* A press and a release at once: what else held the key is still remembered.
LEMMA ClickFits ==
  ASSUME ui \in BOOLEAN, plugged = "gpio", gpio_config \notin {"keyboard", "custom"},
         NEW r, NEW known, ScanFits(r, known), r.scan.joyPrev = scan.joyPrev, NEW button, button[1] \in Pins
  PROVE  LET t == Click(r, button) IN
         ScanFits(t, known) /\ t.scan.joyPrev = scan.joyPrev /\ t.scan.shifts = r.scan.shifts
<1> DEFINE d == Debounce(r, button[1])
           one == Key(d.sink, button[2], TRUE)
           two == Key(one, button[2], FALSE)
           t == Click(r, button)
<1>1. ScanGood(r) /\ EmuRight(r.sink) /\ ~r.sink.capture /\ SinkShape(r.sink) /\ r.sink.capture \in BOOLEAN
  BY DEF ScanFits, ScanGood, EmuRight
<1>2. DOMAIN d = DOMAIN r /\ d.sink = r.sink /\ d.scan.joyPrev = r.scan.joyPrev /\ d.scan.shifts = r.scan.shifts
  BY <1>1, DebounceDoes
<1>3. t = IF d.scan.debounce[button[1]] = "press" /\ button[2] # "quick" THEN [d EXCEPT !.sink = two] ELSE d
  BY DEF Click
<1>4. ScanGood(t)
  BY <1>1, ClickGood
<1> HIDE DEF d, t
<1>5. t.scan = d.scan /\ t.sink \in {d.sink, two}
  BY <1>1, <1>2, <1>3 DEF ScanGood
<1>6. \A memory : ScanSays(memory) = StickSays(memory)
  BY DEF ScanSays
<1>7. ScanSays(t.scan) = Says /\ ScanSays(r.scan) = Says
  BY <1>2, <1>5, <1>6 DEF StickSays, Says
<1>8. MenuTold(d.sink, one, KeySays(button[2]), TRUE) /\ SinkShape(one) /\ ~one.capture
  BY <1>1, <1>2, KeyMenu, KeyShape, KeySink DEF KeyDoes
<1> HIDE DEF one
<1>9. MenuTold(one, two, KeySays(button[2]), FALSE)
  BY <1>8, KeyMenu
<1> HIDE DEF two
<1>10. two.menu = d.sink.menu \ KeySays(button[2]) /\ two.unpressed = d.sink.unpressed
  BY <1>8, <1>9 DEF MenuTold
<1>11. Fits(d.sink, Says, Says, known)
  BY <1>2, <1>7 DEF ScanFits
<1>12. Fits(t.sink, ScanSays(t.scan), Says, known)
  BY <1>5, <1>7, <1>10, <1>11 DEF Fits
<1>13. SticksShape(t.scan)
  BY <1>2, <1>5 DEF ScanFits, SticksShape
<1>14. QED
  BY <1>2, <1>4, <1>5, <1>12, <1>13 DEF ScanFits, t

\* The buttons of the nav and Waveshare hats.
LEMMA ClicksFit ==
  ASSUME ui \in BOOLEAN, plugged = "gpio", gpio_config \notin {"keyboard", "custom"},
         NEW r, NEW known, ScanFits(r, known), r.scan.joyPrev = scan.joyPrev,
         NEW buttons, Len(buttons) \in Nat, \A i \in 1 .. Len(buttons) : buttons[i][1] \in Pins
  PROVE  LET t == Clicks(r, buttons) IN
         ScanFits(t, known) /\ t.scan.joyPrev = scan.joyPrev /\ t.scan.shifts = r.scan.shifts
<1> DEFINE n == Len(buttons)
<1>1. PICK f : /\ f[0] = r
               /\ \A i \in 1 .. n : f[i] = Click(f[i - 1], buttons[i])
               /\ Clicks(r, buttons) = f[n]
  BY ClicksTurns
<1> DEFINE T == {i \in 0 .. n : ScanFits(f[i], known) /\ f[i].scan.joyPrev = scan.joyPrev /\ f[i].scan.shifts = r.scan.shifts}
<1> HIDE DEF n
<1>2. n \in Nat
  BY DEF n
<1>3. n \in T
  <2>1. 0 \in T
    BY <1>1, <1>2
  <2>2. ASSUME NEW i \in 1 .. n, i - 1 \in T PROVE i \in T
    <3>1. f[i] = Click(f[i - 1], buttons[i]) /\ buttons[i][1] \in Pins /\ ScanFits(f[i - 1], known)
          /\ f[i - 1].scan.joyPrev = scan.joyPrev /\ f[i - 1].scan.shifts = r.scan.shifts
      BY <1>1, <2>2 DEF n
    <3>2. ScanFits(f[i], known) /\ f[i].scan.joyPrev = scan.joyPrev /\ f[i].scan.shifts = r.scan.shifts
      BY <3>1, ClickFits
    <3>3. QED
      BY <1>2, <3>2
  <2> HIDE DEF T
  <2>3. T \in SUBSET (0 .. n)
    BY DEF T
  <2>4. QED
    BY <1>2, <2>1, <2>2, <2>3, Induct
<1>4. QED
  BY <1>1, <1>3

\* The contacts in the order of the scan.
Contact(i) == <<(i - 1) \div 8, (i - 1) % 8>>

\* In the middle of the matrix: what changed so far was scanned already, and a
\* shift key that moved has excused the cursor's keys.
MatrixFits(r, i) ==
  /\ ScanFits(r, excused \cup ShiftMoved(scan.shifts, r.scan.shifts))
  /\ r.scan.joyPrev = scan.joyPrev
  /\ \A k \in r.scan.matrix \ scan.matrix : \E j \in 1 .. i : k = Contact(j)
  /\ \A x : ~(x \in r.scan.shifts <=> x \in scan.shifts) =>
       \E j \in 1 .. i : Contact(j) \in DOMAIN MatrixKeys /\ MatrixKeys[Contact(j)] = x

\* The restore key.
LEMMA RestoreFits ==
  ASSUME ui \in BOOLEAN, plugged = "gpio", gpio_config = "keyboard", NEW r, ScanFits(r, excused), r.scan = scan
  PROVE  MatrixFits(ScanRestore(r), 0)
<1> DEFINE low == Read(r, RestorePin, FALSE)
           t == ScanRestore(r)
           own == KeySays("PageUp")
<1>1. t = [r EXCEPT !.sink = IF low # r.scan.restore THEN Key(@, "PageUp", low) ELSE @, !.scan.restore = low]
  BY Zenon DEF ScanRestore
<1>2. low \in BOOLEAN
  BY DEF Read, Low
<1>3. /\ DOMAIN r = {"sink", "scan", "contacts", "later"} /\ MemoryShape(r.scan) /\ ScanGood(r)
      /\ DOMAIN r.scan = {"debounce", "matrix", "restore", "joyPrev", "pinPrev", "shifts"}
      /\ SinkShape(r.sink) /\ ~r.sink.capture /\ r.scan.restore \in BOOLEAN
  BY DEF ScanFits, ScanGood, MemoryShape, EmuRight
<1>4. ScanGood(t)
  BY <1>3, RestoreGood
<1> HIDE DEF low, t
<1>5. /\ t.sink = IF low # r.scan.restore THEN Key(r.sink, "PageUp", low) ELSE r.sink
      /\ t.scan.matrix = scan.matrix /\ t.scan.restore = low
      /\ t.scan.joyPrev = scan.joyPrev /\ t.scan.shifts = scan.shifts
  BY <1>1, <1>3
<1>6. Fits(r.sink, Says, Says, excused) /\ Says = ScanSays(scan)
  BY DEF ScanFits, Says
<1>7. Fits(t.sink, ScanSays(t.scan), Says, excused)
  <2> DEFINE keys == UNION {KeySays(Translated(MatrixKeys[k], scan.shifts # {})) : k \in scan.matrix}
             rest == StickSays(scan) \cup keys
  <2>1. ScanSays(scan) = rest \cup (IF scan.restore THEN own ELSE {})
    BY DEF ScanSays, MatrixSays
  <2>2. ScanSays(t.scan) = rest \cup (IF low THEN own ELSE {})
    BY <1>5 DEF ScanSays, MatrixSays, StickSays
  <2> HIDE DEF own, rest
  <2>3. CASE low = scan.restore
    <3>1. ScanSays(t.scan) = Says /\ t.sink = r.sink
      BY <1>5, <1>6, <2>1, <2>2, <2>3
    <3>2. QED
      BY <1>6, <3>1
  <2>4. CASE low # scan.restore
    <3>1. t.sink = Key(r.sink, "PageUp", low)
      BY <1>5, <2>4
    <3>2. MenuTold(r.sink, t.sink, own, low)
      BY <1>2, <1>3, <3>1, KeyMenu DEF own
    <3>3. /\ low => ScanSays(t.scan) \subseteq Says \cup own \cup excused /\ Says \cup own \subseteq ScanSays(t.scan) \cup excused
          /\ ~low => /\ own \subseteq Says \cup excused
                     /\ ScanSays(t.scan) \subseteq Says \cup excused /\ Says \subseteq ScanSays(t.scan) \cup own \cup excused
      BY <1>2, <1>3, <1>6, <2>1, <2>2, <2>4
    <3>4. QED
      BY <1>2, <1>6, <3>2, <3>3, ToldFits
  <2>5. QED
    BY <2>3, <2>4
<1>8. SticksShape(t.scan)
  BY <1>5 DEF ScanFits, SticksShape
<1>9. excused \cup ShiftMoved(scan.shifts, t.scan.shifts) = excused
  BY <1>5 DEF ShiftMoved
<1>10. QED
  BY <1>4, <1>5, <1>7, <1>8, <1>9 DEF MatrixFits, ScanFits, t

\* One contact of the matrix.
LEMMA ScanKeyFits ==
  ASSUME ui \in BOOLEAN, plugged = "gpio", gpio_config = "keyboard", NEW i \in 1 .. 64, NEW r, MatrixFits(r, i - 1),
         NEW pa, NEW pb, <<pa, pb>> = Contact(i), <<pa, pb>> \in DOMAIN MatrixKeys
  PROVE  MatrixFits(ScanKey(r, pa, pb), i)
<1> DEFINE low == Low(pb + 8, r.contacts, {pa})
           this == <<pa, pb>>
           was == this \in r.scan.matrix
           key == MatrixKeys[this]
           flip(S, x) == IF low THEN S \cup {x} ELSE S \ {x}
           shifts == IF ui /\ key \in {"LeftShift", "RightShift"} THEN flip(r.scan.shifts, key) ELSE r.scan.shifts
           n == Translated(key, ui /\ shifts # {})
           matrix == flip(r.scan.matrix, this)
           t == ScanKey(r, pa, pb)
           known == excused \cup ShiftMoved(scan.shifts, shifts)
           own == KeySays(Translated(key, shifts # {}))
<1>1. t = IF low = was THEN r
          ELSE [r EXCEPT !.sink = Key(@, n, low), !.scan.shifts = shifts, !.scan.matrix = flip(@, this)]
  BY Zenon DEF ScanKey
<1>2. low \in BOOLEAN
  BY DEF Low
<1>3. /\ DOMAIN r = {"sink", "scan", "contacts", "later"} /\ ScanGood(r)
      /\ DOMAIN r.scan = {"debounce", "matrix", "restore", "joyPrev", "pinPrev", "shifts"}
      /\ SinkShape(r.sink) /\ ~r.sink.capture /\ SticksShape(r.scan)
      /\ r.scan.joyPrev = scan.joyPrev
  BY DEF MatrixFits, ScanFits, ScanGood, MemoryShape, EmuRight
<1>4. ScanGood(t)
  BY <1>3, ScanKeyGood
<1>5. this \in DOMAIN MatrixKeys /\ this = Contact(i)
  OBVIOUS
<1>6. \A j \in 1 .. i - 1 : j \in 1 .. i /\ Contact(j) # this
  <2>1. ASSUME NEW j \in 1 .. i - 1, Contact(j) = this PROVE FALSE
    <3>1. (j - 1) \div 8 = (i - 1) \div 8 /\ (j - 1) % 8 = (i - 1) % 8
      BY <1>5, <2>1 DEF Contact
    <3>2. QED
      BY <3>1
  <2>2. QED
    BY <2>1
<1>7. i \in 1 .. i
  OBVIOUS
<1> HIDE DEF low, this, t
<1>8. CASE low = was
  <2>1. t = r
    BY <1>1, <1>8
  <2>2. QED
    BY <1>6, <2>1 DEF MatrixFits, t
<1>9. CASE low # was
  <2>1. t = [r EXCEPT !.sink = Key(@, n, low), !.scan.shifts = shifts, !.scan.matrix = flip(@, this)]
    BY <1>1, <1>9
  <2>2. /\ \A k \in matrix : k = this \/ k \in r.scan.matrix
        /\ \A k \in r.scan.matrix : k = this \/ k \in matrix
        /\ this \in matrix <=> low
        /\ this \in r.scan.matrix <=> ~low
    BY <1>2, <1>9
  <2>3. /\ \A x : x # key => (x \in shifts <=> x \in r.scan.shifts)
        /\ key \in r.scan.shifts <=> key \in scan.shifts
    <3>1. \A x : x # key => (x \in shifts <=> x \in r.scan.shifts)
      BY <1>2
    <3>2. \A j \in 1 .. i - 1 : Contact(j) \in DOMAIN MatrixKeys => MatrixKeys[Contact(j)] # key
      BY <1>5, <1>6, MatrixAssumption
    <3>3. QED
      BY <3>1, <3>2 DEF MatrixFits
  <2> HIDE DEF shifts
  <2>4. /\ r.scan.shifts # scan.shifts => shifts # scan.shifts
        /\ shifts # r.scan.shifts => shifts # scan.shifts
    <3>1. r.scan.shifts # scan.shifts => \E x : ~(x \in r.scan.shifts <=> x \in scan.shifts)
      OBVIOUS
    <3>2. shifts # r.scan.shifts => \E x : ~(x \in shifts <=> x \in r.scan.shifts)
      OBVIOUS
    <3>3. QED
      BY <2>3, <3>1, <3>2
  <2> HIDE DEF n, matrix
  <2>5. /\ t.sink = Key(r.sink, n, low)
        /\ t.scan.matrix = matrix /\ t.scan.restore = r.scan.restore /\ t.scan.shifts = shifts
        /\ t.scan.joyPrev = r.scan.joyPrev
    BY <1>3, <2>1 DEF matrix
  <2>6. excused \cup ShiftMoved(scan.shifts, r.scan.shifts) \subseteq known
        /\ (shifts # r.scan.shifts => Cursor \subseteq known) /\ (shifts # scan.shifts => Cursor \subseteq known)
    BY <2>4 DEF ShiftMoved
  <2> HIDE DEF known
  <2>7. \A k : /\ KeySays(Translated(k, shifts # {})) \subseteq KeySays(Translated(k, r.scan.shifts # {})) \cup known
               /\ KeySays(Translated(k, r.scan.shifts # {})) \subseteq KeySays(Translated(k, shifts # {})) \cup known
    <3>1. CASE shifts = r.scan.shifts
      BY <3>1
    <3>2. CASE shifts # r.scan.shifts
      BY <2>6, <3>2, ShiftSays
    <3>3. QED
      BY <3>1, <3>2
  <2>8. own = KeySays(n)
    <3>1. CASE ui
      BY <3>1 DEF n
    <3>2. CASE ~ui
      BY <3>2 DEF KeySays
    <3>3. QED
      BY <3>1, <3>2
  <2>9. MenuTold(r.sink, t.sink, own, low)
    BY <1>2, <1>3, <2>5, <2>8, KeyMenu
  <2>10. Fits(r.sink, ScanSays(r.scan), Says, known)
    <3>1. Fits(r.sink, ScanSays(r.scan), Says, excused \cup ShiftMoved(scan.shifts, r.scan.shifts))
      BY DEF MatrixFits, ScanFits
    <3>2. QED
      BY <2>6, <3>1 DEF Fits
  <2> DEFINE names(M, a) == UNION {KeySays(Translated(MatrixKeys[k], a)) : k \in M}
             rest == StickSays(r.scan) \cup (IF r.scan.restore THEN KeySays("PageUp") ELSE {})
  <2>11. /\ ScanSays(r.scan) = rest \cup names(r.scan.matrix, r.scan.shifts # {})
         /\ ScanSays(t.scan) = rest \cup names(matrix, shifts # {})
    BY <2>5 DEF ScanSays, StickSays, MatrixSays
  <2>12. /\ names(matrix, shifts # {}) \subseteq names(r.scan.matrix, r.scan.shifts # {}) \cup own \cup known
         /\ names(r.scan.matrix, r.scan.shifts # {}) \subseteq names(matrix, shifts # {}) \cup own \cup known
         /\ low => own \subseteq names(matrix, shifts # {})
         /\ ~low => names(matrix, shifts # {}) \subseteq names(r.scan.matrix, r.scan.shifts # {}) \cup known
    BY <2>2, <2>7
  <2>13. ~low => own \subseteq Says \cup known
    <3>1. ~low => this \in scan.matrix
      BY <1>6, <2>2 DEF MatrixFits
    <3>2. this \in scan.matrix => KeySays(Translated(key, scan.shifts # {})) \subseteq Says
      BY DEF Says, ScanSays, MatrixSays
    <3>3. own \subseteq KeySays(Translated(key, scan.shifts # {})) \cup known
      <4>1. CASE shifts = scan.shifts
        BY <4>1
      <4>2. CASE shifts # scan.shifts
        BY <2>6, <4>2, ShiftSays
      <4>3. QED
        BY <4>1, <4>2
    <3>4. QED
      BY <3>1, <3>2, <3>3
  <2> HIDE DEF names, rest, own
  <2>14. Fits(t.sink, ScanSays(t.scan), Says, known)
    <3>1. low => ScanSays(t.scan) \subseteq ScanSays(r.scan) \cup own \cup known
                 /\ ScanSays(r.scan) \cup own \subseteq ScanSays(t.scan) \cup known
      BY <2>11, <2>12
    <3>2. ~low => /\ own \subseteq Says \cup known
                  /\ ScanSays(t.scan) \subseteq ScanSays(r.scan) \cup known
                  /\ ScanSays(r.scan) \subseteq ScanSays(t.scan) \cup own \cup known
      BY <2>11, <2>12, <2>13
    <3>3. QED
      BY <1>2, <2>9, <2>10, <3>1, <3>2, ToldFits
  <2>15. SticksShape(t.scan)
    BY <1>3, <2>5 DEF SticksShape
  <2>16. ScanFits(t, excused \cup ShiftMoved(scan.shifts, t.scan.shifts))
    BY <1>4, <2>5, <2>14, <2>15 DEF ScanFits, known
  <2>17. \A k \in t.scan.matrix \ scan.matrix : \E j \in 1 .. i : k = Contact(j)
    BY <1>5, <1>6, <1>7, <2>2, <2>5 DEF MatrixFits
  <2>18. \A x : ~(x \in t.scan.shifts <=> x \in scan.shifts) =>
           \E j \in 1 .. i : Contact(j) \in DOMAIN MatrixKeys /\ MatrixKeys[Contact(j)] = x
    BY <1>5, <1>6, <1>7, <2>3, <2>5 DEF MatrixFits
  <2>19. QED
    BY <1>3, <2>5, <2>16, <2>17, <2>18 DEF MatrixFits, t
<1>10. QED
  BY <1>8, <1>9

\* The whole matrix.
LEMMA ScanKeyboardFits ==
  ASSUME ui \in BOOLEAN, plugged = "gpio", gpio_config = "keyboard", NEW r, ScanFits(r, excused), r.scan = scan
  PROVE  LET t == ScanKeyboard(r) IN
         ScanFits(t, excused \cup ShiftMoved(scan.shifts, t.scan.shifts)) /\ t.scan.joyPrev = scan.joyPrev
<1>1. PICK f : /\ f[0] = ScanRestore(r)
               /\ \A i \in 1 .. 64 :
                    f[i] = IF <<(i - 1) \div 8, (i - 1) % 8>> \in DOMAIN MatrixKeys
                           THEN ScanKey(f[i - 1], (i - 1) \div 8, (i - 1) % 8) ELSE f[i - 1]
               /\ ScanKeyboard(r) = f[64]
  BY MatrixTurns
<1> DEFINE T == {i \in 0 .. 64 : MatrixFits(f[i], i)}
<1>2. 64 \in T
  <2>1. 0 \in T
    BY <1>1, RestoreFits
  <2>2. ASSUME NEW i \in 1 .. 64, i - 1 \in T PROVE i \in T
    <3> DEFINE pa == (i - 1) \div 8
               pb == (i - 1) % 8
    <3>1. MatrixFits(f[i - 1], i - 1) /\ i \in 0 .. 64
      BY <2>2
    <3>2. f[i] = IF <<pa, pb>> \in DOMAIN MatrixKeys THEN ScanKey(f[i - 1], pa, pb) ELSE f[i - 1]
      BY <1>1
    <3>3. <<pa, pb>> = Contact(i)
      BY DEF Contact
    <3> HIDE DEF pa, pb
    <3>4. \A j \in 1 .. i - 1 : j \in 1 .. i
      OBVIOUS
    <3>5. MatrixFits(f[i - 1], i)
      BY <3>1, <3>4 DEF MatrixFits
    <3>6. MatrixFits(f[i], i)
      BY <3>1, <3>2, <3>3, <3>5, ScanKeyFits
    <3>7. QED
      BY <3>1, <3>6
  <2> HIDE DEF T
  <2>3. T \in SUBSET (0 .. 64) /\ 64 \in Nat
    BY DEF T
  <2>4. QED
    BY <2>1, <2>2, <2>3, Induct
<1>3. MatrixFits(f[64], 64)
  BY <1>2
<1>4. QED
  BY <1>1, <1>3 DEF MatrixFits

\* In the middle of the bound pins: those to come are remembered as they were.
PinsFit(r, i) ==
  /\ ScanFits(r, excused)
  /\ r.scan.joyPrev = scan.joyPrev /\ r.scan.shifts = scan.shifts
  /\ \A p \in Pins : p >= i =>
       /\ r.scan.debounce[p] = scan.debounce[p]
       /\ p \in r.scan.pinPrev <=> p \in scan.pinPrev

\* What is remembered of one pin, and told.
LEMMA PinTold ==
  ASSUME ui \in BOOLEAN, plugged = "gpio", gpio_config = "custom", NEW r, ScanFits(r, excused), NEW t, ScanGood(t),
         NEW pin, NEW press \in BOOLEAN, MenuTold(r.sink, t.sink, PinSays(pin), press),
         t.scan.joyPrev = r.scan.joyPrev,
         press => PinsDown(t.scan) = PinsDown(r.scan) \cup {pin},
         ~press => PinsDown(t.scan) = PinsDown(r.scan) \ {pin},
         ~press => pin \in PinsDown(scan)
  PROVE  ScanFits(t, excused)
<1>1. \A memory : ScanSays(memory) = UNION {PinSays(p) : p \in PinsDown(memory)}
  BY DEF ScanSays
<1>2. Says = ScanSays(scan)
  BY DEF Says
<1>3. press => ScanSays(t.scan) \subseteq ScanSays(r.scan) \cup PinSays(pin) /\ ScanSays(r.scan) \cup PinSays(pin) \subseteq ScanSays(t.scan)
  BY <1>1
<1>4. ~press => /\ PinSays(pin) \subseteq Says
                /\ ScanSays(t.scan) \subseteq ScanSays(r.scan) /\ ScanSays(r.scan) \subseteq ScanSays(t.scan) \cup PinSays(pin)
  BY <1>1, <1>2
<1>5. Fits(r.sink, ScanSays(r.scan), Says, excused)
  BY DEF ScanFits
<1>6. Fits(t.sink, ScanSays(t.scan), Says, excused)
  <2>1. /\ press => ScanSays(t.scan) \subseteq ScanSays(r.scan) \cup PinSays(pin) \cup excused
                    /\ ScanSays(r.scan) \cup PinSays(pin) \subseteq ScanSays(t.scan) \cup excused
        /\ ~press => /\ PinSays(pin) \subseteq Says \cup excused
                     /\ ScanSays(t.scan) \subseteq ScanSays(r.scan) \cup excused
                     /\ ScanSays(r.scan) \subseteq ScanSays(t.scan) \cup PinSays(pin) \cup excused
    BY <1>3, <1>4
  <2>2. QED
    BY <1>5, <2>1, ToldFits
<1>7. SticksShape(t.scan)
  BY DEF ScanFits, SticksShape
<1>8. QED
  BY <1>6, <1>7 DEF ScanFits

\* One bound pin.
LEMMA CustomPinFits ==
  ASSUME ui \in BOOLEAN, plugged = "gpio", gpio_config = "custom", NEW i \in 1 .. 23, NEW r, PinsFit(r, i - 1),
         NEW pin, pin = i - 1, pin \in DOMAIN Bindings
  PROVE  PinsFit(CustomPin(r, pin), i)
<1> DEFINE bank == Bindings[pin][1]
           func == Bindings[pin][2]
           low == Read(r, pin, FALSE)
           was == pin \in r.scan.pinPrev
           d == Debounce(r, pin)
           held == d.scan.debounce[pin]
           key == IF func \in Directions THEN MenuKey[func] ELSE "none"
           told == Button(d.sink, func, held = "press", ui)
           t == CustomPin(r, pin)
<1>1. pin \in Pins /\ pin >= i - 1 /\ \A p \in Pins : p >= i => p # pin /\ p >= i - 1
  BY BindingsAssumption DEF Pins
<1>2. /\ DOMAIN r = {"sink", "scan", "contacts", "later"} /\ SinkShape(r.sink) /\ ~r.sink.capture /\ ScanGood(r)
      /\ DOMAIN r.scan = {"debounce", "matrix", "restore", "joyPrev", "pinPrev", "shifts"}
      /\ r.scan.debounce \in [Pins -> {"up", "press", "down", "release"}]
      /\ ScanFits(r, excused) /\ r.scan.joyPrev = scan.joyPrev /\ r.scan.shifts = scan.shifts
      /\ r.scan.debounce[pin] = scan.debounce[pin] /\ (pin \in r.scan.pinPrev <=> pin \in scan.pinPrev)
  BY <1>1 DEF PinsFit, ScanFits, ScanGood, MemoryShape, EmuRight
<1>3. t = CASE bank = 0 /\ held \in {"press", "release"} -> [d EXCEPT !.sink = told]
            [] bank = 0 /\ held \notin {"press", "release"} -> d
            [] bank > 0 /\ ui ->
                 [r EXCEPT !.sink = IF low # was THEN UiKey(@, key, low) ELSE @,
                           !.scan.pinPrev = IF low THEN @ \cup {pin} ELSE @ \ {pin}]
            [] OTHER -> r
  <2> HIDE DEF bank, func, low, was, d, held, key
  <2>1. QED
    BY Zenon DEF CustomPin, bank, func, low, was, d, held, key
<1>4. /\ DOMAIN d = DOMAIN r /\ d.sink = r.sink
      /\ d.scan.joyPrev = r.scan.joyPrev /\ d.scan.pinPrev = r.scan.pinPrev /\ d.scan.shifts = r.scan.shifts
      /\ d.scan.debounce = [r.scan.debounce EXCEPT ![pin] = Debounced(@, Read(r, pin, FALSE), Read(r, pin, TRUE))]
  BY <1>1, <1>2, DebounceDoes
<1>5. /\ held = Debounced(r.scan.debounce[pin], Read(r, pin, FALSE), Read(r, pin, TRUE))
      /\ \A p \in Pins \ {pin} : d.scan.debounce[p] = r.scan.debounce[p]
  BY <1>1, <1>2, <1>4
<1>6. /\ held \in {"up", "press", "down", "release"}
      /\ held = "up" => r.scan.debounce[pin] \in {"up", "release"}
      /\ held = "down" => r.scan.debounce[pin] \in {"press", "down"}
      /\ held = "release" => r.scan.debounce[pin] \in {"press", "down"}
  <2>1. r.scan.debounce[pin] \in {"up", "press", "down", "release"}
    BY <1>1, <1>2
  <2>2. QED
    BY <1>5, <2>1 DEF Debounced
<1>7. ScanGood(t)
  BY <1>2, CustomPinGood
<1>8. \A p \in DOMAIN Bindings : p \in Pins
  BY BindingsAssumption DEF Pins
<1> HIDE DEF bank, d, held, told, t, key, low, was
<1>9. CASE bank = 0 /\ held \in {"press", "release"}
  <2>1. t = [d EXCEPT !.sink = told]
    BY <1>3, <1>9
  <2>2. t.sink = told /\ t.scan = d.scan
    BY <1>2, <1>4, <2>1
  <2> DEFINE press == held = "press"
  <2>3. press \in BOOLEAN
    OBVIOUS
  <2>4. MenuTold(r.sink, told, ButtonSays(func, ui), press)
    BY <1>2, <1>4, <2>3, ButtonMenu DEF told
  <2>5. PinSays(pin) = ButtonSays(func, ui)
    <3>1. ~ui => ButtonSays(func, FALSE) = {}
      BY DEF ButtonSays, KeySays
    <3>2. QED
      BY <1>9, <3>1 DEF PinSays, bank
  <2>6. PinsDown(d.scan) = IF press THEN PinsDown(r.scan) \cup {pin} ELSE PinsDown(r.scan) \ {pin}
    <3>1. /\ \A p \in PinsDown(r.scan) : p # pin => p \in PinsDown(d.scan)
          /\ \A p \in PinsDown(d.scan) : p # pin => p \in PinsDown(r.scan)
      BY <1>4, <1>5, <1>8 DEF PinsDown
    <3>2. pin \in PinsDown(d.scan) <=> press
      BY <1>9 DEF PinsDown, bank, held
    <3>3. QED
      BY <3>1, <3>2
  <2>7. ~press => pin \in PinsDown(scan)
    BY <1>2, <1>6, <1>9 DEF PinsDown, bank
  <2> HIDE DEF press
  <2>8. ScanFits(t, excused)
    <3>1. MenuTold(r.sink, t.sink, PinSays(pin), press)
      BY <2>2, <2>4, <2>5
    <3>2. t.scan.joyPrev = r.scan.joyPrev
      BY <1>4, <2>2
    <3>3. /\ press => PinsDown(t.scan) = PinsDown(r.scan) \cup {pin}
          /\ ~press => PinsDown(t.scan) = PinsDown(r.scan) \ {pin}
      BY <2>2, <2>6
    <3>4. QED
      BY <1>2, <1>7, <2>3, <2>7, <3>1, <3>2, <3>3, PinTold
  <2>9. QED
    BY <1>1, <1>2, <1>4, <1>5, <2>2, <2>8 DEF PinsFit, t
<1>10. CASE bank = 0 /\ held \notin {"press", "release"}
  <2>1. t = d
    BY <1>3, <1>10
  <2>2. PinsDown(d.scan) = PinsDown(r.scan)
    <3>1. \A p \in DOMAIN Bindings : p # pin => (p \in PinsDown(r.scan) <=> p \in PinsDown(d.scan))
      BY <1>4, <1>5, <1>8 DEF PinsDown
    <3>2. pin \in PinsDown(d.scan) <=> pin \in PinsDown(r.scan)
      BY <1>6, <1>10 DEF PinsDown, bank, held
    <3>3. QED
      BY <3>1, <3>2 DEF PinsDown
  <2>3. ScanSays(t.scan) = ScanSays(r.scan)
    BY <2>1, <2>2 DEF ScanSays
  <2>4. ScanFits(t, excused)
    BY <1>2, <1>4, <1>7, <2>1, <2>3, FitsSame
  <2>5. QED
    BY <1>1, <1>2, <1>4, <1>5, <2>1, <2>4 DEF PinsFit, t
<1>11. CASE bank # 0 /\ bank > 0 /\ ui
  <2>1. t = [r EXCEPT !.sink = IF low # was THEN UiKey(@, key, low) ELSE @,
                      !.scan.pinPrev = IF low THEN @ \cup {pin} ELSE @ \ {pin}]
    BY <1>3, <1>11
  <2>2. /\ t.sink = IF low # was THEN UiKey(r.sink, key, low) ELSE r.sink
        /\ t.scan.pinPrev = IF low THEN r.scan.pinPrev \cup {pin} ELSE r.scan.pinPrev \ {pin}
        /\ t.scan.joyPrev = r.scan.joyPrev /\ t.scan.shifts = r.scan.shifts /\ t.scan.debounce = r.scan.debounce
    BY <1>2, <2>1
  <2>3. low \in BOOLEAN /\ was = (pin \in r.scan.pinPrev)
    BY DEF low, was, Read, Low
  <2>4. PinSays(pin) = {key}
    BY <1>11 DEF PinSays, bank, key
  <2>5. PinsDown(t.scan) = IF low THEN PinsDown(r.scan) \cup {pin} ELSE PinsDown(r.scan) \ {pin}
    <3>1. \A p \in DOMAIN Bindings : p # pin => (p \in PinsDown(r.scan) <=> p \in PinsDown(t.scan))
      BY <2>2 DEF PinsDown
    <3>2. pin \in PinsDown(t.scan) <=> low
      BY <1>11, <2>2, <2>3 DEF PinsDown, bank
    <3>3. QED
      BY <2>3, <3>1, <3>2 DEF PinsDown
  <2>6. ScanFits(t, excused)
    <3>1. CASE low = was
      <4>1. t.sink = r.sink
        BY <2>2, <3>1
      <4>2. PinsDown(t.scan) = PinsDown(r.scan)
        BY <1>11, <2>3, <2>5, <3>1 DEF PinsDown, bank
      <4>3. ScanSays(t.scan) = ScanSays(r.scan)
        BY <4>2 DEF ScanSays
      <4>4. QED
        BY <1>2, <1>7, <2>2, <4>1, <4>3, FitsSame
    <3>2. CASE low # was
      <4>1. MenuTold(r.sink, t.sink, PinSays(pin), low)
        BY <1>2, <2>2, <2>3, <2>4, <3>2, UiKeyMenu
      <4>2. ~low => pin \in PinsDown(scan)
        BY <1>2, <1>11, <2>3, <3>2 DEF PinsDown, bank
      <4>3. QED
        <5>1. t.scan.joyPrev = r.scan.joyPrev
          BY <2>2
        <5>2. /\ low => PinsDown(t.scan) = PinsDown(r.scan) \cup {pin}
              /\ ~low => PinsDown(t.scan) = PinsDown(r.scan) \ {pin}
          BY <2>5
        <5>3. low \in BOOLEAN /\ ScanFits(r, excused)
          BY <1>2, <2>3
        <5>4. QED
          BY <1>7, <4>1, <4>2, <5>1, <5>2, <5>3, PinTold
    <3>3. QED
      BY <3>1, <3>2
  <2>7. QED
    BY <1>1, <1>2, <2>2, <2>6 DEF PinsFit, t
<1>12. CASE bank # 0 /\ ~(bank > 0 /\ ui)
  <2>1. t = r
    BY <1>3, <1>12
  <2>2. QED
    BY <1>1, <2>1 DEF PinsFit, t
<1>13. QED
  BY <1>6, <1>9, <1>10, <1>11, <1>12

\* All bound pins.
LEMMA CustomPinsFit ==
  ASSUME ui \in BOOLEAN, plugged = "gpio", gpio_config = "custom", NEW r, ScanFits(r, excused), r.scan = scan
  PROVE  PinsFit(CustomPins(r), 23)
<1>1. PICK f : /\ f[0] = r
               /\ \A i \in 1 .. 23 : f[i] = IF i - 1 \in DOMAIN Bindings THEN CustomPin(f[i - 1], i - 1) ELSE f[i - 1]
               /\ CustomPins(r) = f[23]
  BY PinsTurns
<1> DEFINE T == {i \in 0 .. 23 : PinsFit(f[i], i)}
<1>2. 23 \in T
  <2>1. 0 \in T
    BY <1>1 DEF PinsFit
  <2>2. ASSUME NEW i \in 1 .. 23, i - 1 \in T PROVE i \in T
    <3>1. PinsFit(f[i - 1], i - 1) /\ i \in 0 .. 23
      BY <2>2
    <3>2. f[i] = IF i - 1 \in DOMAIN Bindings THEN CustomPin(f[i - 1], i - 1) ELSE f[i - 1]
      BY <1>1
    <3>3. PinsFit(f[i - 1], i)
      <4>1. \A p \in Pins : p >= i => p >= i - 1
        BY DEF Pins
      <4>2. QED
        BY <3>1, <4>1 DEF PinsFit
    <3>4. PinsFit(f[i], i)
      BY <3>1, <3>2, <3>3, CustomPinFits
    <3>5. QED
      BY <3>1, <3>4
  <2> HIDE DEF T
  <2>3. T \in SUBSET (0 .. 23) /\ 23 \in Nat
    BY DEF T
  <2>4. QED
    BY <2>1, <2>2, <2>3, Induct
<1>3. QED
  BY <1>1, <1>2

\* The joysticks on bound pins are not the menu's.
LEMMA CustomJoyFits ==
  ASSUME NEW r, ScanFits(r, excused), NEW port \in Ports
  PROVE  ScanFits(CustomJoy(r, port), excused) /\ CustomJoy(r, port).scan = r.scan
<1> DEFINE bound == {pin \in DOMAIN Bindings : Bindings[pin][1] > 0 /\ port \in BankPort(Bindings[pin][1])}
           low == {Bindings[pin][2] : pin \in {q \in bound : Read(r, q, FALSE)}}
           t == CustomJoy(r, port)
<1>1. t \in {r, [r EXCEPT !.sink = JoyAbsolute(@, port, low)]}
  <2> HIDE DEF low
  <2>1. t = IF ui \/ bound = {} THEN r ELSE [r EXCEPT !.sink = JoyAbsolute(@, port, low)]
    BY Zenon DEF CustomJoy, low
  <2> HIDE DEF t, bound
  <2>2. QED
    BY <2>1
<1>2. DOMAIN r = {"sink", "scan", "contacts", "later"} /\ SinkShape(r.sink) /\ ScanGood(r)
  BY DEF ScanFits, ScanGood, EmuRight
<1>3. ScanGood(t)
  BY <1>2, CustomJoyGood
<1> HIDE DEF low, t
<1>4. t.sink \in {r.sink, JoyAbsolute(r.sink, port, low)} /\ t.scan = r.scan
  BY <1>1, <1>2
<1>5. JoyAbsolute(r.sink, port, low).menu = r.sink.menu /\ JoyAbsolute(r.sink, port, low).unpressed = r.sink.unpressed
  BY <1>2 DEF JoyAbsolute, Latched, SinkShape
<1>6. ScanFits(t, excused)
  BY <1>3, <1>4, <1>5, FitsSame
<1>7. QED
  BY <1>4, <1>6 DEF t

\* circle_check_gpio, in any configuration.
LEMMA ScannedFits ==
  ASSUME MenuInvariant, SeesInvariant, plugged = "gpio", NEW later
  PROVE  LET r == Scanned(Start(later)) IN ScanFits(r, excused \cup ShiftMoved(scan.shifts, r.scan.shifts))
<1> DEFINE r == Start(later)
           Done(q) == ScanFits(q, excused \cup ShiftMoved(scan.shifts, q.scan.shifts))
<1>1. ui \in BOOLEAN /\ EmuRight(sink) /\ SinkShape(sink) /\ ~sink.capture /\ sink.emu \ excused \subseteq ScanSource(scan)
      /\ MemoryShape(scan) /\ MatrixTold(scan, sink) /\ MenuRight /\ SticksShape(scan)
  BY DEF SeesInvariant, EmuRight, Source, GpioSees, MenuInvariant
<1>2. ScanFits(r, excused) /\ r.scan = scan
  <2>1. DOMAIN r = {"sink", "scan", "contacts", "later"} /\ r.sink = Unpressed(sink) /\ r.scan = scan
    BY DEF Start, Unpressed
  <2> HIDE DEF r
  <2>2. EmuRight(r.sink) /\ r.sink.emu = sink.emu /\ ~r.sink.capture
    BY <1>1, <2>1, UnpressedEmu
  <2>3. MatrixTold(r.scan, r.sink)
    BY <1>1, <2>1, <2>2 DEF MatrixTold
  <2>4. ScanGood(r)
    BY <1>1, <2>1, <2>2, <2>3 DEF ScanGood
  <2>5. Says = ScanSays(r.scan)
    BY <2>1 DEF Says
  <2>6. Fits(r.sink, ScanSays(r.scan), Says, excused)
    BY <1>1, <2>1, <2>5, UnpressedFits
  <2>7. QED
    BY <1>1, <2>1, <2>4, <2>6 DEF ScanFits
<1>3. Scanned(r) =
        CASE gpio_config = "nav"       -> Joysticks(Clicks(r, NavButtons))
          [] gpio_config = "keyboard"  -> Joysticks(ScanKeyboard(r))
          [] gpio_config = "waveshare" -> ReadJoystick(Clicks(r, WaveshareButtons), 0, "waveshare")
          [] gpio_config = "userport"  -> Joysticks(r)
          [] gpio_config = "custom"    -> ReadCustomGPIO(r)
          [] OTHER -> r
  BY Zenon DEF Scanned
<1> HIDE DEF r
<1>4. ASSUME NEW q, ScanFits(q, excused), q.scan.shifts = scan.shifts PROVE Done(q)
  <2>1. ShiftMoved(scan.shifts, q.scan.shifts) = {}
    BY <1>4 DEF ShiftMoved
  <2>2. excused \cup ShiftMoved(scan.shifts, q.scan.shifts) = excused
    BY <2>1
  <2>3. QED
    BY <1>4, <2>2, Zenon
<1> HIDE DEF Done
<1>5. CASE gpio_config = "nav"
  <2>1. Len(NavButtons) = 8 /\ \A i \in 1 .. 8 : NavButtons[i][1] \in Pins
    BY DEF NavButtons, Pins
  <2>2. Len(NavButtons) \in Nat /\ \A i \in 1 .. Len(NavButtons) : NavButtons[i][1] \in Pins
    BY <2>1
  <2> DEFINE q == Clicks(r, NavButtons)
  <2>3. ScanFits(q, excused) /\ q.scan.joyPrev = scan.joyPrev /\ q.scan.shifts = scan.shifts
    BY <1>1, <1>2, <1>5, <2>2, ClicksFit
  <2>4. Scanned(r) = Joysticks(q)
    BY <1>3, <1>5
  <2> HIDE DEF q
  <2>5. ScanFits(Joysticks(q), excused) /\ Joysticks(q).scan.shifts = scan.shifts
    BY <1>1, <1>5, <2>3, JoysticksFit
  <2>6. Done(Scanned(r))
    BY <1>4, <2>4, <2>5
  <2>7. QED
    BY <2>6 DEF Done, r
<1>6. CASE gpio_config = "keyboard"
  <2> DEFINE q == ScanKeyboard(r)
             known == excused \cup ShiftMoved(scan.shifts, q.scan.shifts)
  <2>1. ScanFits(q, known) /\ q.scan.joyPrev = scan.joyPrev
    BY <1>1, <1>2, <1>6, ScanKeyboardFits
  <2>2. Scanned(r) = Joysticks(q)
    BY <1>3, <1>6
  <2> HIDE DEF q
  <2>3. ScanFits(Joysticks(q), known) /\ Joysticks(q).scan.shifts = q.scan.shifts
    BY <1>1, <1>6, <2>1, JoysticksFit
  <2>4. known = excused \cup ShiftMoved(scan.shifts, Scanned(r).scan.shifts)
    BY <2>2, <2>3
  <2> HIDE DEF known
  <2>5. ScanFits(Scanned(r), excused \cup ShiftMoved(scan.shifts, Scanned(r).scan.shifts))
    BY <2>2, <2>3, <2>4, Zenon
  <2>6. QED
    BY <2>5, Zenon DEF r
<1>7. CASE gpio_config = "waveshare"
  <2>1. Len(WaveshareButtons) = 5 /\ \A i \in 1 .. 5 : WaveshareButtons[i][1] \in Pins
    BY DEF WaveshareButtons, Pins
  <2>2. Len(WaveshareButtons) \in Nat /\ \A i \in 1 .. Len(WaveshareButtons) : WaveshareButtons[i][1] \in Pins
    BY <2>1
  <2>3. gpio_config \notin {"keyboard", "custom"}
    BY <1>7
  <2> DEFINE q == Clicks(r, WaveshareButtons)
  <2>4. ScanFits(q, excused) /\ q.scan.joyPrev = scan.joyPrev /\ q.scan.shifts = scan.shifts
    BY <1>1, <1>2, <2>2, <2>3, ClicksFit
  <2>5. Scanned(r) = ReadJoystick(q, 0, "waveshare")
    BY <1>3, <1>7
  <2> HIDE DEF q
  <2>6. ScanFits(Scanned(r), excused) /\ Scanned(r).scan.shifts = scan.shifts
    BY <1>1, <2>3, <2>4, <2>5, JoystickFits
  <2>7. Done(Scanned(r))
    BY <1>4, <2>6
  <2>8. QED
    BY <2>7 DEF Done, r
<1>8. CASE gpio_config = "userport"
  <2>1. Scanned(r) = Joysticks(r)
    BY <1>3, <1>8
  <2>2. ScanFits(Scanned(r), excused) /\ Scanned(r).scan.shifts = scan.shifts
    BY <1>1, <1>2, <1>8, <2>1, JoysticksFit
  <2>3. Done(Scanned(r))
    BY <1>4, <2>2
  <2>4. QED
    BY <2>3 DEF Done, r
<1>9. CASE gpio_config = "custom"
  <2> DEFINE q == CustomPins(r)
             one == CustomJoy(q, 1)
  <2>1. PinsFit(q, 23)
    BY <1>1, <1>2, <1>9, CustomPinsFit
  <2>2. ScanFits(q, excused) /\ q.scan.shifts = scan.shifts
    BY <2>1 DEF PinsFit
  <2>3. Scanned(r) = CustomJoy(one, 2)
    BY <1>3, <1>9 DEF ReadCustomGPIO
  <2> HIDE DEF q
  <2>4. ScanFits(one, excused) /\ one.scan.shifts = scan.shifts
    BY <2>2, CustomJoyFits DEF Ports
  <2> HIDE DEF one
  <2>5. ScanFits(Scanned(r), excused) /\ Scanned(r).scan.shifts = scan.shifts
    BY <2>3, <2>4, CustomJoyFits DEF Ports
  <2>6. Done(Scanned(r))
    BY <1>4, <2>5
  <2>7. QED
    BY <2>6 DEF Done, r
<1>10. CASE gpio_config \notin {"nav", "keyboard", "waveshare", "userport", "custom"}
  <2>1. Scanned(r) = r
    BY <1>3, <1>10
  <2>2. Done(Scanned(r))
    BY <1>2, <1>4, <2>1
  <2>3. QED
    BY <2>2 DEF Done, r
<1>11. QED
  BY <1>5, <1>6, <1>7, <1>8, <1>9, <1>10

\* What a step with the pins has to show.
LEMMA GpioMenuNext ==
  ASSUME MenuRight, plugged = "gpio", UNCHANGED <<ui, joydevs, gpio_config>>, PadTypes', NEW new, Account(new),
         SticksShape(scan'), Fits(sink', ScanSays(scan'), Says, excused \cup new)
  PROVE  MenuInvariant'
<1>1. plugged' = "gpio"
  BY DEF Account
<1>2. Says' = ScanSays(scan')
  BY <1>1, QuietSays DEF Says
<1>3. SticksShape(scan)'
  BY DEF SticksShape
<1>4. Says' \subseteq Held'
  BY <1>3, SaysHeldNext
<1>5. MenuRight'
  BY <1>2, <1>4, MenuNext
<1>6. QED
  BY <1>1, <1>3, <1>5 DEF MenuInvariant

\* The pins: a scan, or the user at a switch.
LEMMA GpioMenu ==
  ASSUME MenuInvariant, SeesInvariant, PadTypes', GpioStep
  PROVE  MenuInvariant'
<1> DEFINE new == ShiftMoved(scan.shifts, scan'.shifts)
<1>1. plugged = "gpio" /\ UNCHANGED <<ui, joydevs>> /\ Account(new)
  BY DEF GpioStep, Quiet
<1>2. MenuRight /\ SinkShape(sink) /\ SticksShape(scan)
  BY <1>1 DEF MenuInvariant, SeesInvariant, EmuRight
<1>3. CASE Check
  <2>1. PICK later : LET r == Scanned(Start(later)) IN
          /\ scan' = r.scan /\ UNCHANGED gpio_config
          /\ sink' = r.sink \/ \E port : sink' = [r.sink EXCEPT !.userport = port]
    BY <1>3, Zenon DEF Check
  <2> DEFINE r == Scanned(Start(later))
  <2>2. ScanFits(r, excused \cup ShiftMoved(scan.shifts, r.scan.shifts))
    BY <1>1, ScannedFits
  <2> HIDE DEF r
  <2>3. /\ scan' = r.scan /\ UNCHANGED gpio_config
        /\ sink' = r.sink \/ \E port : sink' = [r.sink EXCEPT !.userport = port]
    BY <2>1 DEF r
  <2>4. SinkShape(r.sink) /\ SticksShape(scan') /\ Fits(r.sink, ScanSays(scan'), Says, excused \cup new)
    BY <2>2, <2>3 DEF ScanFits, ScanGood, EmuRight
  <2>5. sink'.menu = r.sink.menu /\ sink'.unpressed = r.sink.unpressed
    BY <2>3, <2>4 DEF SinkShape
  <2>6. Fits(sink', ScanSays(scan'), Says, excused \cup new)
    BY <2>4, <2>5 DEF Fits
  <2> HIDE DEF new
  <2>7. QED
    BY <1>1, <1>2, <2>3, <2>4, <2>6, GpioMenuNext
<1>4. CASE Switch
  <2>1. sink' = Unpressed(sink) /\ UNCHANGED <<gpio_config, scan>>
    BY <1>4 DEF Switch, Unpressed
  <2>2. Says = ScanSays(scan')
    BY <1>1, <2>1 DEF Says
  <2> HIDE DEF new
  <2>3. Fits(sink', ScanSays(scan'), Says, excused \cup new)
    BY <1>2, <2>1, <2>2, UnpressedFits
  <2>4. QED
    BY <1>1, <1>2, <2>1, <2>3, GpioMenuNext
<1>5. QED
  BY <1>3, <1>4 DEF GpioStep

\* The mouse has no keys.
LEMMA MouseMenu ==
  ASSUME MenuInvariant, SeesInvariant, MouseStep
  PROVE  MenuInvariant'
<1>1. plugged = "mouse" /\ Account({}) /\ sink' = Unpressed(sink)
  BY DEF MouseStep, MouseReport
<1>2. plugged' = "mouse" /\ MenuRight /\ SinkShape(sink)
  BY <1>1 DEF Account, MenuInvariant, SeesInvariant, EmuRight
<1>3. Says = {} /\ Says' = {}
  BY <1>1, <1>2 DEF Says
<1>4. Fits(sink', Says', Says, excused)
  BY <1>1, <1>2, <1>3, UnpressedFits
<1>5. Fits(sink', Says', Says, excused \cup {}) /\ Says' \subseteq Held'
  BY <1>3, <1>4 DEF Fits
<1>6. MenuRight'
  BY <1>1, <1>2, <1>5, MenuNext
<1>7. QED
  BY <1>2, <1>6 DEF MenuInvariant

\* The menu opens or closes, or changes what keys mean: what is or was held is excused.
LEMMA MenuChanged ==
  ASSUME MenuInvariant, PadTypes, PadTypes', NEW new, Account(new), Held \cup Held' \subseteq new,
         UNCHANGED <<keyboard, report, padReport, scan>>, sink'.menu = sink.menu, sink'.unpressed = {}
  PROVE  MenuInvariant'
<1>1. plugged' = plugged /\ MenuRight
  BY DEF Account, MenuInvariant
<1>2. SticksShape(scan)' <=> SticksShape(scan)
  BY DEF SticksShape
<1>3. Says \subseteq Held
  BY SaysHeld DEF MenuInvariant
<1>4. Says' \subseteq Held'
  BY <1>1, <1>2, SaysHeldNext DEF MenuInvariant
<1>5. Fits(sink', Says', Says, excused \cup new)
  BY <1>1, <1>3, <1>4 DEF Fits, MenuRight
<1>6. MenuRight'
  BY <1>1, <1>4, <1>5, MenuNext
<1>7. TodoFresh' <=> TodoFresh
  BY DEF TodoFresh, Fresh, Distinct, Elements
<1>8. Held' \subseteq excused'
  BY Accounted
<1>9. QED
  BY <1>1, <1>2, <1>6, <1>7, <1>8 DEF MenuInvariant

\* Opening, closing, assigning, capturing a key, choosing functions or pins.
LEMMA ChangesMenu ==
  ASSUME MenuInvariant, SeesInvariant, PadTypes, PadTypes', Toggle \/ MenuChange
  PROVE  MenuInvariant'
<1>1. SinkShape(sink)
  BY DEF SeesInvariant, EmuRight
<1>2. CASE Toggle
  <2>1. Account(Held) /\ sink' = Unpressed(sink) /\ UNCHANGED <<joydevs, usbVars, gpioVars>>
    BY <1>2 DEF Toggle
  <2>2. Held' = Held
    BY <2>1, HeldSame, Accounted
  <2>3. UNCHANGED <<keyboard, report, padReport, scan>> /\ sink'.menu = sink.menu /\ sink'.unpressed = {}
    BY <1>1, <2>1 DEF usbVars, gpioVars, Unpressed, SinkShape
  <2>4. QED
    BY <2>1, <2>2, <2>3, MenuChanged
<1>3. CASE MenuChange
  <2>1. Account(Held \cup Held')
    BY <1>3 DEF MenuChange
  <2>2. (\E choice : Assign(choice)) \/ Capture \/ PadMenu \/ PinMenu
    BY <1>3, Zenon DEF MenuChange
  <2>3. UNCHANGED <<keyboard, report, padReport, scan>>
        /\ (sink' = Unpressed(sink) \/ sink' = [Unpressed(sink) EXCEPT !.capture = TRUE])
    <3>1. CASE PinMenu
      <4>1. UNCHANGED usbVars /\ \E config : Configure(config)
        BY <3>1 DEF PinMenu, LoadSettings, ChooseConfig
      <4>2. UNCHANGED scan /\ sink' = Unpressed(sink)
        BY <4>1 DEF Configure, Unpressed
      <4>3. QED
        BY <4>1, <4>2 DEF usbVars
    <3>2. CASE (\E choice : Assign(choice)) \/ Capture \/ PadMenu
      BY <3>2 DEF Assign, Capture, PadMenu, usbVars, gpioVars
    <3>3. QED
      BY <2>2, <3>1, <3>2
  <2>4. Unpressed(sink).menu = sink.menu /\ Unpressed(sink).unpressed = {}
    BY <1>1 DEF Unpressed, SinkShape
  <2>5. SinkShape(Unpressed(sink))
    BY <1>1, UnpressedShape
  <2>6. sink'.menu = sink.menu /\ sink'.unpressed = {}
    BY <2>3, <2>4, <2>5 DEF SinkShape
  <2>7. QED
    BY <2>1, <2>3, <2>6, MenuChanged
<1>4. QED
  BY <1>2, <1>3

\* At first nothing was told and nothing is remembered.
LEMMA MenuStart == Init => MenuInvariant
<1> SUFFICES ASSUME Init PROVE MenuInvariant
  OBVIOUS
<1>1. /\ keyboard = [mods |-> {}, keys |-> {}, shifts |-> {}] /\ report = Idle /\ padReport = NoPadReport
      /\ \E pref \in {"hat", "paddles", "analog"} :
           pad = [pref |-> pref, buttons |-> {}, dpad |-> 8, dirs |-> {}, x |-> "mid", y |-> "mid",
                  joyPrev |-> {}, raw |-> FALSE]
  BY Zenon DEF Init, UsbInit
<1>2. scan = [debounce |-> [p \in Pins |-> "up"], matrix |-> {}, restore |-> FALSE,
              joyPrev |-> [d \in {0, 1} |-> {}], pinPrev |-> {}, shifts |-> {}]
  BY DEF Init, GpioInit
<1>3. sink.menu = {} /\ ui = FALSE /\ unexplained = {}
  BY DEF Init
<1>4. SticksShape(scan)
  BY <1>2 DEF SticksShape
<1>5. Says = {}
  <2>1. KeyboardSays(keyboard) = {}
    BY <1>1 DEF KeyboardSays
  <2>2. PadSays(pad) = {}
    BY <1>1, <1>3 DEF PadSays
  <2>3. ScanSays(scan) = {}
    <3>1. StickSays(scan) = {}
      BY <1>3 DEF StickSays
    <3>2. MatrixSays(scan) = {}
      BY <1>2, <1>3 DEF MatrixSays
    <3>3. \A p : PinSays(p) = {}
      BY <1>3 DEF PinSays
    <3>4. QED
      BY <3>1, <3>2, <3>3 DEF ScanSays
  <2>4. QED
    BY <2>1, <2>2, <2>3 DEF Says
<1>6. TodoFresh
  BY <1>1 DEF TodoFresh, Idle
<1>7. padReport.handled
  BY <1>1 DEF NoPadReport
<1>8. QED
  BY <1>3, <1>4, <1>5, <1>6, <1>7 DEF MenuInvariant, MenuRight

\* Every step keeps the invariant.
LEMMA MenuKept ==
  MenuInvariant /\ SeesInvariant /\ PadInvariant /\ PadInvariant' /\ [Next]_vars => MenuInvariant'
<1> SUFFICES ASSUME MenuInvariant, SeesInvariant, PadTypes, PadTypes', [Next]_vars PROVE MenuInvariant'
  BY DEF PadInvariant
<1>1. CASE KeyboardStep
  BY <1>1, KeyboardMenu
<1>2. CASE PadStep
  BY <1>2, GamepadMenu
<1>3. CASE MouseStep
  BY <1>3, MouseMenu
<1>4. CASE GpioStep
  BY <1>4, GpioMenu
<1>5. CASE Toggle \/ MenuChange
  BY <1>5, ChangesMenu
<1>6. CASE UNCHANGED vars
  <2>1. UNCHANGED <<ui, joydevs, sink, keyboard, report, pad, padReport, scan, gpio_config,
                    plugged, excused, doubled, unexplained>>
    BY <1>6 DEF vars, usbVars, gpioVars
  <2>2. Says' = Says
    BY <2>1, QuietSays DEF Says
  <2>3. MenuRight' <=> MenuRight
    BY <2>1, <2>2 DEF MenuRight
  <2>4. TodoFresh' <=> TodoFresh
    BY <2>1 DEF TodoFresh, Fresh, Distinct, Elements
  <2>5. Held' = Held
    BY <1>6, HeldSame DEF vars
  <2>6. SticksShape(scan)' <=> SticksShape(scan)
    BY <2>1 DEF SticksShape
  <2>7. QED
    BY <2>1, <2>3, <2>4, <2>5, <2>6 DEF MenuInvariant
<1>7. QED
  BY <1>1, <1>2, <1>3, <1>4, <1>5, <1>6 DEF Next

\* What the menu has down is held, and it was told no release without a press,
\* whatever is plugged in: the menu acts on releases of Return and Escape.
THEOREM MenuAlwaysSeesKeys == Spec => []MenuSeesKeys
<1>1. MenuInvariant /\ PadInvariant => MenuSeesKeys
  <2> SUFFICES ASSUME MenuInvariant, PadTypes PROVE MenuSeesKeys
    BY DEF PadInvariant
  <2>1. Says \subseteq Held
    BY SaysHeld DEF MenuInvariant
  <2>2. QED
    BY <2>1 DEF MenuInvariant, MenuRight, MenuSeesKeys
<1>2. QED
  BY <1>1, PadStart, PadKept, SeesStart, SeesKept, MenuStart, MenuKept, PTL DEF Spec

(***************************************************************************)
(* The sound device                                                        *)
(***************************************************************************)
\* The invariant is inductive together with the types.
SoundInv == TypeOK /\ SoundInvariant

\* At first nothing was sent and the positions are equal.
LEMMA SoundStart == InitDevice => SoundInv
<1> SUFFICES ASSUME InitDevice
             PROVE  SoundInv
  OBVIOUS
<1> USE DEF InitDevice
<1>1. TypeOK
  BY DEF TypeOK, States
<1>2. PositionsMatch /\ IdleIsQuiet /\ ReportNeverHigh
  BY DEF PositionsMatch, IdleIsQuiet, ReportNeverHigh
<1>3. CancelKnows /\ StartKnows /\ StatesAgree
  BY DEF CancelKnows, StartKnows, Establishing, StatesAgree
<1>4. QED
  BY <1>1, <1>2, <1>3 DEF SoundInv, SoundInvariant

\* Every step of either core preserves the invariant.  Once an assert has
\* failed there are no steps.
LEMMA SoundStep == SoundInv /\ [SoundNext]_soundVars => SoundInv'
<1> SUFFICES ASSUME SoundInv, [SoundNext]_soundVars
             PROVE  SoundInv'
  OBVIOUS
<1> USE BoundsAssumption DEF SoundInv, TypeOK, States, SoundInvariant, PositionsMatch,
        IdleIsQuiet, ReportNeverHigh, CancelKnows, StartKnows, Establishing, StatesAgree
<1> USE DEF device, core1, gpu, counts, At, CallbackAt, Goto, Step, SetState, IsActive, Queued,
        QueueFails, GiveUp
<1>a. CASE UNCHANGED soundVars
  BY <1>a DEF soundVars
<1>b. SUFFICES ASSUME SoundNext
               PROVE  SoundInv'
  BY <1>a
<1>1. CASE Vice
  <2>1. CASE SoundInit
    BY <2>1 DEF SoundInit
  <2>2. CASE SetControl
    BY <2>2 DEF SetControl, Call
  <2>3. ASSUME NEW n \in 1 .. MaxPieces, AddChunk(n)
        PROVE  SoundInv'
    BY <2>3 DEF AddChunk
  <2>4. QED
    BY <1>1, <2>1, <2>2, <2>3 DEF Vice
<1>2. CASE Cancelling
  <2>1. CASE CheckDrained
    BY <2>1 DEF CheckDrained
  <2>2. CASE WaitDrained
    BY <2>2 DEF WaitDrained
  <2>3. CASE SetTerminating
    BY <2>3 DEF SetTerminating
  <2>4. CASE SendStop
    BY <2>4 DEF SendStop
  <2>5. CASE SetIdle
    BY <2>5 DEF SetIdle
  <2>6. QED
    BY <1>2, <2>1, <2>2, <2>3, <2>4, <2>5 DEF Cancelling
<1>3. CASE Starting
  <2>1. CASE Playback
    BY <2>1 DEF Playback
  <2>2. CASE StartCheck
    BY <2>2 DEF StartCheck
  <2>3. CASE Connect
    BY <2>3 DEF Connect
  <2>4. CASE Config
    BY <2>4 DEF Config, CallInStart, Call
  <2>5. CASE ConfigDone
    BY <2>5 DEF ConfigDone, ReturnInStart
  <2>6. CASE Control
    BY <2>6 DEF Control, CallInStart, Call
  <2>7. CASE ControlDone
    BY <2>7 DEF ControlDone, ReturnInStart
  <2>8. CASE OpenAudio
    BY <2>8 DEF OpenAudio
  <2>9. CASE SendStart
    BY <2>9 DEF SendStart
  <2>10. CASE SetRunning
    BY <2>10 DEF SetRunning
  <2>11. CASE ResetPositions
    BY <2>11 DEF ResetPositions
  <2>12. QED
    BY <1>3, <2>1, <2>2, <2>3, <2>4, <2>5, <2>6, <2>7, <2>8, <2>9, <2>10, <2>11 DEF Starting
<1>4. CASE Writing
  <2>1. CASE WriteHeader
    BY <2>1 DEF WriteHeader, NextPiece, WriteFails
  <2>2. CASE CountWritten
    BY <2>2 DEF CountWritten
  <2>3. CASE WriteData
    BY <2>3 DEF WriteData, NextPiece, WriteFails
  <2>4. CASE WriteDone
    BY <2>4 DEF WriteDone
  <2>5. QED
    BY <1>4, <2>1, <2>2, <2>3, <2>4 DEF Writing
<1>5. CASE SetControlDone
  BY <1>5 DEF SetControlDone
<1>6. CASE Callback
  <2>1. CASE Result
    BY <2>1 DEF Result
  <2>2. CASE Complete
    BY <2>2 DEF Complete
  <2>3. CASE ReportBuffered
    BY <2>3 DEF ReportBuffered
  <2>4. CASE TestDrained
    BY <2>4 DEF TestDrained
  <2>5. CASE Terminate
    BY <2>5 DEF Terminate
  <2>6. QED
    BY <1>6, <2>1, <2>2, <2>3, <2>4, <2>5 DEF Callback
<1>7. QED
  BY <1>b, <1>1, <1>2, <1>3, <1>4, <1>5, <1>6 DEF SoundNext

-----------------------------------------------------------------------------

\* So it holds of every reachable state.
LEMMA SoundHolds == SoundSpec => []SoundInv
  BY SoundStart, SoundStep, PTL DEF SoundSpec

\* The types, whatever fails.
THEOREM SoundTypeCorrect == SoundSpec => []TypeOK
  BY SoundHolds, PTL DEF SoundInv

\* What Cancel has established and what Start relies on, at each of their
\* points, with the callback anywhere (ViceSoundBaseDevice).
THEOREM SoundInvariantHolds == SoundSpec => []SoundInvariant
  BY SoundHolds, PTL DEF SoundInv

\* m_nWritePos - m_nCompletePos counts the chunks that are on their way.
THEOREM PositionsAlwaysMatch == SoundSpec => []PositionsMatch
<1>1. SoundInv => PositionsMatch
  BY DEF SoundInv, SoundInvariant
<1>2. QED
  BY <1>1, SoundHolds, PTL

\* No chunk of one playback is counted for the next.
THEOREM IdleAlwaysQuiet == SoundSpec => []IdleIsQuiet
<1>1. SoundInv => IdleIsQuiet
  BY DEF SoundInv, SoundInvariant
<1>2. QED
  BY <1>1, SoundHolds, PTL

\* VICE is never told of less space than there is (BufferSpaceSamples).
THEOREM ReportNeverTooHigh == SoundSpec => []ReportNeverHigh
<1>1. SoundInv => ReportNeverHigh
  BY DEF SoundInv, SoundInvariant
<1>2. QED
  BY <1>1, SoundHolds, PTL
=============================================================================
