---------------------------- MODULE InputPipeline ---------------------------
(***************************************************************************)
(* How a key gets from the USB handler on core 0 to the emulated keyboard  *)
(* or to the menu, and how the menu opens and closes meanwhile.            *)
(*                                                                         *)
(* The handler (kbd.c) reads ui_enabled, queues the event on the ring of   *)
(* the emulator or of the UI, and for F12 then arms a countdown.  The main *)
(* loop on core 1 (vsyncarch_postsync, and emu_pause_trap while a menu     *)
(* pauses the machine) drains the rings, counts down, opens and closes the *)
(* menu and the on-screen dialogs (OSDs) and runs the quick functions.     *)
(* The rings are sequences here; EventRing shows that they behave so.      *)
(***************************************************************************)
EXTENDS Naturals, Sequences

CONSTANTS
  Key,          \* the keys of the keyboard
  MenuKey,      \* KEYCODE_F12
  ReturnKey,    \* KEYCODE_Return: activates the menu item under the cursor
  ModifierKey,  \* commodore_key_sym, first key of a combination
  ComboKey,     \* second_key of the combination
  MaxReports,   \* bound of the model: key changes and buttons in a behaviour
  None          \* an empty quick function slot

\* The quick functions by what they do to the UI: "osd" shows an OSD or
\* dismisses the one shown (BTN_ASSIGN_RESET_MENU, RESET_HARD with confirmation,
\* TAPE_MENU, CART_MENU), "plain" does neither (WARP, SWAP_PORTS, RESET_HARD2).
QuickFunc == {"osd", "plain"}

ASSUME KeyAssumption == MenuKey \in Key
ASSUME NoneAssumption == None \notin QuickFunc
ASSUME ReportsAssumption == MaxReports \in Nat

VARIABLES
  (* written by the handlers *)
  down,           \* keys the user holds
  comboFunc,      \* key_combo_states[].function, as the user configured it
  invoked,        \* key_combo_states[].invoked
  hand,           \* where the handler is: point, event, the ui_enabled it read
  reports,        \* how many reports the handler has had
  emuQ, uiQ,      \* pending_emu_key and pending_ui_key
  (* written by the main loop *)
  pc,             \* where the main loop is
  inTrap,         \* whether it is inside emu_pause_trap
  trapPending,    \* interrupt_maincpu_trigger_trap was called
  batch,          \* ui_check_key's copy of the UI ring
  counted,        \* ui_toggle_pending as loaded for the decrement
  emuDown,        \* keys that are down on the emulated keyboard
  uiEnabled,      \* ui_enabled
  osdActive,      \* osd_active
  (* written by both *)
  togglePending,  \* ui_toggle_pending
  quickFunc,      \* pending_emu_quick_func
  (* history *)
  sent,           \* what the emulator was sent of each key: a press, its
                  \* release, or a press whose release went astray to the menu
  menuUp,         \* how far the F12 release that armed the countdown got
  raced           \* a countdown was armed during a decrement

handlerVars == << down, comboFunc, invoked, hand, reports >>
loopVars == << pc, inTrap, trapPending, batch, counted, emuDown, uiEnabled,
               osdActive >>
historyVars == << sent, menuUp, raced >>
vars == << handlerVars, emuQ, uiQ, loopVars, togglePending, quickFunc,
           historyVars >>

Event == [key : Key, pressed : BOOLEAN]

TypeOK ==
  /\ down \subseteq Key
  /\ comboFunc \in QuickFunc \union {"menu"}
  /\ invoked \in BOOLEAN
  /\ hand \in [point : {"idle", "push", "arm", "combo"},
               event : Event, toUi : BOOLEAN]
  /\ reports \in 0 .. MaxReports
  /\ emuQ \in Seq(Event)
  /\ uiQ \in Seq(Event)
  /\ pc \in {"frame", "sync", "keys", "drain", "toggle", "store", "clear", "loop"}
  /\ inTrap \in BOOLEAN
  /\ trapPending \in BOOLEAN
  /\ batch \in Seq(Event)
  /\ counted \in 0 .. 2
  /\ emuDown \subseteq Key
  /\ uiEnabled \in BOOLEAN
  /\ osdActive \in BOOLEAN
  /\ togglePending \in 0 .. 2
  /\ quickFunc \in QuickFunc \union {None}
  /\ sent \in [Key -> {"release", "press", "astray"}]
  /\ menuUp \in {"none", "queued", "dequeued"}
  /\ raced \in BOOLEAN

\* ui_init_menu has run and the emulator is at the start of a frame.
Init ==
  /\ down = {}
  /\ comboFunc \in QuickFunc \union {"menu"}
  /\ invoked = FALSE
  /\ hand = [point |-> "idle", event |-> [key |-> MenuKey, pressed |-> FALSE],
             toUi |-> FALSE]
  /\ reports = 0
  /\ emuQ = << >>
  /\ uiQ = << >>
  /\ pc = "frame"
  /\ inTrap = FALSE
  /\ trapPending = FALSE
  /\ batch = << >>
  /\ counted = 0
  /\ emuDown = {}
  /\ uiEnabled = FALSE
  /\ osdActive = FALSE
  /\ togglePending = 0
  /\ quickFunc = None
  /\ sent = [k \in Key |-> "release"]
  /\ menuUp = "none"
  /\ raced = FALSE

-----------------------------------------------------------------------------
(* The handler.                                                            *)

\* emu_quick_func_interrupt: the one slot is overwritten.
RequestQuick(f) == quickFunc' = f

NoRequest == UNCHANGED quickFunc

\* The handler has read ui_enabled and is about to queue the event.
Route(k, pressed) ==
  hand' = [point |-> "push", event |-> [key |-> k, pressed |-> pressed],
           toUi |-> uiEnabled]

Report == hand.point = "idle" /\ reports < MaxReports /\ reports' = reports + 1

\* emu_key_pressed.  The second key of a combination is swallowed.
KeyPressed(k) ==
  LET consumed == k = ComboKey /\ ModifierKey \in down
  IN  /\ Report
      /\ k \notin down
      /\ down' = down \union {k}
      /\ invoked' = (invoked \/ consumed)
      /\ IF consumed THEN UNCHANGED hand ELSE Route(k, TRUE)
      /\ UNCHANGED << comboFunc, emuQ, uiQ, loopVars, togglePending, quickFunc, historyVars >>

\* Mutant of KeyReleased: the release of a second key is swallowed whether the
\* combination was invoked or not.
KeyReleasedSwallowed(k) ==
  LET consumed == k = ComboKey /\ k # MenuKey /\ comboFunc = "plain"
  IN  /\ Report
      /\ k \in down
      /\ down' = down \ {k}
      /\ invoked' = (invoked /\ ~consumed)
      /\ IF consumed THEN RequestQuick("plain") /\ UNCHANGED hand
                     ELSE NoRequest /\ Route(k, FALSE)
      /\ UNCHANGED << comboFunc, emuQ, uiQ, loopVars, togglePending, sent,
                      menuUp, raced >>

\* emu_key_released up to the read of ui_enabled, with
\* handle_key_combo_release: a function that needs no menu is requested at
\* once and the release is swallowed.
KeyReleased(k) ==
  LET consumed == k = ComboKey /\ k # MenuKey /\ invoked /\ comboFunc = "plain"
  IN  /\ Report
      /\ k \in down
      /\ down' = down \ {k}
      /\ invoked' = (invoked /\ ~consumed)
      /\ IF consumed THEN RequestQuick("plain") /\ UNCHANGED hand
                     ELSE NoRequest /\ Route(k, FALSE)
      /\ UNCHANGED << comboFunc, emuQ, uiQ, loopVars, togglePending, sent,
                      menuUp, raced >>

\* emux_key_interrupt or emu_ui_key_interrupt, as ui_enabled was when read.
PushEvent ==
  LET e      == hand.event
      arms   == e.key = MenuKey /\ ~e.pressed /\ ~hand.toUi
      combos == e.key = ModifierKey /\ e.key # MenuKey /\ ~e.pressed /\ invoked
  IN  /\ hand.point = "push"
      /\ emuQ' = IF hand.toUi THEN emuQ ELSE Append(emuQ, e)
      /\ uiQ' = IF hand.toUi THEN Append(uiQ, e) ELSE uiQ
      /\ hand' = [hand EXCEPT !.point = CASE arms -> "arm"
                                          [] combos -> "combo"
                                          [] OTHER -> "idle"]
      /\ sent' = [sent EXCEPT ![e.key] =
                    CASE ~hand.toUi -> IF e.pressed THEN "press" ELSE "release"
                      [] hand.toUi /\ ~e.pressed /\ @ = "press" -> "astray"
                      [] OTHER -> @]
      /\ menuUp' = IF arms THEN "queued" ELSE menuUp
      /\ UNCHANGED << down, comboFunc, invoked, reports, loopVars, togglePending, quickFunc,
                      raced >>

\* Mutant of Arm: a countdown of one.
ArmForOne ==
  /\ togglePending' = 1
  /\ raced' = (raced \/ pc = "store")

\* ui_toggle_pending = 2, under the lock.
Arm ==
  /\ togglePending' = 2
  /\ raced' = (raced \/ pc = "store")

\* The end of emu_key_released for F12.
ArmMenu ==
  /\ hand.point = "arm"
  /\ hand' = [hand EXCEPT !.point = "idle"]
  /\ Arm
  /\ UNCHANGED << down, comboFunc, invoked, reports, emuQ, uiQ, loopVars, quickFunc,
                  sent, menuUp >>

\* handle_key_combo_function, after the release of the modifier.
ComboFunction ==
  /\ hand.point = "combo"
  /\ hand' = [hand EXCEPT !.point = "idle"]
  /\ invoked' = FALSE
  /\ \/ comboFunc = "menu" /\ Arm /\ NoRequest
     \/ comboFunc = "osd" /\ RequestQuick("osd") /\ UNCHANGED << togglePending, raced >>
     \/ comboFunc = "plain" /\ NoRequest /\ UNCHANGED << togglePending, raced >>
  /\ UNCHANGED << down, comboFunc, reports, emuQ, uiQ, loopVars, sent, menuUp >>

\* A gamepad or GPIO button that is assigned to a quick function.
ButtonFunction(f) ==
  /\ Report
  /\ RequestQuick(f)
  /\ UNCHANGED << down, comboFunc, invoked, hand, emuQ, uiQ, loopVars, togglePending,
                  sent, menuUp, raced >>

Handler ==
  \/ \E k \in Key : KeyPressed(k) \/ KeyReleased(k)
  \/ PushEvent
  \/ ArmMenu
  \/ ComboFunction
  \/ \E f \in QuickFunc : ButtonFunction(f)

-----------------------------------------------------------------------------
(* The main loop.                                                          *)

Goto(from, to) == pc = from /\ pc' = to

\* Mutant of PopAllAndToggle: emux_trap_main_loop_ui is not called.
ToggleWithoutTrap ==
  /\ uiEnabled' = ~uiEnabled
  /\ osdActive' = FALSE
  /\ UNCHANGED trapPending

\* Mutant of PopAllAndToggle: glob_osd_popped is not registered.
ToggleKeepsOsd ==
  /\ uiEnabled' = ~uiEnabled
  /\ trapPending' = (trapPending \/ ~uiEnabled)
  /\ UNCHANGED osdActive

\* ui_pop_all_and_toggle: the OSD goes with the stack it is on, and turning
\* the UI on triggers the pause trap.
PopAllAndToggle ==
  /\ uiEnabled' = ~uiEnabled
  /\ osdActive' = FALSE
  /\ trapPending' = (trapPending \/ ~uiEnabled)

UiUnchanged == UNCHANGED << uiEnabled, osdActive, trapPending >>

\* A frame of emulation: the CPU takes the pending trap before the next
\* vertical sync, otherwise it sees the keys as they are and comes to
\* vsyncarch_postsync.
EmulateFrame ==
  /\ pc = "frame"
  /\ pc' = IF trapPending THEN "loop" ELSE "sync"
  /\ inTrap' = trapPending
  /\ trapPending' = FALSE
  /\ UNCHANGED << handlerVars, emuQ, uiQ, batch, counted, emuDown, uiEnabled,
                  osdActive, togglePending, quickFunc, historyVars >>

\* ui_check_key takes a copy of the UI ring, under the lock.
CopyUiKeys ==
  /\ batch' = uiQ
  /\ uiQ' = << >>

\* vsyncarch_postsync renders an OSD and lets it have the UI keys.
Sync ==
  /\ pc = "sync"
  /\ \/ uiEnabled /\ pc' = "keys" /\ CopyUiKeys
     \/ ~uiEnabled /\ pc' = "drain" /\ UNCHANGED << batch, uiQ >>
  /\ UNCHANGED << handlerVars, emuQ, inTrap, trapPending, counted, emuDown,
                  uiEnabled, osdActive, togglePending, quickFunc, historyVars >>

\* One pass of the loop of emu_pause_trap.
TrapLoop ==
  /\ pc = "loop"
  /\ \/ uiEnabled /\ pc' = "keys" /\ CopyUiKeys /\ UNCHANGED inTrap
     \/ ~uiEnabled /\ pc' = "frame" /\ inTrap' = FALSE /\ UNCHANGED << batch, uiQ >>
  /\ UNCHANGED << handlerVars, emuQ, trapPending, counted, emuDown,
                  uiEnabled, osdActive, togglePending, quickFunc, historyVars >>

\* ui_key_pressed and ui_key_released on one copied event: F12 leaves the
\* menu; Return activates an item, which does something inside the menu, or
\* leaves it, or, in a confirmation OSD, asks for the reset and leaves it.
UiKey ==
  LET e == Head(batch)
  IN  /\ pc = "keys"
      /\ batch # << >>
      /\ batch' = Tail(batch)
      /\ \/ e.key # MenuKey /\ UiUnchanged /\ NoRequest
         \/ e.pressed /\ UiUnchanged /\ NoRequest
         \/ e.key \in {MenuKey, ReturnKey} /\ ~e.pressed /\ PopAllAndToggle /\ NoRequest
         \/ /\ e.key = ReturnKey /\ ~e.pressed /\ osdActive
            /\ PopAllAndToggle
            /\ RequestQuick("plain")
      /\ UNCHANGED << handlerVars, emuQ, uiQ, pc, inTrap, counted, emuDown,
                      togglePending, sent, menuUp, raced >>

\* Mutant of UiKeysDone: with an OSD shown the emulator's keys are not drained.
UiKeysOnly ==
  /\ batch = << >>
  /\ Goto("keys", "toggle")
  /\ UNCHANGED << handlerVars, emuQ, uiQ, inTrap, trapPending, batch, counted,
                  emuDown, uiEnabled, osdActive, togglePending, quickFunc,
                  historyVars >>

UiKeysDone ==
  /\ batch = << >>
  /\ Goto("keys", IF inTrap THEN "toggle" ELSE "drain")
  /\ UNCHANGED << handlerVars, emuQ, uiQ, inTrap, trapPending, batch, counted,
                  emuDown, uiEnabled, osdActive, togglePending, quickFunc,
                  historyVars >>

\* The latches of the emulated keyboard after the events of q.
Latched(keys, q) ==
  {k \in Key :
     \/ k \in keys /\ \A i \in DOMAIN q : q[i].key # k
     \/ \E i \in DOMAIN q :
          q[i] = [key |-> k, pressed |-> TRUE]
            /\ \A j \in DOMAIN q : j > i => q[j].key # k}

\* The drain of vsyncarch_postsync, under the lock.
DrainEmuKeys ==
  /\ Goto("drain", "toggle")
  /\ emuDown' = Latched(emuDown, emuQ)
  /\ emuQ' = << >>
  /\ menuUp' = IF menuUp = "queued" THEN "dequeued" ELSE menuUp
  /\ UNCHANGED << handlerVars, uiQ, inTrap, trapPending, batch, counted,
                  uiEnabled, osdActive, togglePending, quickFunc, sent, raced >>

AfterToggle == IF inTrap THEN "loop" ELSE "frame"

\* ui_handle_toggle_or_quick_func: ui_toggle_pending is loaded here and
\* stored in the next step, outside the lock.
LoadToggle ==
  /\ togglePending # 0
  /\ Goto("toggle", "store")
  /\ counted' = togglePending
  /\ UNCHANGED << handlerVars, emuQ, uiQ, inTrap, trapPending, batch, emuDown,
                  uiEnabled, osdActive, togglePending, quickFunc, historyVars >>

\* Mutant of StoreToggle: the menu toggles but the countdown is not stored.
ToggleOnly ==
  /\ Goto("store", AfterToggle)
  /\ counted' = 0
  /\ IF counted = 1 THEN PopAllAndToggle ELSE UiUnchanged
  /\ UNCHANGED << handlerVars, emuQ, uiQ, inTrap, batch, emuDown, togglePending,
                  quickFunc, historyVars >>

StoreToggle ==
  /\ Goto("store", AfterToggle)
  /\ togglePending' = counted - 1
  /\ counted' = 0
  /\ IF counted = 1 THEN PopAllAndToggle ELSE UiUnchanged
  /\ UNCHANGED << handlerVars, emuQ, uiQ, inTrap, batch, emuDown, quickFunc,
                  historyVars >>

\* menu_quick_func.  An OSD is shown only with the UI off, and one that is
\* shown is dismissed.
RunQuick ==
  /\ togglePending = 0
  /\ quickFunc # None
  /\ Goto("toggle", "clear")
  /\ \/ quickFunc = "plain" /\ UiUnchanged
     \/ quickFunc = "osd" /\ uiEnabled /\ osdActive /\ PopAllAndToggle
     \/ quickFunc = "osd" /\ uiEnabled /\ ~osdActive /\ UiUnchanged
     \/ /\ quickFunc = "osd" /\ ~uiEnabled
        /\ uiEnabled' = TRUE
        /\ osdActive' = TRUE
        /\ UNCHANGED trapPending
  /\ UNCHANGED << handlerVars, emuQ, uiQ, inTrap, batch, counted, emuDown,
                  togglePending, quickFunc, sent, menuUp, raced >>

\* Mutant of ClearQuick: pending_emu_quick_func is not cleared.
KeepQuick ==
  /\ Goto("clear", AfterToggle)
  /\ UNCHANGED << handlerVars, emuQ, uiQ, inTrap, trapPending, batch, counted,
                  emuDown, uiEnabled, osdActive, togglePending, quickFunc,
                  historyVars >>

\* pending_emu_quick_func = 0, after the function has run.
ClearQuick ==
  /\ Goto("clear", AfterToggle)
  /\ quickFunc' = None
  /\ UNCHANGED << handlerVars, emuQ, uiQ, inTrap, trapPending, batch, counted,
                  emuDown, uiEnabled, osdActive, togglePending, historyVars >>

NothingPending ==
  /\ togglePending = 0
  /\ quickFunc = None
  /\ Goto("toggle", AfterToggle)
  /\ UNCHANGED << handlerVars, emuQ, uiQ, inTrap, trapPending, batch, counted,
                  emuDown, uiEnabled, osdActive, togglePending, quickFunc,
                  historyVars >>

MainLoop ==
  \/ EmulateFrame \/ Sync \/ TrapLoop \/ UiKey \/ UiKeysDone \/ DrainEmuKeys
  \/ LoadToggle \/ StoreToggle \/ RunQuick \/ ClearQuick \/ NothingPending

-----------------------------------------------------------------------------

Next == Handler \/ MainLoop

Spec == Init /\ [][Next]_vars

\* Core 1 does nothing but run the main loop.  Nothing obliges a user.
FairSpec == Spec /\ WF_vars(MainLoop)

-----------------------------------------------------------------------------
(* Properties.                                                             *)

\* videoarch.c:414: the machine runs with the UI on only for an OSD; a menu
\* always has the pause trap.
OnlyOsdWhileRunning == pc = "sync" /\ uiEnabled => osdActive

\* The inductive strengthening of OnlyOsdWhileRunning.
MenuHasTrap ==
  /\ osdActive => uiEnabled
  /\ uiEnabled /\ ~osdActive /\ ~inTrap => trapPending
  /\ pc = "sync" => ~trapPending /\ ~inTrap
  /\ pc = "frame" => ~inTrap
  /\ pc = "loop" => inTrap
  /\ pc = "drain" => ~inTrap

\* A key the user has let go stays down in the emulator only if its press went
\* to the emulator and its release to the menu: everything else that was
\* queued for the emulator is paired (emu_key_pressed, emu_key_released).
StuckOnlyAcrossMenu ==
  \A k \in emuDown \ down :
    \/ hand.point # "idle" /\ hand.event.key = k
    \/ \E i \in DOMAIN emuQ : emuQ[i].key = k
    \/ sent[k] = "astray"

CountdownOpensMenu == StoreToggle /\ uiEnabled' /\ ~uiEnabled

\* ui.c:702: when the countdown opens the menu from the running machine, the
\* F12 release that armed it has been submitted to the emulator, unless the
\* countdown was armed between the load and the store of a decrement.  (Inside
\* the trap the countdown also runs, and nothing is submitted there.)
MenuAfterSubmit ==
  [][CountdownOpensMenu /\ ~inTrap /\ ~raced /\ hand.point # "arm"
       => menuUp # "queued"]_vars

\* An armed countdown ends, so F12 always has its effect.
CountdownEnds == (togglePending # 0) ~> (togglePending = 0)

\* What was queued for the emulator reaches it, unless the user stays in the
\* menu.
EventsReachEmulator == (emuQ # << >>) ~> (emuQ = << >> \/ inTrap)

\* A requested quick function leaves the slot, however often it is overwritten.
SlotIsServed == (quickFunc # None) ~> (quickFunc = None)
=============================================================================
