------------------------ MODULE InputPipelineProofs -------------------------
(* Theorems about InputPipeline: a menu always has its pause trap, the     *)
(* types, the countdown and the pairing of presses with releases.          *)
EXTENDS InputPipeline, TLAPS

\* The part of TypeOK the proof needs.
UiTypes ==
  /\ inTrap \in BOOLEAN
  /\ trapPending \in BOOLEAN
  /\ uiEnabled \in BOOLEAN
  /\ osdActive \in BOOLEAN

Inv == UiTypes /\ MenuHasTrap

\* With the UI off there is nothing to show.
LEMMA PipelineInit == Init => Inv
  BY DEF Init, Inv, UiTypes, MenuHasTrap

\* ui_pop_all_and_toggle keeps the invariant at every point from which the main
\* loop calls it.
LEMMA ToggleKeepsInv ==
  ASSUME Inv, PopAllAndToggle, UNCHANGED inTrap,
         pc' \notin {"sync", "drain"},
         pc' = "frame" => ~inTrap,
         pc' = "loop" => inTrap
  PROVE  Inv'
  BY DEF Inv, UiTypes, MenuHasTrap, PopAllAndToggle

\* The handler on core 0 writes nothing the invariant speaks of.
LEMMA HandlerKeepsInv ==
  ASSUME Inv, Handler
  PROVE  Inv'
  <1>1. UNCHANGED loopVars
    BY DEF Handler, KeyPressed, KeyReleased, PushEvent, ArmMenu, ComboFunction,
           ButtonFunction
  <1>. QED BY <1>1 DEF loopVars, Inv, UiTypes, MenuHasTrap

\* Every step of the main loop preserves the invariant.
LEMMA MainLoopKeepsInv ==
  ASSUME Inv, MainLoop
  PROVE  Inv'
  <1> USE DEF Inv, UiTypes, MenuHasTrap
  <1>1. CASE EmulateFrame
    BY <1>1 DEF EmulateFrame
  <1>2. CASE Sync
    BY <1>2 DEF Sync
  <1>3. CASE TrapLoop
    BY <1>3 DEF TrapLoop
  <1>4. CASE UiKey
    <2>1. pc' = "keys" /\ UNCHANGED inTrap /\ (PopAllAndToggle \/ UiUnchanged)
      BY <1>4 DEF UiKey
    <2>2. CASE PopAllAndToggle
      BY <2>1, <2>2, ToggleKeepsInv
    <2>3. CASE UiUnchanged
      BY <1>4, <2>1, <2>3 DEF UiUnchanged, UiKey
    <2>. QED BY <2>1, <2>2, <2>3
  <1>5. CASE UiKeysDone
    BY <1>5 DEF UiKeysDone, Goto
  <1>6. CASE DrainEmuKeys
    BY <1>6 DEF DrainEmuKeys, Goto
  <1>7. CASE LoadToggle
    BY <1>7 DEF LoadToggle, Goto
  <1>8. CASE StoreToggle
    <2>1. /\ UNCHANGED inTrap
          /\ pc' = IF inTrap THEN "loop" ELSE "frame"
          /\ PopAllAndToggle \/ UiUnchanged
      BY <1>8 DEF StoreToggle, Goto, AfterToggle
    <2>2. CASE PopAllAndToggle
      BY <2>1, <2>2, ToggleKeepsInv
    <2>3. CASE UiUnchanged
      BY <2>1, <2>3 DEF UiUnchanged
    <2>. QED BY <2>1, <2>2, <2>3
  <1>9. CASE RunQuick
    <2>1. pc' = "clear" /\ UNCHANGED inTrap
      BY <1>9 DEF RunQuick, Goto
    <2>2. \/ PopAllAndToggle
          \/ UiUnchanged
          \/ uiEnabled' = TRUE /\ osdActive' = TRUE /\ UNCHANGED trapPending
      BY <1>9 DEF RunQuick
    <2>3. CASE PopAllAndToggle
      BY <2>1, <2>3, ToggleKeepsInv
    <2>4. CASE UiUnchanged
      BY <2>1, <2>4 DEF UiUnchanged
    <2>5. CASE uiEnabled' = TRUE /\ osdActive' = TRUE /\ UNCHANGED trapPending
      BY <2>1, <2>5
    <2>. QED BY <2>2, <2>3, <2>4, <2>5
  <1>10. CASE ClearQuick
    BY <1>10 DEF ClearQuick, Goto, AfterToggle
  <1>11. CASE NothingPending
    BY <1>11 DEF NothingPending, Goto, AfterToggle
  <1>. QED
    BY <1>1, <1>2, <1>3, <1>4, <1>5, <1>6, <1>7, <1>8, <1>9, <1>10, <1>11
    DEF MainLoop

\* And so every step.
LEMMA PipelineStep == Inv /\ [Next]_vars => Inv'
  <1>1. ASSUME Inv, UNCHANGED vars
        PROVE  Inv'
    BY <1>1 DEF vars, loopVars, Inv, UiTypes, MenuHasTrap
  <1>. QED BY <1>1, HandlerKeepsInv, MainLoopKeepsInv DEF Next

\* While the machine runs with the UI on there is an OSD, and a menu has its
\* pause trap, pending or entered, for every keyboard and every sequence of
\* keys and buttons (ui_toggle, emu_pause_trap, vsyncarch_postsync).
THEOREM MenuAlwaysHasTrap == Spec => []MenuHasTrap
  <1>1. Inv => MenuHasTrap
    BY DEF Inv
  <1>. QED BY <1>1, PipelineInit, PipelineStep, PTL DEF Spec

\* The claim of videoarch.c:414.
THEOREM OnlyOsdAtSync == Spec => []OnlyOsdWhileRunning
  <1>1. Inv => OnlyOsdWhileRunning
    BY DEF Inv, UiTypes, MenuHasTrap, OnlyOsdWhileRunning
  <1>. QED BY <1>1, PipelineInit, PipelineStep, PTL DEF Spec

-----------------------------------------------------------------------------
(* The types, and what the countdown holds while it is being decremented.  *)

CountedWhenStoring == pc = "store" => counted # 0

Flags ==
  /\ invoked \in BOOLEAN /\ raced \in BOOLEAN
  /\ inTrap \in BOOLEAN /\ trapPending \in BOOLEAN
  /\ uiEnabled \in BOOLEAN /\ osdActive \in BOOLEAN

Hands == [point : {"idle", "push", "arm", "combo"}, event : Event, toUi : BOOLEAN]

HandlerData ==
  /\ down \subseteq Key
  /\ comboFunc \in QuickFunc \union {"menu"}
  /\ hand \in Hands
  /\ reports \in 0 .. MaxReports
  /\ emuQ \in Seq(Event) /\ uiQ \in Seq(Event)
  /\ togglePending \in 0 .. 2
  /\ quickFunc \in QuickFunc \union {None}
  /\ sent \in [Key -> {"release", "press", "astray"}]
  /\ menuUp \in {"none", "queued", "dequeued"}

LoopData ==
  /\ pc \in {"frame", "sync", "keys", "drain", "toggle", "store", "clear", "loop"}
  /\ batch \in Seq(Event)
  /\ counted \in 0 .. 2
  /\ emuDown \subseteq Key
  /\ CountedWhenStoring

Typed == Flags /\ HandlerData /\ LoopData

LEMMA TypeParts == Typed => TypeOK
  BY DEF Typed, Flags, HandlerData, LoopData, Hands, TypeOK

LEMMA TypeInit == Init => Typed
  <1> SUFFICES ASSUME Init PROVE Typed
    OBVIOUS
  <1>1. << >> \in Seq(Event)
    OBVIOUS
  <1>2. Flags
    BY Zenon DEF Init, Flags
  <1>3. HandlerData
    BY <1>1, KeyAssumption, ReportsAssumption DEF Init, HandlerData, Hands, Event
  <1>4. LoopData
    BY <1>1 DEF Init, LoopData, CountedWhenStoring
  <1>. QED BY <1>2, <1>3, <1>4 DEF Typed

LEMMA RoutedType ==
  ASSUME NEW k \in Key, NEW pressed \in BOOLEAN, NEW toUi \in BOOLEAN
  PROVE  [point |-> "push", event |-> [key |-> k, pressed |-> pressed], toUi |-> toUi] \in Hands
  BY DEF Hands, Event

LEMMA HandlerFlags ==
  ASSUME Typed, Handler
  PROVE  Flags'
  <1>1. UNCHANGED loopVars
    BY DEF Handler, KeyPressed, KeyReleased, PushEvent, ArmMenu, ComboFunction,
           ButtonFunction
  <1>2. invoked' \in BOOLEAN /\ raced' \in BOOLEAN
    BY Zenon DEF Typed, Flags, Handler, KeyPressed, KeyReleased, PushEvent, ArmMenu,
                 ComboFunction, ButtonFunction, Arm, historyVars
  <1>. QED BY <1>1, <1>2, Zenon DEF loopVars, Flags, Typed

LEMMA HandlerType ==
  ASSUME Typed, Handler
  PROVE  Typed'
  <1> USE ReportsAssumption, KeyAssumption
  <1>1. LoopData'
    <2>1. UNCHANGED loopVars
      BY DEF Handler, KeyPressed, KeyReleased, PushEvent, ArmMenu, ComboFunction,
             ButtonFunction
    <2>. QED BY <2>1, Zenon DEF loopVars, Typed, LoopData, CountedWhenStoring
  <1> SUFFICES HandlerData'
    BY <1>1, HandlerFlags DEF Typed
  <1>2. HandlerData /\ uiEnabled \in BOOLEAN
    BY DEF Typed, Flags
  <1>3. ASSUME NEW k \in Key, KeyPressed(k) PROVE HandlerData'
    <2>1. hand' \in Hands
      <3>1. \/ hand' = hand
            \/ hand' = [point |-> "push", event |-> [key |-> k, pressed |-> TRUE], toUi |-> uiEnabled]
        BY <1>3, Zenon DEF KeyPressed, Route
      <3>2. hand \in Hands
        BY <1>2 DEF HandlerData
      <3>. QED BY <1>2, <3>1, <3>2, RoutedType, Zenon
    <2>2. /\ Report /\ down' = down \union {k}
          /\ UNCHANGED << comboFunc, emuQ, uiQ, togglePending, quickFunc, sent, menuUp >>
      BY <1>3, Zenon DEF KeyPressed, historyVars
    <2>. QED BY <1>2, <2>1, <2>2 DEF Report, HandlerData
  <1>4. ASSUME NEW k \in Key, KeyReleased(k) PROVE HandlerData'
    <2>1. hand' \in Hands
      <3>1. \/ hand' = hand
            \/ hand' = [point |-> "push", event |-> [key |-> k, pressed |-> FALSE], toUi |-> uiEnabled]
        BY <1>4, Zenon DEF KeyReleased, Route
      <3>2. hand \in Hands
        BY <1>2 DEF HandlerData
      <3>. QED BY <1>2, <3>1, <3>2, RoutedType, Zenon
    <2>2. quickFunc' \in QuickFunc \union {None}
      BY <1>2, <1>4 DEF KeyReleased, RequestQuick, NoRequest, QuickFunc, HandlerData
    <2>3. /\ Report /\ down' = down \ {k}
          /\ UNCHANGED << comboFunc, emuQ, uiQ, togglePending, sent, menuUp >>
      BY <1>4, Zenon DEF KeyReleased
    <2>. QED BY <1>2, <2>1, <2>2, <2>3 DEF Report, HandlerData
  <1>5. CASE PushEvent
    <2>1. emuQ' \in Seq(Event) /\ uiQ' \in Seq(Event)
      BY <1>2, <1>5 DEF PushEvent, HandlerData, Hands
    <2>2. hand' \in Hands
      BY <1>2, <1>5 DEF PushEvent, HandlerData, Hands
    <2>3. sent' \in [Key -> {"release", "press", "astray"}]
      BY <1>2, <1>5 DEF PushEvent, HandlerData, Hands, Event
    <2>. QED BY <1>2, <1>5, <2>1, <2>2, <2>3 DEF PushEvent, HandlerData
  <1>6. CASE ArmMenu
    BY <1>2, <1>6 DEF ArmMenu, Arm, HandlerData, Hands
  <1>7. CASE ComboFunction
    <2>1. hand' \in Hands
      BY <1>2, <1>7 DEF ComboFunction, HandlerData, Hands
    <2>2. togglePending' \in 0 .. 2 /\ quickFunc' \in QuickFunc \union {None}
      BY <1>2, <1>7 DEF ComboFunction, Arm, RequestQuick, NoRequest, QuickFunc, HandlerData
    <2>. QED BY <1>2, <1>7, <2>1, <2>2 DEF ComboFunction, HandlerData
  <1>8. ASSUME NEW f \in QuickFunc, ButtonFunction(f) PROVE HandlerData'
    BY <1>2, <1>8 DEF ButtonFunction, Report, RequestQuick, HandlerData
  <1>. QED
    BY <1>3, <1>4, <1>5, <1>6, <1>7, <1>8 DEF Handler

LEMMA MainLoopFlags ==
  ASSUME Typed, MainLoop
  PROVE  Flags'
  BY Zenon DEF MainLoop, Typed, Flags, EmulateFrame, Sync, TrapLoop, UiKey, UiKeysDone,
     DrainEmuKeys, LoadToggle, StoreToggle, RunQuick, ClearQuick, NothingPending,
     PopAllAndToggle, UiUnchanged, handlerVars, historyVars

LEMMA MainLoopType ==
  ASSUME Typed, MainLoop
  PROVE  Typed'
  <1> USE DEF handlerVars, historyVars, Goto, AfterToggle
  <1>0. << >> \in Seq(Event)
    OBVIOUS
  <1>. HandlerData /\ LoopData
    BY DEF Typed
  <1> SUFFICES HandlerData' /\ LoopData'
    BY MainLoopFlags DEF Typed
  <1> USE DEF LoopData, CountedWhenStoring, HandlerData
  <1>1. CASE EmulateFrame
    BY <1>1 DEF EmulateFrame
  <1>2. CASE Sync
    BY <1>0, <1>2 DEF Sync, CopyUiKeys
  <1>3. CASE TrapLoop
    BY <1>0, <1>3 DEF TrapLoop, CopyUiKeys
  <1>4. CASE UiKey
    <2>1. batch' \in Seq(Event)
      BY <1>4 DEF UiKey
    <2>2. quickFunc' \in QuickFunc \union {None}
      BY <1>4 DEF UiKey, NoRequest, RequestQuick, QuickFunc
    <2>. QED BY <1>4, <2>1, <2>2 DEF UiKey
  <1>5. CASE UiKeysDone
    BY <1>5 DEF UiKeysDone
  <1>6. CASE DrainEmuKeys
    <2>1. emuDown' \subseteq Key
      BY <1>6 DEF DrainEmuKeys, Latched
    <2>. QED BY <1>0, <1>6, <2>1 DEF DrainEmuKeys
  <1>7. CASE LoadToggle
    BY <1>7 DEF LoadToggle
  <1>8. CASE StoreToggle
    BY <1>8 DEF StoreToggle
  <1>9. CASE RunQuick
    BY <1>9 DEF RunQuick
  <1>10. CASE ClearQuick
    BY <1>10 DEF ClearQuick
  <1>11. CASE NothingPending
    BY <1>11 DEF NothingPending
  <1>. QED
    BY <1>1, <1>2, <1>3, <1>4, <1>5, <1>6, <1>7, <1>8, <1>9, <1>10, <1>11
    DEF MainLoop

LEMMA TypeStep == Typed /\ [Next]_vars => Typed'
  <1>1. ASSUME Typed, UNCHANGED vars
        PROVE  Typed'
    <2>1. Flags'
      BY <1>1, Zenon DEF vars, handlerVars, loopVars, historyVars, Typed, Flags
    <2>2. HandlerData' /\ LoopData'
      BY <1>1 DEF vars, handlerVars, loopVars, historyVars, Typed, HandlerData, LoopData,
                  CountedWhenStoring
    <2>. QED BY <2>1, <2>2 DEF Typed
  <1>. QED BY <1>1, HandlerType, MainLoopType DEF Next

\* The pipeline keeps its types, for any keys and any number of reports.
THEOREM PipelineTypeCorrect == Spec => []TypeOK
  BY TypeInit, TypeStep, TypeParts, PTL DEF Spec

-----------------------------------------------------------------------------
(* The countdown opens the menu after the F12 release was submitted.       *)

\* What a countdown that nothing raced with holds while the release that armed
\* it is still on the ring of the emulator.
Submitted ==
  ~raced /\ menuUp = "queued" /\ hand.point # "arm" /\ ~inTrap =>
    /\ pc = "toggle" => togglePending # 1
    /\ pc = "store" => counted # 1

LEMMA SubmittedInit == Init => Submitted
  BY DEF Init, Submitted

LEMMA HandlerKeepsSubmitted ==
  ASSUME Typed, Submitted, Handler
  PROVE  Submitted'
  <1>1. UNCHANGED << pc, counted, inTrap >>
    BY DEF Handler, KeyPressed, KeyReleased, PushEvent, ArmMenu, ComboFunction, ButtonFunction,
           loopVars
  <1>2. CASE UNCHANGED << togglePending, menuUp, raced >> /\ hand.point # "arm"
    BY <1>1, <1>2, Zenon DEF Submitted
  <1>3. CASE PushEvent
    <2>1. UNCHANGED << togglePending, raced >> /\ hand.point = "push"
      BY <1>3, Zenon DEF PushEvent
    <2>2. hand'.point # "arm" => menuUp' = menuUp
      BY <1>3 DEF PushEvent, Typed, HandlerData, Hands
    <2>. QED BY <1>1, <2>1, <2>2 DEF Submitted
  <1>4. CASE Arm
    <2>1. togglePending' = 2
      BY <1>4, Zenon DEF Arm
    <2>2. pc = "store" => raced'
      BY <1>4, Zenon DEF Arm
    <2>. QED BY <1>1, <2>1, <2>2 DEF Submitted
  <1>5. ASSUME NEW k \in Key, KeyPressed(k)
        PROVE  UNCHANGED << togglePending, menuUp, raced >> /\ hand.point = "idle"
    BY <1>5, Zenon DEF KeyPressed, Report, historyVars
  <1>6. ASSUME NEW k \in Key, KeyReleased(k)
        PROVE  UNCHANGED << togglePending, menuUp, raced >> /\ hand.point = "idle"
    BY <1>6, Zenon DEF KeyReleased, Report
  <1>7. ASSUME NEW f \in QuickFunc, ButtonFunction(f)
        PROVE  UNCHANGED << togglePending, menuUp, raced >> /\ hand.point = "idle"
    BY <1>7, Zenon DEF ButtonFunction, Report
  <1>8. ComboFunction => \/ Arm
                         \/ UNCHANGED << togglePending, menuUp, raced >> /\ hand.point = "combo"
    BY Zenon DEF ComboFunction
  <1>9. ArmMenu => Arm
    BY DEF ArmMenu
  <1>. QED BY <1>2, <1>3, <1>4, <1>5, <1>6, <1>7, <1>8, <1>9 DEF Handler

LEMMA MainLoopKeepsSubmitted ==
  ASSUME Typed, Submitted, MainLoop
  PROVE  Submitted'
  <1> USE DEF Goto
  <1>1. UNCHANGED << raced, hand >>
    BY Zenon DEF MainLoop, EmulateFrame, Sync, TrapLoop, UiKey, UiKeysDone, DrainEmuKeys, LoadToggle,
           StoreToggle, RunQuick, ClearQuick, NothingPending, handlerVars, historyVars
  <1>2. CASE pc' \notin {"toggle", "store"}
    BY <1>2 DEF Submitted
  <1>3. CASE UiKeysDone
    <2>1. pc' = "toggle" => inTrap'
      BY <1>3, Zenon DEF UiKeysDone
    <2>2. pc' # "store"
      BY <1>3 DEF UiKeysDone
    <2>. QED BY <2>1, <2>2 DEF Submitted
  <1>4. CASE DrainEmuKeys
    <2>1. menuUp' # "queued"
      BY <1>4 DEF DrainEmuKeys
    <2>. QED BY <2>1 DEF Submitted
  <1>5. CASE LoadToggle
    <2>1. pc = "toggle" /\ pc' = "store" /\ counted' = togglePending
          /\ UNCHANGED << inTrap, togglePending, menuUp >>
      BY <1>5, Zenon DEF LoadToggle, historyVars
    <2>. QED BY <1>1, <2>1 DEF Submitted
  <1>6. MainLoop => pc' \notin {"toggle", "store"} \/ UiKeysDone \/ DrainEmuKeys \/ LoadToggle
    BY DEF MainLoop, EmulateFrame, Sync, TrapLoop, UiKey, StoreToggle, RunQuick, ClearQuick,
           NothingPending, AfterToggle
  <1>. QED BY <1>2, <1>3, <1>4, <1>5, <1>6

LEMMA SubmittedStep == Typed /\ Submitted /\ [Next]_vars => Submitted'
  <1>1. ASSUME Submitted, UNCHANGED vars
        PROVE  Submitted'
    BY <1>1, Zenon DEF vars, handlerVars, loopVars, historyVars, Submitted
  <1>. QED BY <1>1, HandlerKeepsSubmitted, MainLoopKeepsSubmitted DEF Next

\* When the countdown opens the menu from the running machine, the F12 release
\* that armed it has left the ring, unless it was armed during a decrement
\* (ui_handle_toggle_or_quick_func).
THEOREM MenuAlwaysAfterSubmit == Spec => MenuAfterSubmit
  <1>1. Typed /\ Submitted /\ [Next]_vars
          => [CountdownOpensMenu /\ ~inTrap /\ ~raced /\ hand.point # "arm"
                => menuUp # "queued"]_vars
    <2> SUFFICES ASSUME Typed, Submitted, CountdownOpensMenu, ~inTrap, ~raced, hand.point # "arm"
                 PROVE  menuUp # "queued"
      OBVIOUS
    <2>1. pc = "store" /\ counted = 1
      BY Zenon DEF CountdownOpensMenu, StoreToggle, Goto, UiUnchanged
    <2>. QED BY <2>1 DEF Submitted
  <1>. QED BY <1>1, TypeInit, TypeStep, SubmittedInit, SubmittedStep, PTL
       DEF Spec, MenuAfterSubmit

-----------------------------------------------------------------------------
(* Every press that reaches the emulator is followed by its release.       *)

\* The keys that are down once the ring has been drained.
LEMMA LatchedEmpty ==
  ASSUME NEW keys \in SUBSET Key
  PROVE  Latched(keys, << >>) = keys
  BY DEF Latched

LEMMA LatchedAppend ==
  ASSUME NEW keys, NEW q \in Seq(Event), NEW e \in Event
  PROVE  Latched(keys, Append(q, e)) \subseteq
           IF e.pressed THEN Latched(keys, q) \union {e.key} ELSE Latched(keys, q) \ {e.key}
  <1>. DEFINE r == Append(q, e)
  <1>1. /\ DOMAIN r = 1 .. Len(q) + 1 /\ DOMAIN q = 1 .. Len(q) /\ Len(q) \in Nat
        /\ \A i \in DOMAIN q : r[i] = q[i]
        /\ r[Len(q) + 1] = e
    OBVIOUS
  <1>2. \A i \in DOMAIN q : i \in DOMAIN r /\ Len(q) + 1 > i
    BY <1>1
  <1>3. Len(q) + 1 \in DOMAIN r
    BY <1>1
  <1>. HIDE DEF r
  <1> SUFFICES ASSUME NEW k \in Latched(keys, r)
               PROVE  IF e.pressed THEN k \in Latched(keys, q) \/ k = e.key
                                   ELSE k \in Latched(keys, q) /\ k # e.key
    BY DEF r
  <1>4. CASE k = e.key
    <2>1. e.pressed
      <3>1. PICK i \in DOMAIN r : /\ r[i] = [key |-> k, pressed |-> TRUE]
                                  /\ \A j \in DOMAIN r : j > i => r[j].key # k
        BY <1>1, <1>3, <1>4 DEF Latched
      <3>2. i = Len(q) + 1
        BY <1>1, <1>2, <1>3, <1>4, <3>1
      <3>. QED BY <1>1, <3>1, <3>2 DEF Event
    <2>. QED BY <1>4, <2>1
  <1>5. CASE k # e.key
    <2>1. k \in Key /\ k \in Latched(keys, q)
      <3>1. k \in Key
        BY DEF Latched
      <3>2. CASE k \in keys /\ \A i \in DOMAIN r : r[i].key # k
        BY <1>1, <1>2, <3>1, <3>2 DEF Latched
      <3>3. CASE \E i \in DOMAIN r : /\ r[i] = [key |-> k, pressed |-> TRUE]
                                     /\ \A j \in DOMAIN r : j > i => r[j].key # k
        <4>1. PICK i \in DOMAIN r : /\ r[i] = [key |-> k, pressed |-> TRUE]
                                    /\ \A j \in DOMAIN r : j > i => r[j].key # k
          BY <3>3
        <4>2. i # Len(q) + 1
          BY <1>1, <1>5, <4>1
        <4>3. i \in DOMAIN q
          BY <1>1, <4>2
        <4>4. q[i] = [key |-> k, pressed |-> TRUE] /\ \A j \in DOMAIN q : j > i => q[j].key # k
          BY <1>1, <1>2, <4>1, <4>3
        <4>. QED BY <3>1, <4>3, <4>4 DEF Latched
      <3>. QED BY <3>2, <3>3 DEF Latched
    <2>. QED BY <1>5, <2>1
  <1>. QED BY <1>4, <1>5

PressPending(k) == hand.point = "push" /\ hand.event = [key |-> k, pressed |-> TRUE]
ReleasePending(k) == hand.point = "push" /\ hand.event = [key |-> k, pressed |-> FALSE]

\* What the emulator will hold down was sent a press; a press that was sent
\* belongs to a key that is down, or whose release is about to be queued; and a
\* combination that was invoked had its second key swallowed.
PressesPaired ==
  /\ \A k \in Latched(emuDown, emuQ) : sent[k] # "release"
  /\ \A k \in Key : sent[k] = "press" => k \in down \/ ReleasePending(k)
  /\ \A k \in Key : PressPending(k) => k \in down

ComboSwallowed ==
  /\ invoked => ModifierKey \in down \/ ReleasePending(ModifierKey) \/ hand.point = "combo"
  /\ invoked /\ ComboKey \in down => sent[ComboKey] # "press" /\ ~PressPending(ComboKey)

Paired == PressesPaired /\ ComboSwallowed

LEMMA PairedInit == Init => Paired
  <1> SUFFICES ASSUME Init PROVE Paired
    OBVIOUS
  <1>1. ~invoked /\ hand.point = "idle" /\ emuQ = << >> /\ emuDown = {}
    BY DEF Init
  <1>2. Latched(emuDown, emuQ) = {}
    BY <1>1, LatchedEmpty
  <1>3. \A k \in Key : sent[k] = "release"
    BY DEF Init
  <1>4. PressesPaired
    BY <1>1, <1>2, <1>3 DEF PressesPaired, PressPending
  <1>5. ComboSwallowed
    BY <1>1, Zenon DEF ComboSwallowed
  <1>. QED BY <1>4, <1>5 DEF Paired

\* The press of a key that the handler reports.
LEMMA PressKeepsPaired ==
  ASSUME Typed, Paired, NEW k \in Key, KeyPressed(k)
  PROVE  Paired'
  <1>1. /\ hand.point = "idle" /\ k \notin down /\ down' = down \union {k}
        /\ UNCHANGED << emuQ, emuDown, sent >>
    BY Zenon DEF KeyPressed, Report, loopVars, historyVars
  <1>2. \/ /\ k = ComboKey /\ ModifierKey \in down /\ UNCHANGED hand
        \/ /\ ~(k = ComboKey /\ ModifierKey \in down) /\ invoked' = invoked
           /\ hand'.point = "push" /\ hand'.event = [key |-> k, pressed |-> TRUE]
    <2>. DEFINE h == [point |-> "push", event |-> [key |-> k, pressed |-> TRUE], toUi |-> uiEnabled]
    <2>1. h.point = "push" /\ h.event = [key |-> k, pressed |-> TRUE]
      OBVIOUS
    <2>. HIDE DEF h
    <2>2. (hand' = h) => hand'.point = "push" /\ hand'.event = [key |-> k, pressed |-> TRUE]
      BY <2>1
    <2>. QED BY <2>2, Zenon DEF KeyPressed, Route, Typed, Flags, h
  <1>3. \A x : ~PressPending(x) /\ ~ReleasePending(x)
    BY <1>1 DEF PressPending, ReleasePending
  <1>4. \A x \in Key : sent[x] = "press" => x \in down
    BY <1>3 DEF Paired, PressesPaired
  <1>5. PressesPaired'
    <2>1. \A x \in Key : PressPending(x)' => x \in down'
      BY <1>1, <1>2 DEF PressPending
    <2>. QED BY <1>1, <1>4, <2>1 DEF Paired, PressesPaired
  <1>6. ComboSwallowed'
    <2>1. CASE k = ComboKey /\ ModifierKey \in down /\ UNCHANGED hand
      BY <1>1, <1>3, <1>4, <2>1, Zenon DEF Paired, ComboSwallowed, PressPending, ReleasePending
    <2>2. CASE ~(k = ComboKey /\ ModifierKey \in down) /\ invoked' = invoked
               /\ hand'.event = [key |-> k, pressed |-> TRUE]
      <3>1. invoked => ModifierKey \in down
        BY <1>1, <1>3 DEF Paired, ComboSwallowed
      <3>2. invoked => k # ComboKey
        BY <2>2, <3>1
      <3>3. invoked /\ ComboKey \in down' => sent[ComboKey] # "press"
        BY <1>1, <1>4, <3>2 DEF Paired, ComboSwallowed
      <3>4. PressPending(ComboKey)' => k = ComboKey
        BY <2>2 DEF PressPending
      <3>. QED BY <1>1, <2>2, <3>1, <3>2, <3>3, <3>4 DEF ComboSwallowed
    <2>. QED BY <1>2, <2>1, <2>2
  <1>. QED BY <1>5, <1>6 DEF Paired

\* The release of a key that the handler reports.
LEMMA ReleaseKeepsPaired ==
  ASSUME Typed, Paired, NEW k \in Key, KeyReleased(k)
  PROVE  Paired'
  <1>1. /\ hand.point = "idle" /\ k \in down /\ down' = down \ {k}
        /\ UNCHANGED << emuQ, emuDown, sent >>
    BY Zenon DEF KeyReleased, Report, loopVars
  <1>2. \/ k = ComboKey /\ invoked /\ ~invoked' /\ UNCHANGED hand
        \/ /\ invoked' = invoked
           /\ hand'.point = "push" /\ hand'.event = [key |-> k, pressed |-> FALSE]
    <2>. DEFINE h == [point |-> "push", event |-> [key |-> k, pressed |-> FALSE], toUi |-> uiEnabled]
    <2>1. h.point = "push" /\ h.event = [key |-> k, pressed |-> FALSE]
      OBVIOUS
    <2>. HIDE DEF h
    <2>2. (hand' = h) => hand'.point = "push" /\ hand'.event = [key |-> k, pressed |-> FALSE]
      BY <2>1
    <2>. QED BY <2>2, Zenon DEF KeyReleased, Route, Typed, Flags, h
  <1>3. \A x : ~PressPending(x) /\ ~ReleasePending(x)
    BY <1>1 DEF PressPending, ReleasePending
  <1>4. \A x \in Key : sent[x] = "press" => x \in down
    BY <1>3 DEF Paired, PressesPaired
  <1>5. CASE k = ComboKey /\ invoked /\ ~invoked' /\ UNCHANGED hand
    <2>1. sent[ComboKey] # "press"
      BY <1>1, <1>5 DEF Paired, ComboSwallowed
    <2>2. \A x : ~PressPending(x)'
      BY <1>3, <1>5 DEF PressPending
    <2>. QED BY <1>1, <1>4, <1>5, <2>1, <2>2 DEF Paired, PressesPaired, ComboSwallowed
  <1>6. CASE invoked' = invoked /\ hand'.point = "push" /\ hand'.event = [key |-> k, pressed |-> FALSE]
    <2>1. \A x : ~PressPending(x)'
      BY <1>6 DEF PressPending
    <2>2. ReleasePending(k)'
      BY <1>6 DEF ReleasePending
    <2>3. PressesPaired'
      BY <1>1, <1>4, <2>1, <2>2 DEF Paired, PressesPaired
    <2>4. invoked => ModifierKey \in down
      BY <1>1, <1>3 DEF Paired, ComboSwallowed
    <2>5. ComboSwallowed'
      BY <1>1, <1>6, <2>1, <2>2, <2>4 DEF Paired, ComboSwallowed
    <2>. QED BY <2>3, <2>5 DEF Paired
  <1>. QED BY <1>2, <1>5, <1>6

\* The event goes to the ring that ui_enabled chose.
LEMMA PushKeepsPaired ==
  ASSUME Typed, Paired, PushEvent, ModifierKey # MenuKey
  PROVE  Paired'
  <1>. DEFINE e == hand.event
  <1>1. /\ hand.point = "push" /\ e \in Event /\ e.key \in Key /\ e.pressed \in BOOLEAN
        /\ e = [key |-> e.key, pressed |-> e.pressed]
        /\ hand.toUi \in BOOLEAN
        /\ UNCHANGED << down, emuDown >> /\ invoked' = invoked
    BY DEF PushEvent, Typed, HandlerData, Hands, Event, loopVars
  <1>2. hand'.point \in {"arm", "combo", "idle"}
    BY DEF PushEvent, Typed, HandlerData, Hands
  <1>3. \A x : ~PressPending(x)' /\ ~ReleasePending(x)'
    BY <1>2 DEF PressPending, ReleasePending
  <1>4. \A x \in Key : x # e.key => sent'[x] = sent[x]
    BY DEF PushEvent, Typed, HandlerData
  <1>5. sent'[e.key] = (CASE ~hand.toUi -> IF e.pressed THEN "press" ELSE "release"
                          [] hand.toUi /\ ~e.pressed /\ sent[e.key] = "press" -> "astray"
                          [] OTHER -> sent[e.key])
    BY <1>1 DEF PushEvent, Typed, HandlerData
  <1>6. emuQ' = IF hand.toUi THEN emuQ ELSE Append(emuQ, e)
    BY DEF PushEvent
  <1>7. \A x \in Latched(emuDown', emuQ') : sent'[x] # "release"
    <2>1. CASE hand.toUi
      <3>1. Latched(emuDown', emuQ') = Latched(emuDown, emuQ)
        BY <1>1, <1>6, <2>1
      <3>2. \A x \in Latched(emuDown, emuQ) : x \in Key /\ sent[x] # "release"
        BY DEF Latched, Paired, PressesPaired
      <3>. QED BY <1>1, <1>4, <1>5, <2>1, <3>1, <3>2
    <2>2. CASE ~hand.toUi
      <3>1. emuQ \in Seq(Event)
        BY DEF Typed, HandlerData
      <3>2. Latched(emuDown', emuQ') \subseteq
              IF e.pressed THEN Latched(emuDown, emuQ) \union {e.key}
                           ELSE Latched(emuDown, emuQ) \ {e.key}
        BY <1>1, <1>6, <2>2, <3>1, LatchedAppend
      <3>3. \A x \in Latched(emuDown, emuQ) : x \in Key /\ sent[x] # "release"
        BY DEF Latched, Paired, PressesPaired
      <3>. QED BY <1>1, <1>4, <1>5, <2>2, <3>2, <3>3
    <2>. QED BY <1>1, <2>1, <2>2
  <1>8. \A x \in Key : sent'[x] = "press" => x \in down'
    <2>1. ASSUME NEW x \in Key, sent'[x] = "press", x # e.key PROVE x \in down
      <3>1. sent[x] = "press" /\ ~ReleasePending(x)
        BY <1>1, <1>4, <2>1 DEF ReleasePending
      <3>. QED BY <3>1 DEF Paired, PressesPaired
    <2>2. ASSUME sent'[e.key] = "press" PROVE e.key \in down
      <3>1. CASE e.pressed
        BY <1>1, <3>1 DEF Paired, PressesPaired, PressPending
      <3>2. CASE ~e.pressed
        <4>1. FALSE
          BY <1>1, <1>5, <2>2, <3>2
        <4>. QED BY <4>1
      <3>. QED BY <1>1, <3>1, <3>2
    <2>. QED BY <1>1, <2>1, <2>2
  <1>9. PressesPaired'
    BY <1>3, <1>7, <1>8 DEF PressesPaired
  <1>10. invoked => ModifierKey \in down \/ hand'.point = "combo"
    <2>1. ASSUME invoked, ReleasePending(ModifierKey) PROVE hand'.point = "combo"
      <3>1. e.key = ModifierKey /\ ~e.pressed
        BY <2>1 DEF ReleasePending
      <3>. QED BY <2>1, <3>1, ModifierKey # MenuKey DEF PushEvent, Typed, HandlerData, Hands
    <2>. QED BY <1>1, <2>1 DEF Paired, ComboSwallowed
  <1>11. invoked /\ ComboKey \in down => sent'[ComboKey] # "press"
    <2> SUFFICES ASSUME invoked, ComboKey \in down PROVE sent'[ComboKey] # "press"
      OBVIOUS
    <2>1. ComboKey \in Key
      BY DEF Typed, HandlerData
    <2>2. sent[ComboKey] # "press" /\ ~PressPending(ComboKey)
      BY DEF Paired, ComboSwallowed
    <2>3. CASE ComboKey # e.key
      BY <1>4, <2>1, <2>2, <2>3
    <2>4. CASE ComboKey = e.key
      <3>1. ~e.pressed
        BY <1>1, <2>2, <2>4 DEF PressPending
      <3>. QED BY <1>1, <1>5, <2>2, <2>4, <3>1
    <2>. QED BY <2>3, <2>4
  <1>. QED BY <1>1, <1>3, <1>9, <1>10, <1>11 DEF Paired, ComboSwallowed

\* The handler's other steps queue and report nothing.
LEMMA HandlerKeepsPaired ==
  ASSUME Typed, Paired, Handler, ModifierKey # MenuKey
  PROVE  Paired'
  <1>1. ASSUME UNCHANGED << down, emuQ, emuDown, sent >>, invoked' => invoked,
               UNCHANGED hand \/ (hand.point # "push" /\ hand'.point # "push"),
               hand.point = "combo" => ~invoked'
        PROVE  Paired'
    <2>1. \A x : /\ PressPending(x)' => PressPending(x)
                 /\ ReleasePending(x) <=> ReleasePending(x)'
      BY <1>1 DEF PressPending, ReleasePending
    <2>2. PressesPaired'
      BY <1>1, <2>1 DEF Paired, PressesPaired
    <2>3. ComboSwallowed'
      BY <1>1, <2>1, Zenon DEF Paired, ComboSwallowed
    <2>. QED BY <2>2, <2>3 DEF Paired
  <1>2. CASE ArmMenu
    <2>1. /\ UNCHANGED << down, invoked, emuQ, emuDown, sent >> /\ hand.point = "arm"
      BY <1>2, Zenon DEF ArmMenu, loopVars
    <2>2. hand'.point = "idle"
      BY <1>2 DEF ArmMenu, Typed, HandlerData, Hands
    <2>3. invoked' => invoked
      BY <2>1
    <2>. QED BY <1>1, <2>1, <2>2, <2>3
  <1>3. CASE ComboFunction
    <2>1. /\ UNCHANGED << down, emuQ, emuDown, sent >> /\ hand.point = "combo"
          /\ ~invoked'
      BY <1>3, Zenon DEF ComboFunction, loopVars
    <2>2. hand'.point = "idle"
      BY <1>3 DEF ComboFunction, Typed, HandlerData, Hands
    <2>. QED BY <1>1, <2>1, <2>2
  <1>4. ASSUME NEW f \in QuickFunc, ButtonFunction(f) PROVE Paired'
    <2>1. /\ UNCHANGED << down, invoked, hand, emuQ, emuDown, sent >> /\ hand.point = "idle"
      BY <1>4, Zenon DEF ButtonFunction, Report, loopVars
    <2>2. invoked' => invoked
      BY <2>1
    <2>. QED BY <1>1, <2>1, <2>2
  <1>. QED BY <1>2, <1>3, <1>4, PressKeepsPaired, ReleaseKeepsPaired, PushKeepsPaired
       DEF Handler

LEMMA MainLoopKeepsPaired ==
  ASSUME Typed, Paired, MainLoop
  PROVE  Paired'
  <1>1. UNCHANGED << down, invoked, hand, sent >>
    BY Zenon DEF MainLoop, EmulateFrame, Sync, TrapLoop, UiKey, UiKeysDone, DrainEmuKeys, LoadToggle,
           StoreToggle, RunQuick, ClearQuick, NothingPending, handlerVars, historyVars
  <1>2. Latched(emuDown', emuQ') = Latched(emuDown, emuQ)
    <2>1. CASE DrainEmuKeys
      <3>1. emuDown' = Latched(emuDown, emuQ) /\ emuQ' = << >>
        BY <2>1 DEF DrainEmuKeys
      <3>2. Latched(emuDown, emuQ) \in SUBSET Key
        BY DEF Latched
      <3>. QED BY <3>1, <3>2, LatchedEmpty
    <2>2. UNCHANGED << emuDown, emuQ >> \/ DrainEmuKeys
      BY Zenon DEF MainLoop, EmulateFrame, Sync, TrapLoop, UiKey, UiKeysDone, LoadToggle,
         StoreToggle, RunQuick, ClearQuick, NothingPending, handlerVars, historyVars
    <2>. QED BY <2>1, <2>2
  <1>3. \A x : (PressPending(x)' <=> PressPending(x)) /\ (ReleasePending(x)' <=> ReleasePending(x))
    BY <1>1 DEF PressPending, ReleasePending
  <1>4. PressesPaired'
    BY <1>1, <1>2, <1>3 DEF Paired, PressesPaired
  <1>5. ComboSwallowed'
    BY <1>1, <1>3, Zenon DEF Paired, ComboSwallowed
  <1>. QED BY <1>4, <1>5 DEF Paired

LEMMA PairedStep ==
  ModifierKey # MenuKey => (Typed /\ Paired /\ [Next]_vars => Paired')
  <1> SUFFICES ASSUME ModifierKey # MenuKey, Typed, Paired, [Next]_vars PROVE Paired'
    OBVIOUS
  <1>1. CASE UNCHANGED vars
    <2>1. UNCHANGED << down, invoked, hand, sent, emuDown, emuQ >>
      BY <1>1, Zenon DEF vars, handlerVars, loopVars, historyVars
    <2>2. \A x : (PressPending(x)' <=> PressPending(x)) /\ (ReleasePending(x)' <=> ReleasePending(x))
      BY <2>1 DEF PressPending, ReleasePending
    <2>3. PressesPaired'
      BY <2>1, <2>2 DEF Paired, PressesPaired
    <2>4. ComboSwallowed'
      BY <2>1, <2>2, Zenon DEF Paired, ComboSwallowed
    <2>. QED BY <2>3, <2>4 DEF Paired
  <1>. QED BY <1>1, HandlerKeepsPaired, MainLoopKeepsPaired DEF Next

\* A key that the user has let go stays down in the emulator only if its
\* release went to the menu: for any keys, as long as the first key of the
\* combination is not F12 (emu_key_pressed, emu_key_released).
THEOREM StuckOnlyIfAstray == ModifierKey # MenuKey => (Spec => []StuckOnlyAcrossMenu)
  <1>1. Typed /\ Paired => StuckOnlyAcrossMenu
    <2> SUFFICES ASSUME Typed, Paired, NEW k \in emuDown \ down,
                        ~(hand.point # "idle" /\ hand.event.key = k),
                        \A i \in DOMAIN emuQ : emuQ[i].key # k
                 PROVE  sent[k] = "astray"
      BY DEF StuckOnlyAcrossMenu
    <2>1. k \in Key
      BY DEF Typed, LoopData
    <2>2. k \in Latched(emuDown, emuQ)
      BY <2>1 DEF Latched
    <2>3. ~ReleasePending(k)
      BY DEF ReleasePending
    <2>4. sent[k] # "release" /\ sent[k] # "press"
      BY <2>1, <2>2, <2>3 DEF Paired, PressesPaired
    <2>. QED BY <2>1, <2>4 DEF Typed, HandlerData
  <1> SUFFICES ASSUME ModifierKey # MenuKey PROVE Spec => []StuckOnlyAcrossMenu
    OBVIOUS
  <1>2. Typed /\ Paired /\ [Next]_vars => Typed' /\ Paired'
    BY TypeStep, PairedStep
  <1>. QED BY <1>1, <1>2, TypeInit, PairedInit, PTL DEF Spec
=============================================================================
