---- MODULE MenuStack ----
(***************************************************************************)
(* The stack of menus (ui.c) as the main loop drives it: a round copies    *)
(* the keys that have come, acts on them one by one, repeats a held arrow, *)
(* runs a countdown or a quick function, and draws.  Which item an action  *)
(* is for was found by the last drawing of its menu, not by the cursor.    *)
(* Items open menus, close them and answer with dialogs; what a choice of  *)
(* an item does is a script of such steps, one of those its handler has    *)
(* (menu.c, menu_timing.c, menu_usb.c, menu_*_osd.c, vice_api.c).          *)
(***************************************************************************)
EXTENDS Integers, Sequences, FiniteSets

CONSTANTS Menus,      \* menu -> [items, rows, off]: its items, what its window
                      \* shows at once and its on_popped_off; an item is
                      \* [kind, depth, scripts, letter], a folder's children follow it
          Levels,     \* menu -> the slots of the stack it may be in
          Lists,      \* multiple choice -> [n, disabled]
          PageRows,   \* menu_height_chars
          Roots,      \* NUM_MENU_ROOTS
          MaxBatch    \* bound: keys that come between two rounds

\* The kinds of files that have a list, and the callbacks that end what the
\* handler of the push began.
FileLists == {"files"}
Ends == {"raw", "timer"}

\* What a handler does is a script of such steps: "item" is where it reads the
\* item it was called with.  No handler opens an OSD from a menu by name, nor
\* does any more once it has left the UI, but for reading its item, or once it
\* has opened a page whose popping ends something.
Steps == {<<"item">>, <<"dialog">>, <<"pop">>, <<"exit">>}
         \cup {<<"push", menu>> : menu \in {x \in DOMAIN Menus : Menus[x].off # "osd"}}
         \cup {<<"confirm", menu>> : menu \in {x \in DOMAIN Menus : Menus[x].off = "none"}}
         \cup {<<"files", menu, reset>> : menu \in FileLists, reset \in BOOLEAN}
IsScript(script) ==
  /\ script \in Seq(Steps)
  /\ \A i \in 1 .. Len(script) - 1 : script[i][1] = "push" => Menus[script[i][2]].off = "none"
  /\ \A i \in 1 .. Len(script), j \in 1 .. Len(script) :
       j < i /\ script[j][1] = "exit" => script[i] = <<"item">>

\* A page that ends something has texts only, an OSD also what leaves the UI.
IsPage(menu) == \A i \in DOMAIN Menus[menu].items : Menus[menu].items[i].scripts \subseteq {<< <<"exit">> >>}
IsMenu(menu) ==
  LET items == Menus[menu].items
  IN  /\ Len(items) \in Nat \ {0} /\ DOMAIN items = 1 .. Len(items)
      /\ \A i \in DOMAIN items :
           /\ \A script \in items[i].scripts : IsScript(script)
           /\ items[i].kind = "choice" => items[i].choice \in DOMAIN Lists
      /\ Menus[menu].rows \in Nat \ {0} /\ Menus[menu].off \in {"none", "osd"} \cup Ends
      /\ Menus[menu].off \in Ends => IsPage(menu)

ASSUME MenuAssumption ==
  /\ Roots \in Nat \ {0} /\ PageRows \in Nat /\ MaxBatch \in Nat \ {0}
  /\ {"root", "dialog", "result", "osd"} \cup FileLists \subseteq DOMAIN Menus \ {"none"}
  /\ \A menu \in DOMAIN Menus : IsMenu(menu)
  /\ IsPage("osd")
  /\ \A menu \in FileLists : Menus[menu].rows > 1

\* The slot of the menu on top before the i-th step of a script that starts in
\* a menu in slot l, and that every step finds a slot for what it pushes.
LevelBefore(script, l) ==
  LET level[i \in 1 .. Len(script) + 1] ==
        IF i = 1 THEN l ELSE CASE script[i - 1][1] = "pop" -> level[i - 1] - 1
                               [] script[i - 1][1] = "exit" -> 0
                               [] script[i - 1][1] = "item" -> level[i - 1]
                               [] OTHER -> level[i - 1] + 1
  IN  level
IsNested(script, l) ==
  \A i \in 1 .. Len(script) :
    LET at == LevelBefore(script, l)[i]
    IN  CASE script[i][1] \in {"push", "confirm", "files"} -> at + 1 \in Levels[script[i][2]]
          [] script[i][1] = "dialog" -> at + 1 \in Levels["dialog"]
          [] script[i][1] = "pop" -> at > 0
          [] OTHER -> TRUE

\* A handler of an item in a menu in slot l reads its item when it has popped
\* that menu: ui_pop_menu has freed it then.
UsesFreed(script, l) ==
  \E i \in 1 .. Len(script) : script[i] = <<"item">> /\ \E j \in 1 .. i : LevelBefore(script, l)[j] < l

\* No handler leaves the stack, there is a slot for an OSD on top of any other
\* menu, and what the end of a time test shows fits in the slot of its page.
ASSUME NestingAssumption ==
  /\ DOMAIN Menus = DOMAIN Levels /\ 0 \in Levels["root"] /\ Menus["osd"].off = "osd"
  /\ \A menu \in DOMAIN Menus :
       /\ Levels[menu] \subseteq 0 .. Roots - 1
       /\ \A i \in DOMAIN Menus[menu].items, l \in Levels[menu] :
            \A script \in Menus[menu].items[i].scripts : IsNested(script, l)
       /\ menu # "osd" => \A l \in Levels[menu] : l + 1 \in Levels["osd"]
       /\ Menus[menu].off = "timer" => Levels[menu] \subseteq Levels["result"] \cap Levels["dialog"]

\* The first choice of a list, which is the one at the start, is not disabled,
\* nor are the places behind its last choice (MAX_CHOICES is larger than any n).
ASSUME ListAssumption ==
  \A c \in DOMAIN Lists : Lists[c].n \in Nat \ {0} /\ Lists[c].disabled \subseteq 1 .. Lists[c].n - 1

VARIABLES
  m,       \* menu_roots with their cursors, current_menu, ui_enabled, osd_active,
           \* the choices, current_dir_pos, the tests that a menu ends when it is
           \* popped.  History: "lost", an item was used that is no more or the
           \* stack left, and what the code does then is not modelled; "late",
           \* a key was acted on when the menu was closed; of a slot, "blind",
           \* a key was acted on when what its last drawing found was no longer so
  trap,    \* the main loop is in emu_pause_trap
  phase,   \* where the round is
  todo,    \* keys that may still be in this round's copy
  held     \* ui_key_action
vars == <<m, trap, phase, todo, held>>

NoSlot == [menu |-> "none", off |-> "none", open |-> {}, item |-> 0, blind |-> FALSE, listener |-> "none",
           cursor |-> 0, top |-> 0, bottom |-> 0, max |-> 0]

Top(s) == s.slot[s.current]
OnTop(s, slot) == [s EXCEPT !.slot[s.current] = slot]
Items(slot) == Menus[slot.menu].items

\* A loop that does Op for i = 1 .. n.
Loop(n, Op(_, _), s) ==
  LET after[i \in 0 .. n] == IF i = 0 THEN s ELSE Op(after[i - 1], i)
  IN  IF n > 0 THEN after[n] ELSE s
Times(n, Op(_), s) == Loop(n, LAMBDA t, i : Op(t), s)

\* The items that are drawn, the children of folders that are open, and the
\* place where each is drawn.
IsAncestor(items, j, i) == j < i /\ \A k \in j + 1 .. i : items[k].depth > items[j].depth
Drawn(slot) ==
  LET items == Items(slot)
  IN  {i \in DOMAIN items : \A j \in DOMAIN items : IsAncestor(items, j, i) => j \in slot.open}
Place(slot, i) == Cardinality({j \in Drawn(slot) : j < i})
Count(slot) == Cardinality(Drawn(slot))

\* cursor_pos_updated: the listener of a file list remembers the position by
\* the kind of files, and no push removes it.
Told(s) == IF Top(s).listener = "none" THEN s ELSE [s EXCEPT !.dirPos[Top(s).listener] = Top(s).cursor]

\* ui_traverse, and the drawing of one menu: the item under the cursor is the
\* one that is in the window there; a cursor past the end moves back after it.
Traversed(slot) ==
  LET under == {i \in Drawn(slot) : Place(slot, i) = slot.cursor}
      seen == slot.cursor \in slot.top .. slot.bottom - 1 /\ under # {}
  IN  [slot EXCEPT !.item = IF seen THEN CHOOSE i \in under : TRUE ELSE @,
                   !.max = Count(slot),
                   !.cursor = IF @ >= Count(slot) THEN Count(slot) - 1 ELSE @,
                   !.blind = @ /\ ~seen]
Traverse(s) ==
  LET t == OnTop(s, Traversed(Top(s))) IN IF Top(t).cursor # Top(s).cursor THEN Told(t) ELSE t

\* ui_render_single_frame
DrawnAt(s, i) ==
  LET t == [s EXCEPT !.slot[i] = Traversed(@)]
  IN  IF t.slot[i].cursor # s.slot[i].cursor THEN Told(t) ELSE t
DrawnAll(s) == Loop(s.current + 1, LAMBDA t, i : DrawnAt(t, i - 1), s)

\* ui_action for the arrows up and down
Up(s) ==
  LET slot == Top(s)
      c == IF slot.cursor - 1 < 0 THEN 0 ELSE slot.cursor - 1
      by == IF c <= slot.top - 1 THEN 1 ELSE 0
  IN  Told(OnTop(s, [slot EXCEPT !.cursor = c, !.top = @ - by, !.bottom = @ - by]))
\* Mutant: the window moves a step too late.
DownLate(s) ==
  LET slot == Top(s)
      c == IF slot.cursor + 1 >= slot.max THEN slot.max - 1 ELSE slot.cursor + 1
      by == IF c > slot.bottom THEN 1 ELSE 0
  IN  Told(OnTop(s, [slot EXCEPT !.cursor = c, !.top = @ + by, !.bottom = @ + by]))
Down(s) ==
  LET slot == Top(s)
      c == IF slot.cursor + 1 >= slot.max THEN slot.max - 1 ELSE slot.cursor + 1
      by == IF c >= slot.bottom THEN 1 ELSE 0
  IN  Told(OnTop(s, [slot EXCEPT !.cursor = c, !.top = @ + by, !.bottom = @ + by]))

\* ui_to_top goes on until the cursor is 0, also one step from a cursor that
\* Down has set to -1 in a menu that was never drawn.
ToTop(s) == Times(IF Top(s).cursor < 0 THEN 1 ELSE Top(s).cursor, Up, s)
ToBottom(s) == Times(Top(s).max - 1 - Top(s).cursor, Down, s)

\* ui_find_first: within Steps it has seen every item that is drawn, and when
\* it has neither found one nor come back to the start it never will.
Search(r, start, letter) ==
  LET t == IF Top(r.s).cursor >= Top(r.s).max - 1 THEN ToTop(r.s) ELSE Down(r.s)
      u == Traverse(t)
  IN  CASE r.done -> r
        [] ~r.done /\ Top(t).cursor = start -> [s |-> t, done |-> TRUE]
        [] ~r.done /\ Top(t).cursor # start /\ Top(u).item = 0 -> [s |-> [u EXCEPT !.lost = TRUE], done |-> TRUE]
        [] OTHER -> [s |-> u, done |-> Items(Top(u))[Top(u).item].letter = letter]
FindFirst(s, letter) ==
  LET steps == Len(Items(Top(s))) + Top(s).max + 1
      r == Times(steps, LAMBDA q : Search(q, Top(s).cursor, letter), [s |-> s, done |-> FALSE])
  IN  IF r.done THEN r.s ELSE [s EXCEPT !.lost = TRUE]

\* ui_type_char, which asks the item under the cursor first if it is a text field
TypeChar(s, letter) == IF Top(s).item = 0 THEN [s EXCEPT !.lost = TRUE] ELSE FindFirst(s, letter)

\* ui_push_menu; the item under the cursor and the number of items stay those
\* of the menu that was in the slot before, and the former is gone.
Push(s, menu, off) ==
  IF s.current + 1 >= Roots THEN [s EXCEPT !.lost = TRUE]
  ELSE [s EXCEPT !.current = @ + 1,
                 !.slot[s.current + 1] =
                   [@ EXCEPT !.menu = menu, !.off = off, !.open = {}, !.item = 0, !.blind = FALSE,
                             !.cursor = 0, !.top = 0, !.bottom = Menus[menu].rows]]

\* ui_enable_osd, ui_disable_osd (glob_osd_popped), and what draws the stack at
\* once: ui_info and ui_error, and ui_confirm_wrapped.
EnableOsd(s) == [s EXCEPT !.osd = TRUE, !.ui = TRUE]
DisableOsd(s) == [s EXCEPT !.osd = FALSE]
AtOnce(s) == IF s.lost THEN s ELSE DrawnAll(s)
Dialog(s) == AtOnce(IF s.ui THEN Push(s, "dialog", "none") ELSE EnableOsd(Push(s, "dialog", "osd")))
Confirm(s, menu) == AtOnce(Push(s, menu, "none"))

\* The callbacks of a menu that was popped.  The time test that was ended by
\* its clock shows its result, or that there is none.
PoppedOff(s, off) ==
  CASE off = "osd"   -> {DisableOsd(s)}
    [] off = "raw"   -> {[s EXCEPT !.raw = FALSE]}
    [] off = "timer" -> IF s.timing THEN {[s EXCEPT !.timing = FALSE]}
                        ELSE {Push(s, "result", "none"), Dialog(s)}
    [] OTHER -> {s}

\* What the next menu in the slot does not set anew.
Left(slot) == [NoSlot EXCEPT !.max = slot.max, !.listener = slot.listener]

\* ui_pop_menu, whose callback may push; ui_pop_all_and_toggle, which pops
\* what such a callback has pushed; ui_toggle, that traps the main loop.
Pop(s) ==
  IF s.current = 0 THEN {[s EXCEPT !.lost = TRUE]}
  ELSE PoppedOff([s EXCEPT !.current = @ - 1, !.slot[s.current] = Left(@)], Top(s).off)
AfterPop(states) == UNION {IF s.current > 0 THEN Pop(s) ELSE {s} : s \in states}
Toggle(s) == [s EXCEPT !.ui = ~@, !.entered = ~s.ui, !.late = FALSE]
\* Mutant: the stack is emptied without telling anyone.
DropAllAndToggle(s) == {Toggle([s EXCEPT !.current = 0])}
PopAllAndToggle(s) ==
  {Toggle(t) : t \in Times(2 * Roots, AfterPop, {s})}

\* ui_dismiss_osd_if_active, and the OSDs of the quick functions.
Dismiss(s) == IF s.osd THEN {DisableOsd(t) : t \in PopAllAndToggle(s)} ELSE {s}
ShowOsd(s, menu) == IF s.ui THEN Dismiss(s) ELSE {EnableOsd(Push(s, menu, "osd"))}

\* show_files: the list starts at its top, or the cursor is brought back.
Towards(s, pos) == IF Top(s).cursor < pos /\ Top(s).cursor < Top(s).max - 1 THEN Traverse(Down(s)) ELSE s
SetCurPos(s, pos) == Times(pos, LAMBDA t : Towards(t, pos), s)
ShowFiles(s, menu, reset) ==
  LET t == Push(s, menu, "none")
      files == IF t.lost THEN t ELSE [t EXCEPT !.slot[t.current].listener = menu]
  IN  IF reset THEN [files EXCEPT !.dirPos[menu] = 0] ELSE SetCurPos(files, s.dirPos[menu])

\* One step of a handler, and a handler's script; an item that was freed may
\* still hold what it held, or anything.
Step(s, op) ==
  CASE op[1] = "push"   -> {Push([s EXCEPT !.raw = @ \/ Menus[op[2]].off = "raw",
                                           !.timing = @ \/ Menus[op[2]].off = "timer"], op[2], Menus[op[2]].off)}
    [] op[1] = "files"  -> {ShowFiles(s, op[2], op[3])}
    [] op[1] = "dialog" -> {Dialog(s)}
    [] op[1] = "confirm" -> {Confirm(s, op[2])}
    [] op[1] = "pop"    -> Pop(s)
    [] op[1] = "exit"   -> PopAllAndToggle(s)
    [] OTHER -> {s}
StepAll(states, op) == UNION {Step(t, op) : t \in states}
MayBeLost(states, freed) == IF freed THEN states \cup {[t EXCEPT !.lost = TRUE] : t \in states} ELSE states
Run(s, script) ==
  MayBeLost(Loop(Len(script), LAMBDA states, i : StepAll(states, script[i]), {s}), UsesFreed(script, s.current))

\* A multiple choice: right goes round, return runs on past the last one, left
\* may leave the front.
Enabled(c, v) == v \notin Lists[c].disabled
\* Mutant: a choice that is disabled is not skipped.
NextAnyway(c, v, orig, down) == v
NextFrom(c, v, orig, down) ==
  LET reach == {k \in 0 .. 2 * Lists[c].n : LET w == down[k] IN Enabled(c, w) \/ w = orig}
  IN  down[CHOOSE k \in reach : \A j \in reach : k <= j]
Chosen(c, v, action) ==
  LET n == Lists[c].n
      first == CASE action = "left" -> IF v - 1 < 0 THEN n - 1 ELSE v - 1
                 [] OTHER -> IF v + 1 >= n THEN 0 ELSE v + 1
      w == NextFrom(c, first, v, [k \in 0 .. 2 * n |-> CASE action = "left"  -> first - k
                                                         [] action = "right" -> (first + k) % n
                                                         [] OTHER            -> first + k])
  IN  IF action = "left" /\ w < 0 THEN n - 1 ELSE w

\* ui_action for the item under the cursor
Act(s, action) ==
  LET slot == Top(s)
      it == Items(slot)[slot.item]
  IN  CASE slot.item = 0 -> {[s EXCEPT !.lost = TRUE]}
        [] slot.item # 0 /\ it.kind = "choice" ->
             {[s EXCEPT !.value[it.choice] = Chosen(it.choice, @, action)]}
        [] slot.item # 0 /\ it.kind = "folder" /\ action = "return" ->
             {OnTop(s, [slot EXCEPT !.open = IF slot.item \in @ THEN @ \ {slot.item} ELSE @ \cup {slot.item}])}
        [] slot.item # 0 /\ it.kind = "button" /\ action = "return" -> UNION {Run(s, script) : script \in it.scripts}
        [] OTHER -> {s}

\* Mutant: escape always closes the UI, whatever is stacked.
ActionCloses(s, action) ==
  CASE action = "up" -> {Up(s)}
    [] action = "down" -> {Down(s)}
    [] action \in {"left", "right", "return"} -> Act(s, action)
    [] action = "escape" -> {Toggle(s)}
    [] action = "exit" -> PopAllAndToggle(s)
    [] action = "none" -> {s}
\* Mutant: escape always pops.
ActionPops(s, action) ==
  CASE action = "up" -> {Up(s)}
    [] action = "down" -> {Down(s)}
    [] action \in {"left", "right", "return"} -> Act(s, action)
    [] action = "escape" -> Pop(s)
    [] action = "exit" -> PopAllAndToggle(s)
    [] action = "none" -> {s}
Action(s, action) ==
  CASE action = "up" -> {Up(s)}
    [] action = "down" -> {Down(s)}
    [] action \in {"left", "right", "return"} -> Act(s, action)
    [] action = "escape" /\ s.current > 0 /\ ~s.osd -> Pop(s)
    [] action = "escape" /\ s.current > 0 /\ s.osd -> PopAllAndToggle(s)
    [] action = "escape" /\ s.current = 0 -> {Toggle(s)}
    [] action = "exit" -> PopAllAndToggle(s)
    [] action = "none" -> {s}

\* What a key does when the copy is worked through; the menu may be closed by
\* then.  Arrows act when they are pressed, and may repeat until released.
Keys == {"up", "down", "left", "right", "released", "return", "escape", "exit",
         "top", "bottom", "pageup", "pagedown", "find"}
Handle(s, key) ==
  CASE key \in {"up", "down", "left", "right", "return", "escape", "exit"} -> Action(s, key)
    [] key = "top"      -> {ToTop(s)}
    [] key = "bottom"   -> {ToBottom(s)}
    [] key = "pageup"   -> {Times(PageRows, Up, s)}
    [] key = "pagedown" -> {Times(PageRows, Down, s)}
    [] key = "find"     -> {TypeChar(s, "f")}
    [] key = "released" -> {s}
\* What the last drawing found is still so: the item under the cursor, and
\* how many there are.
Matches(slot) == slot.item \in Drawn(slot) /\ Place(slot, slot.item) = slot.cursor
UpToDate(slot) == Matches(slot) /\ slot.max = Count(slot)
Noted(s) == LET late == [s EXCEPT !.late = @ \/ ~s.ui]
            IN  IF UpToDate(Top(s)) THEN late ELSE [late EXCEPT !.slot[s.current].blind = TRUE]

\* ui_check_key: the copy is made only when the UI is on.
CopyKeys ==
  /\ phase = "copy" /\ ~m.lost
  /\ phase' = IF m.ui THEN "keys" ELSE "quick"
  /\ todo' = MaxBatch
  /\ UNCHANGED <<m, trap, held>>

Key ==
  /\ phase = "keys" /\ ~m.lost /\ todo > 0
  /\ \E key \in Keys :
       /\ m' \in Handle(IF key = "released" THEN m ELSE Noted(m), key)
       /\ held' = CASE key \in {"up", "down", "left", "right"} -> key
                    [] key = "released" -> "none"
                    [] OTHER -> held
  /\ todo' = todo - 1
  /\ UNCHANGED <<trap, phase>>

\* ui_action_frame, whatever the ticks are.
Repeat ==
  /\ phase = "keys" /\ ~m.lost
  /\ phase' = "quick"
  /\ m' = m \/ (held # "none" /\ m' \in Action(Noted(m), held))
  /\ UNCHANGED <<trap, todo, held>>

\* ui_handle_toggle_or_quick_func
ToggleOrQuick ==
  /\ phase = "quick" /\ ~m.lost
  /\ phase' = "draw"
  /\ m' \in {m} \cup PopAllAndToggle(m) \cup ShowOsd(m, "osd")
  /\ UNCHANGED <<trap, todo, held>>

\* ui_render_single_frame and hdmi_timing_hook in the trap; ui_render_now of
\* the top menu at the vertical sync.
TimeIsUp(s) == IF s.timing THEN Pop([s EXCEPT !.timing = FALSE]) ELSE {}
DrawInTrap ==
  /\ phase = "draw" /\ ~m.lost /\ trap
  /\ m' \in {DrawnAll(m)} \cup TimeIsUp(DrawnAll(m))
  /\ trap' = m'.ui
  /\ phase' = "copy"
  /\ UNCHANGED <<todo, held>>

DrawAtSync ==
  /\ phase = "draw" /\ ~m.lost /\ ~trap
  /\ m' = IF m.ui THEN [Traverse(m) EXCEPT !.entered = FALSE] ELSE m
  /\ trap' = (m.ui /\ m.entered)
  /\ phase' = "copy"
  /\ UNCHANGED <<todo, held>>

\* ui_init_menu
Init ==
  /\ m = [slot |-> [i \in 0 .. Roots - 1 |-> IF i > 0 THEN NoSlot
                     ELSE [NoSlot EXCEPT !.menu = "root", !.bottom = Menus["root"].rows]],
          current |-> 0, ui |-> FALSE, osd |-> FALSE, entered |-> FALSE,
          value |-> [c \in DOMAIN Lists |-> 0], dirPos |-> [f \in FileLists |-> 0],
          raw |-> FALSE, timing |-> FALSE, lost |-> FALSE, late |-> FALSE]
  /\ trap = FALSE
  /\ phase = "copy"
  /\ todo = 0
  /\ held = "none"

Next == CopyKeys \/ Key \/ Repeat \/ ToggleOrQuick \/ DrawInTrap \/ DrawAtSync

Spec == Init /\ [][Next]_vars

(***************************************************************************)
(* Properties                                                              *)
(***************************************************************************)
OnStack == {m.slot[i] : i \in 1 .. m.current}
Drawing == phase = "copy"   \* what has just been drawn is what the user sees

\* The result that the clock of the time test puts on the stack after the
\* drawing of a frame is not drawn yet when the next keys are copied.
NewResult(slot) == slot.menu = "result" /\ slot.item = 0

\* What is drawn has its cursor in the window on the item that return will
\* act on, unless since it last was so a key was acted on when the cursor had
\* moved, or a folder was opened or closed, and the menu was not drawn yet.
CursorInView ==
  Drawing /\ m.ui /\ ~Top(m).blind /\ ~NewResult(Top(m)) =>
    LET slot == Top(m)
    IN  slot.cursor \in slot.top .. slot.bottom - 1 /\ Matches(slot)

\* The item that return acts on has a handler that reads it once its menu is popped.
FreesItsItem(s) ==
  LET slot == Top(s)
  IN  slot.item # 0 /\ \E script \in Items(slot)[slot.item].scripts : UsesFreed(script, s.current)

\* An item that is no more is used, or the stack left, in two ways only.  A key
\* finds the menu other than its last drawing did; and when it is the first key
\* of a round only if one was acted on like that since the menu was last drawn
\* with its cursor in view, or on a result that was not drawn yet.  Or, also on
\* a menu as it is drawn, a key is for an item whose handler pops its menu and
\* reads the item after (select_file, up_dir, enter_dir, the change of volume,
\* the answer to a question); a held arrow that repeats never does that.
LossesAreExplained ==
  [][~m.lost /\ m'.lost =>
       /\ phase = "keys"
       /\ \/ ~UpToDate(Top(m)) /\ (todo < MaxBatch \/ Top(m).blind \/ NewResult(Top(m)))
          \/ phase' = "keys" /\ FreesItsItem(m)]_vars

\* An OSD, the raw monitor of a gamepad and the time test are on exactly as
\* long as the menu whose popping ends them is on the stack, and the time test,
\* whose end pops the top menu, pops its own unless it was begun by a key that
\* was acted on after the menu had closed.
CallbacksMatch ==
  ~m.lost =>
    /\ m.osd <=> \E slot \in OnStack : slot.off = "osd"
    /\ m.raw <=> \E slot \in OnStack : slot.off = "raw"
    /\ m.timing /\ ~m.late => Top(m).off = "timer"

\* A closed menu has left nothing on the stack, unless a key of the same round
\* was acted on after it closed.
ClosedIsClean == ~m.ui /\ ~m.late /\ ~m.lost => m.current = 0 /\ ~m.osd

\* A choice is one that is not disabled; it is past the last one only where
\* the last one is disabled, which return does not go round.
ChoicesAreEnabled ==
  \A c \in DOMAIN Lists :
    LET n == Lists[c].n
    IN  /\ m.value[c] \in 0 .. n /\ Enabled(c, m.value[c])
        /\ m.value[c] = n => ~Enabled(c, n - 1)
====
