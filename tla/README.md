# TLA+ models of BMC64

BMC64 is a bare-metal Raspberry Pi port of the VICE emulators: the Circle
library stands in for an operating system, the code in `src/*.cpp` is the
kernel, `src/third_party/common/*.c` is the menu and the glue between kernel
and emulator, and `src/third_party/vice-3.9/src/arch/raspi/` is VICE's
architecture layer.  The rest of the tree (VICE itself, plus4emu, shaders,
build tools, disk images) is vendored, and Circle is a submodule whose sources
are not in the repository.

This directory holds TLA+ modules for the parts of that code where an order of
steps matters, TLC configurations that check them on small instances, and
proofs for the TLA+ proof system (TLAPS) of what holds on every instance.
Source lines are named as `file:line`; `PROJECT.json` maps every definition to
the lines it models.

    tlc -config EventRing.cfg EventRing.tla        # check a configuration
    tlapm EventRingProofs.tla                      # check the proofs of a module

## 1. Inventory

Who runs where: core 0 runs the kernel, the USB interrupt handlers (keyboard,
mouse, gamepads), the callbacks of the VCHIQ sound device and the network task.
Core 1 runs the emulator: the VICE main loop, which once a frame calls
`vsyncarch_postsync` (frame layers, GPIO scan, drains), and, while a menu is
open, `emu_pause_trap`.  Cores 2 and 3 wait for the end of the boot and then
halt.  One non-recursive spin lock (`CKernel::m_Lock`, `circle_lock_acquire`)
guards what the cores share.  `NDEBUG` is not defined in the build, so an
`assert` that fails halts the machine.

| Component | State | Operations | Talks to | Correct when |
|---|---|---|---|---|
| Input event rings (`emux_api.c`, `ui.c`, drained in `videoarch.c`) | three rings with free-running head and tail | `emux_key_interrupt`, `emux_key_interrupt_locked`, `emux_joy_interrupt`, `emu_ui_key_interrupt`; the drains in `vsyncarch_postsync` and `ui_check_key` | handlers on core 0 and the GPIO scan on core 1 write, the main loop reads | every event is handled once, in order, whole |
| Menu toggle, quick functions, dialogs (`kbd.c`, `ui.c`, `videoarch.c`, `vice_api.c`) | `ui_enabled`, `osd_active`, `ui_toggle_pending`, `pending_emu_quick_func`, the pause trap | F12 and key combinations in `emu_key_released`, `ui_handle_toggle_or_quick_func`, `ui_pop_all_and_toggle`, the on-screen dialogs, `emu_pause_trap` | decides which ring a key goes to | a menu pauses the machine, no key is stuck, no request is lost |
| Menu stack and navigation (`ui.c`, `menu.c`) | stack of menu roots with cursor, window and the item found by the last drawing; popped callbacks; held arrow | `ui_push_menu`, `ui_pop_menu`, `ui_action`, the keys, `ui_render_single_frame`, the handlers that push and pop | every menu handler, the pause trap | return acts on the item under the cursor; callbacks match pushes; a closed menu is empty |
| USB and GPIO reports, keyboard matrix (`kernel.cpp`) | what each report had down; debounced pins, matrix, pin modes | `KeyStatusHandlerRaw`, the gamepad and mouse handlers, `circle_check_gpio` with one scan per configuration | rings and joystick ports; the menu if it is open | each change is told once, to one listener; no pin is driven that may not be |
| Input assignment (`menu.c`, `joy.c`, `kbd.c`) | device of each port, key sets, button functions, raw monitors | port items, key-set joysticks, `exec_button_func` | reports, rings | a key is taken by one reader; a change of assignment leaves nothing held unknown |
| Sound device (`vicesoundbasedevice.cpp`, `vicesound.cpp`) | device state, write and complete position | `Start`, `Cancel`, `WriteChunk`, `SetControl`, `Callback`, `AddChunk`, `GetChunk` | VCHIQ calls back on core 0; the emulator writes and reopens on core 1 | the positions count what is in flight, calls return, no assert fails |
| Network handles (`kernel.cpp`, `circle_network.cpp`) | eight socket slots with one peeked byte each | connect, listen, accept, receive, poll, close | the modem and VICE's network library above, Circle's `CSocket` below | streams arrive whole, handles have one holder |
| Virtual modem (`rs232-raspi-dev.c`) | four descriptors, command or connected, command line, reply ring | `rs232dev_open`, `close`, `reset`, `putc`, `getc`, the AT commands | network handles | as its header comment says |
| File table (`new_io.cpp`, `bootstat*.h`) | open files with their contents in memory, the boot list | `_open`, `_close`, `_read`, `_write`, `_lseek`, `_stat` | FatFs below, VICE and the menu above | as its header comment says |
| Boot (`main.cpp`, `kernel.cpp`, `viceapp.cpp`, `viceemulatorcore.cpp`, `plus4emulatorcore.cpp`) | what is set up, where each core is, launch flag, count of idle cores, sound pointer | `Initialize` of every layer, `LaunchEmulator`, `circle_boot_complete`, `circle_check_gpio`, `circle_kernel_core_init_complete` | all cores, sound device, lock | the emulator finds everything set up; one sound device is made; nobody waits for ever |
| Options (`viceoptions.cpp`, timing in `viceapp.cpp`) | the options, from the boot command line | the constructor, `circle_cycles_per_second` and its kin | boot, machine setup | the options mean what was written, in any order |
| Storage: safe boot, boot list, volumes (`viceapp.cpp`, `menu.c`) | kernel image on the card, `bootstat.txt`, mounted volumes | the restore in `ViceStdioApp::Initialize`, `InitBootStat`, `circle_mount_usb`, `filesystem_change_volume` | FatFs, file table | a restore leaves a kernel that boots; a list is of the volume it says |
| Framebuffer layers (`fbl.cpp`) | allocated, showing, two resources, palette, shader, texture, geometry | `Allocate`, `ReAllocate`, `Show`, `Hide`, `FrameReady`, `SwapResources`, `SetPalette`, `SetSrcRect`, the shader's calls | GPU; the clients below | what is shown is allocated, current and complete |
| Clients of the layers (`emux_api.c`, `videoarch.c`, `menu.c`, `overlay.c`) | `*_enabled`, `*_showing`, the active display | `emux_ensure_video`, video settings, frames, dialogs, trap rounds | layers | what is enabled is on the screen |
| Overlay and virtual keyboard (`overlay.c`, `vice_overlay.c`) | status bar, latched virtual keys | `overlay_*`, `vkbd_*` | layers; rings with the lock held | a latched key is released |
| Menu contents; rendering; TFTP server | item lists, settings | one setter per item, drawing | | |
| VICE, plus4emu, shaders, tools | vendored | | | |

Hard behaviours: handlers on one core and the main loop on another; steps
between a read of `ui_enabled` and the push that depends on it; a countdown
written by a handler and decremented by the main loop; a single slot that is
cleared after its handler ran; several keys acted on before anything is drawn; a
device that is cancelled while it calls back; a lock held across a wait for an
interrupt of the core that may be spinning for it; flags that copy what a layer
shows; GPU objects that copy what a layer is set to; file contents that live in
memory until the file is closed; a kernel image rewritten in place; error
returns that callers read the other way round.  `PROJECT.json` lists the hazards
with their lines and the properties that would catch each.

## 2. Modules

    EventQueue  <-- refines --  EventRing               <- EventRingProofs
                                InputPipeline           <- InputPipelineProofs
    InputRouting <- UsbReports, GpioScan <- Reports     <- ReportsMC, DeviceProofs
                                MenuStack               <- MenuStackMC, MenuStackProofs
    FrameLayers <-              FrameClients            <- FrameClientsMC, FrameClientsProofs
                                SoundDevice             <- DeviceProofs
    NetSockets  <-              Modem                   <- ModemProofs
    FileStore   <-- refines --  FileTable               <- FileTableMC, FileTableProofs
    Options     <-              Boot                    <- BootMC, BootProofs

`A <- B`: B EXTENDS A.

Conventions: variables, constants and operators have the names of the source
where TLA+ allows it.  A variable marked *history* is not in the code; guards
never read one, and properties do.  A constant marked *bound of the model* cuts
behaviours off; the proofs hold for every value of it.  An operator marked
*mutant* is a plausible mistake in the operator it is named for; nothing uses
it, it documents which mistake each property finds.

### EventRing, EventQueue

One ring of the shape all three share.  Each memory access is a step: taking
the lock (`AcquireToPush`), the stores to the slot (`StoreKey`,
`StorePressed`), `tail++` (`AdvanceTail`), releasing; in the drain, taking the
lock, reading and handling the slot at `head`, `head++`, finding `head = tail`,
releasing.  `PushLocked` is `emux_key_interrupt_locked`, which the virtual
keyboard calls back while the drain of the joystick ring holds the lock.  Any
core may push, the consumer's own included, since the GPIO scan runs on core 1.

The code never compares `tail` with `head`.  `MaxPending` is how far the
handlers get ahead between two drains, and everything about order and loss needs
`MaxPending <= Size` (16 slots, 128 for the joystick ring).  That is a premise
about how fast people type, not something the code enforces: with one more
`ExactlyOnceInOrder` fails, and `ui_check_key` would moreover copy more than
sixteen events to its arrays of sixteen (`ui.c:678`).

`EventQueue` is what a ring promises: `Put` and `Take` on a sequence.
`ImplementsQueue` is the refinement, with the slots from `head` to `tail` as the
queue; between handling a slot and `head++` the slot is already taken.

### InputPipeline

The route of a key.  The handler on core 0 reads `ui_enabled` (`KeyPressed`,
`KeyReleased`), queues the event on the ring it chose then (`PushEvent`), and
for F12 arms `ui_toggle_pending` (`ArmMenu`); a combination swallows its second
key and requests a quick function, or acts when its first key is let go
(`ComboFunction`).  Buttons request quick functions directly.  The main loop on
core 1 is one step per part of `vsyncarch_postsync` and `emu_pause_trap`: sync
and the UI keys of an OSD, the drain, the countdown (load and store are separate
steps, since it is decremented without the lock), the quick function (run, then
clear the slot).  The rings are sequences here, which EventRing justifies.

A menu is abstracted to whether it is up: a key in the menu does nothing the
pipeline sees, or closes the menu, or, in a confirmation dialog, requests the
reset and closes it.  One key combination stands for all.

### InputRouting, UsbReports, GpioScan, Reports

What is pressed and who is told.  `InputRouting` is the destination of one
change: the menu if it is up, else a joystick port whose device takes the key
(`TakenBy`; a release of F12 is offered to none), else the emulator; the button
functions of gamepads and pins; and the joystick latches.  `Key` reads
`ui_enabled` once where the code reads it for each port and again before it
queues the event; the last of these reads is a step of its own in
`InputPipeline`.  `UsbReports` has the handlers of core 0, which compare a report with
the one before.  The keyboard handler takes the modifiers one by one, where
a shift key sets its flag first (`FlagShift`) and is told after
(`CompareModifier`), reads `ui_enabled` for all keys (`ReadUi`), and takes the
keys one by one; these are separate steps, so that core 1 may open or close the
menu in between.  `GpioScan` is `circle_check_gpio` in each of its
configurations: the switches on the board connect pins, a pin reads low if it is
connected to ground or to a pin that the scan drives low, and the debouncing
takes the scans it takes.  Since core 1 calls it, a scan is one step.

`Reports` puts one device at a time against the menu, which opens, closes, and
changes assignments and configurations.  `excused` (history) holds the keys that
were down, or on their way, at such a change, until they are up everywhere, the
last key of a capture, and the direction that a key set gives to F12 (`Untold`);
the properties speak of all others.  Two sources may be one key to the menu: the
cursor key and a number pad's key that a port takes, the stick and a button of
a pad, a contact of the matrix and the joystick beside it.  The first that is
released takes the key from the menu, and the second is told to it as a release
without a press;
`doubled` (history) names such keys while the second is held.  The arrival of an
event is one step here; EventRing and InputPipeline are about the way.

### MenuStack

`ui.c` as a round of the main loop sees it: copy the keys that came
(`CopyKeys`), act on each (`Key`), repeat a held arrow (`Repeat`), countdown or
quick function (`ToggleOrQuick`), draw (`DrawInTrap`, `DrawAtSync`).  The cursor
is a number, and the item it is on is known only after the next drawing
(`Traverse`), as in the code; `blind` (history) marks a menu whose last drawing
no longer fits, and `lost` a step the code cannot survive: an item used that is
no more, a push or a pop past the ends of the stack, a search for a letter that
never comes back to its start.  What the handler of an item does is a script, a
sequence of pushes, pops, dialogs, questions, exits and reads of the item itself
(`"item"`), taken from the handlers of `menu.c` and the `menu_*.c` files: one of
those its handler has is chosen freely.  A handler that reads its item after it
has popped the menu (`UsesFreed`) reads memory that `ui_pop_menu` has freed
(`ui.c:1184-1204`): from there the model goes on both ways, as if the memory
still held the item, and `lost`.  A letter asks the item under the cursor first
whether it is a text field (`TypeChar`).  `ui_info`, `ui_error` and `ui_confirm_wrapped` draw all menus before they
return (`AtOnce`), so a dialog has its item before the next key; the result of a
timing test has not: `emu_pause_trap` draws the frame first and calls the timing
hook after it, and the hook pushes the result (`emux_api.c:264-280`,
`menu_timing.c:101`), which the keys of the next round meet undrawn (`NewResult`).

`MenuAssumption` is what the menus of the program have in common.  Every handler
that leaves the UI does so last (`ui_pop_all_and_toggle` is followed by a return
in `menu.c`, `menu_tape_osd.c` and the others); a page whose popping ends
something (the monitor of a gamepad, the timing test) is the last thing its
handler pushes and has no items that do anything; no handler pushes an OSD by
name, since the quick functions do that; the menus a dialog, a file list and an
OSD need exist; every menu has an item, a window has a row, and that of a file
list has two.  `NestingAssumption` is what keeps the stack within its
`NUM_MENU_ROOTS` slots: each menu has `Levels`, the slots it may be in, every
step of a handler that starts in one of them pushes into a slot of the menu it
pushes, and over every slot of another menu there is one for an OSD.  In the code
the root is in slot 0; file lists, questions and the other pages that an item of
the root opens in 1; the volumes, tests and monitors they open, or the list of
files for the ROM of a drive (`drive_change_rom`), in 2; volumes of that list, and
what any of these has to say, in 3; and slot 4 is left for an OSD over it.  `ListAssumption` says that the first choice of a list, which is
selected at the start, may be chosen, and that nothing is disabled behind the
last one, where Return may step (`Chosen`).

### FrameLayers, FrameClients

`FrameLayers` has a layer as a record and each method of `FrameBufferLayer` as
an operator from one record to the next.  A picture, a palette and a geometry
are numbers; a shader's texture, its palette and its quad are copies of them,
made where the code makes them.  `fault` records a failed assert or a use of a
GPU object that does not exist.  `FrameClients` has the callers, all on core 1:
the frame (`emux_ensure_video`, the dialog, the overlay,
`circle_frames_ready_fbl`), quick functions, dialogs, and a round of the trap
with every change that a menu item can make.  `last` (history) remembers of a
frame what was enabled, what was on the screen and how many vertical blanks were
waited for.

### SoundDevice

`ViceSound` and `ViceSoundBaseDevice` on core 1 and the VCHIQ callback on core
0, one step per access to `m_State`, `m_nWritePos`, `m_nCompletePos` or the
number of buffered bytes.  VICE reopens (`SoundInit`: `Cancel`, then `Playback`
and `Start`), writes (`AddChunk`) and sets the volume.  A message is accepted or
fails; the GPU is external: it answers what it is asked, once, and sends one
COMPLETE for each whole chunk it was given after a START.  Nothing is assumed of
the order of a RESULT and a COMPLETE.  Positions are counted in chunks of
`CHUNK_SIZE`.  An assert that fails stops the model and is named in `asserted`.
What the chunks contain and the rate limiter of `AddChunk` are left out: when
VICE writes is free.

### NetSockets, Modem

`NetSockets` is the socket table with its peek buffer and the VICE socket layer
above it; `Modem` EXTENDS it with the devices of `rs232-raspi-dev.c`, so both
users compete for the same handles.  Bytes carry the number of their connection
and their place in it, which is what lets a property tell a byte that went to
the wrong holder.  Everything here runs on core 1; the network is external and
connects, fails, sends and closes as it likes.  A line of the C64 is one step.
`ConnectResult` is the return value the code really gives (0 for success), and
both callers are modelled with the test they really make.

### FileTable, FileStore, FileTableMC

`_open`, `_close`, `_read`, `_write`, `_lseek` and `_stat`, one step each, since
all calls come from one core; every way in which one fails is a disjunct or an
action of its own.  FatFs is external: a `FIL` is open for reading or writing,
closed, or failed, and `Faults` names the calls that may fail.

`FileStore` is the promise of the header comment (`new_io.cpp:23-55`): a handle
has the whole file, reads and writes use that copy, only a close puts it on the
card, a call that fails changes nothing else.  `ImplementsStore` is the
refinement: `HandleOf` maps a table entry, wherever its contents are, to a
handle.  The store says what the code can keep: if `Lossy`, which stands for
`"f_write" \in Faults`, a close may cut a file short without telling
(`StoreCloseShort`), and otherwise not.

Shortcuts, each exact for the calls the program makes: the size of a file is the
length of its contents; the read pointer of a `FIL` that is read is the position
of its entry; a seek past the end, which the code answers with an assert, is not
made; a file opened for reading is not written (the C library refuses); a file
that is being written is not opened again, and a file that is open is not opened
to be written, unless every handle of it has its own copy (`MayOpen`, an
assumption about the callers).  A write grows the file within `MaxLen`.

### Options, Boot

`Options` is the constructor of `ViceOptions` as a function of the tokens of the
line, with the chains that derive a clock and a timing option.  `Boot` is the
start: `Initialize` step by step on core 0, each device failing at will; the
restore of the safe kernel image block by block, where FatFs writes the size at
the close, reads and writes may fail, and power may go at any step; core 1
started half-way and waiting for `launch_`; cores 2 and 3 counting themselves
(with plus4emu core 1 counts for them, `CountForOthers`);
the sound device made under the lock, where `Playback` waits for answers that
reach the program through an interrupt of core 0, while a key report on core 0
spins for that lock (`KeyReport`, `KeyQueued`).  After a loss of power everything
but the card is as at the first start.  Then the USB volumes that the file menu
mounts and lists.

## 3. Checks

Nine runs pass.  Each property has a mutant in `PROJECT.json`: a definition with
a plausible mistake, under which TLC finds the property violated.  The types are
not repeated in the runs: where a module has proofs they are proved, and
elsewhere the comment at each variable says what it holds.

| Run | States | Checks |
|---|---|---|
| `event_ring` | 59,330 | every event handled once and in order; refinement of `EventQueue`; every event handled in the end |
| `input_pipeline` | 636,983 | the machine runs with the UI on only for an OSD; a menu always has its trap; a released key stays down in the emulator only if its release was routed to the menu; the countdown opens the menu after the F12 release was submitted; the countdown ends, events arrive, the slot empties |
| `sound_device` | 50,995 | the positions differ by the chunks in flight; no chunk of one playback is counted for the next; with one message failing anywhere; and without a failure every call into the device returns |
| `modem` | 40,674 | each stream is received whole and in order by its own holder; every handle has one holder; a device passes bytes exactly when it has a connection |
| `file_table` | 249,464 | what the calls assume of an entry (`FilAsAssumed`); when a file on the card may change (`SafeUntilClosed`); refinement of `FileStore`; with every FatFs call failing at will |
| `frames` | 276,396 | no call meets a layer in the wrong state (`CallsLegal`); what the clients believe is on the screen is (`LayersMatchFlags`) and what is enabled is shown after a frame (`EnabledIsShown`); the shader's copies are current (`ShaderCurrent`); each frame shows the picture just drawn (`FrameIsSeen`); a synchronised frame waits for a vertical blank (`PacedByVblank`) |
| `boot` | 51,340 | the emulator finds everything set up and the boot list in force; one sound device, after the tables; the kernel image is whole unless something failed; options mean what the line says; a volume's list is of that volume; the boot ends, but for the one deadlock of section 4 |
| `reports` | 1,692,507 | what is pressed is pressed where it was sent, and released there, but for the direction of an F12: emulator, menu, joystick ports; no pin is driven that must not be |
| `menu_stack` | 2,678,030 | the cursor is in view on an item; an item that is no more is used by one of several keys in a round, or by a handler that pops its menu and reads its item after, and by nothing else (`LossesAreExplained`); callbacks match pushes; a closed menu is empty; a choice is an enabled one, or one past a last one that is disabled |

Bounds.

- *Rings*: two slots, two pushing cores of which one also drains, two keys, four
  events: the ring wraps twice and both cores meet at the lock in every step of a
  push.
- *Pipeline*: F12, Return, a modifier and a second key, five reports: a whole
  combination takes four, a key held across a menu four, and one more falls
  anywhere.
- *Sound*: two reopens and two writes of up to two pieces after the two chunks of
  `Start`, one volume change, one failure: a playback is started, cancelled in
  every phase and started again.
- *Network*: two handles, two devices, three connections of two bytes, three
  lines: the table is full while both devices and VICE want a handle, and each
  handle is used again after a close.
- *Files*: two files, two handles, contents up to two bytes of two values, reads
  of every length, seeks from every origin: a file that grows, shrinks, is empty,
  absent, or on the boot list.
- *Frames*: two pictures, palettes and geometries, so that stale and current
  differ; a machine with one display whose picture, palette and geometry change
  together with the menu's and with both overlays, and one with two displays.
  There is no bound on the number of steps.
- *Boot*: three starts of the machine, so that a restore may be cut, be repeated
  and be booted from; two key reports; a kernel image of three blocks and a
  shorter safe one; a boot list longer than its arrays, with comments, legacy
  lines and lines that lack a field; command lines of up to three tokens out of
  every option and value class; three USB drives of which one cannot be mounted.
- *Reports*: a cursor key and F12, both of which a key set has too, and a
  modifier; two buttons and three positions of a pad, which one port has or both,
  where the hat and a button are one key to the menu and the other button is
  bound to a key of the number pad; the mouse; the pins in each configuration, on five boards (one without
  switches, one with two that mean the same to the menu), starting in any
  configuration; two changes of a
  keyboard's or pad's assignment or of the pins, one of the mouse's.  A first
  change makes the state stale, a second one undoes it.
- *Menu*: five slots of the stack, two rows, batches of two keys, every kind of
  item, every shape of handler, those that read their item late included, and a
  list whose last choices are disabled, as those of the GPIO configurations are
  with DPI (`menu.c:3793-3799`).

Fairness.  Core 1 does nothing but run the main loop, core 0's callbacks are
interrupts or tasks that nothing blocks for ever, and a call that was begun runs
on: weak fairness of the main loop (`InputPipeline`), of the drain and of each
core inside its critical section (`EventRing`), of core 1 inside a call and of
the callback (`SoundDevice`), and of each core's steps (`Boot`).  In `EventRing`
the spin lock is not assumed fair: a core that waits for it at a push may wait
for ever, the drain may not, since pushes are finite.  In `Boot` taking the lock
is strongly fair: core 1 holds it for a moment once a frame, and a core that waits
tests it all the time.  Users, VICE's writes, peers, failures
and losses of power have no fairness.

Deadlock is checked for the rings, the pipeline and the frames, where the main
loop always has a step.  The other models may stop: VICE has made its last call,
an assert has failed, core 0 has halted, or every bound is used up.

## 4. Where code and comments disagree

Three runs each check one sentence of the repository and end in a counterexample.

| Run | Says | Does |
|---|---|---|
| `sound_playback_assert` | `assert(!IsActive())` after `Cancel` (`vicesound.cpp:42`) | the callback has tested the state Cancelled, core 1 finds nothing to wait for, stops the device and sets Idle, then the callback writes Terminating (`vicesoundbasedevice.cpp:427-428`): the device is active for ever, and a reopen halts the machine.  No message has to fail |
| `modem_carrier` | `ATDT` opens a TCP connection, then CONNECT (`rs232-raspi-dev.c:8`) | `circle_net_tcp_connect` returns 0 for success and the modem takes 0 for failure (`rs232-raspi-dev.c:147`, `kernel.cpp:1843`) |
| `file_close_short` | "Dump contents of memory buffer to actual file." (`new_io.cpp:427`) | a failed or short `f_write` is ignored and `_close` returns 0 |

Met while modelling, without a run of their own:

- Quick functions: "Queue a quick function request for the main loop. Interrupt
  safe." (`circle.h:366`) is one slot.  A second request overwrites the first,
  and one that comes while a function runs is cleared with it (`ui.c:714-717`).
- `_stat`: "Fastfail or fastsucceed" (`new_io.cpp:643`), but the `return 0` is
  outside the test of the name (`new_io.cpp:650`): the first stat line of the
  boot list answers for every path.
- `vice_network_client` reads the result of a connect the same wrong way as the
  modem (`circle_network.cpp:49`, `circle.h:291`), so it hands out sockets whose
  connection failed.
- `Cancel` waits for ever after a chunk whose data packet failed: the write
  position is advanced before the data is sent (`vicesoundbasedevice.cpp:355`)
  and no COMPLETE comes.  This is why `CallsReturn` speaks of calls without a
  failure.
- A `Start` that fails at its second chunk leaves the state Error with the first
  one playing, and its COMPLETE meets `assert(0)` (`vicesoundbasedevice.cpp:408`);
  in the model `asserted = "Callback"`.
- `Cancel` yields in its waiting loop on core 1, which `vicesound.cpp:99-100`
  says corrupts the task state of core 0; and `src_buffer` survives `Cancel`, so
  the silence of `vicesound.cpp:103` is the caller's last buffer from the second
  `Start` on.
- The header of the modem promises `+++ATH`; while connected nothing looks at the
  bytes (`rs232-raspi-dev.c:214`).
- Closing a file that was opened for both and not written closes its `FIL` twice
  and returns EIO (`new_io.cpp:451-455`; `CloseUnwritten`); reading an empty
  file that was opened for both goes to a closed `FIL` (`new_io.cpp:474`;
  `ReadFails`).
- The countdown of two does not give the emulator a frame between the F12
  release and the menu (`ui.c:702-705`): a decrement may lie between the push
  and the arming, and the release is then only dequeued.  `MenuAfterSubmit`
  states what is true.
- A quick function served as the trap is left shows its dialog in the trap,
  against `menu_reset_osd.c:56`.
- The boot can stop for good (`Stuck` in `Boot`): `Playback` waits with the
  kernel's lock for answers that come through an interrupt of core 0, and a key
  report on core 0 spins for the lock with interrupts off (`kernel.cpp:1530`).
  `BootEnds` names this as its exception.
- plus4emu's core 1 counts for cores 2 and 3 ("Temp solution",
  `plus4emu/main.c:770`): its sound starts whether or not they are through.
- A loss of power during the restore leaves no kernel that boots, since the image
  is truncated before it is written (`viceapp.cpp:511`); `RestoredIsSafe` has
  `faults = 0` as its premise.
- `CHANGELOG.md:229` says "up to 3 USB thumb drives": they share one file system
  object (`viceapp.cpp:584`), `usbN_mounted` is set even when the mount failed
  (`menu.c:2933-2941`), and `circle_unmount_usb` is never called.  What
  `CardIsListedAsCard` says of the SD card would fail of the drives.
- Options: `viceoptions.cpp:178` repeats the branch above it, so `pal-custom`
  with DPI and no clock does not fall back; most chains do not name `ntsc-dpi`
  and `pal-dpi`, which then take the default's values; a last line of
  `bootstat.txt` without a newline is ignored.
- Menus: `ui_pop_menu` tests `on_popped_to` of one root and calls that of
  another (`ui.c:1196`); Return can step past the last choice (`ui.c:629`), and
  does in the list of GPIO configurations with DPI (`menu.c:3793-3799`);
  `ui_push_menu` does not clear `cursor_listener_func`; `ui_set_cur_pos` compares
  with a `max_index` of the drawing before.
- Handlers read the item that the pop before has freed, with one Return on a menu
  as it is drawn: `select_file` (`menu.c:1524-1525`), `up_dir` and `enter_dir`
  (`menu.c:1836-1837`, `1850-1851`), the change of volume (`menu.c:2947-2949`),
  the last three in `relist_files_after_dir_change` (`menu.c:1738`).
  `LossesAreExplained` names them as its second case.
- A key set may hold F12 (`menu_keyset.c:60-64`), whose press a joystick port
  takes and whose release none is told (`kbd.c:443-456`): the direction stays
  down.  `EmulatorSeesKeys` has it as an exception.
- `menu.c:673-697` keeps two ports from both having the mouse, and nothing else:
  with the same gamepad on two ports `emu_set_joy_usb_interrupt` tells the first
  one alone (`joy.c:415-421`), and the other keeps what it had.  `JoyFollowsPad`
  speaks of the first port.
- Pins: the potentiometer bits are combined by AND and OR with what another port
  has left (`videoarch.c:517-535`); pins that drove the user port stay outputs
  when the configuration changes to none (`kernel.cpp:1495-1518`).
- Layers: `fbl.cpp:449-450` speaks of the output size of every frame, but the
  uniform is set in `ShaderInit` alone; the palette's texture is never deleted; a
  hidden layer whose shader was destroyed is still rendered, to nothing.

## 5. Proofs

TLAPS checks all proofs from nothing with the backends SMT (Z3), Zenon and LS4.

| Theorem | For every | Argument |
|---|---|---|
| `TypeCorrect`, `InvariantHolds`, `NothingLostOrReordered`, `RingImplementsQueue` (EventRingProofs) | set of cores and keys, ring size, `MaxPending <= Size` | `RingInvariant` is inductive.  Order and loss alone are not: one needs who owns the lock, that a storing core has room, what the live slots hold and what a half-finished push has stored.  Its heart is `DistinctSlots`: two positions less than `Size` apart never share a slot.  For the refinement, the mapped queue is shown to be `pushed` without its handled part |
| `MenuAlwaysHasTrap`, `OnlyOsdAtSync`, `PipelineTypeCorrect`, `MenuAlwaysAfterSubmit` (InputPipelineProofs) | set of keys, number of reports | `MenuHasTrap` is inductive with the types of the four flags it speaks of.  For the countdown, `Submitted` says where the F12 release is while the countdown is at each of its values |
| `StuckOnlyIfAstray` (InputPipelineProofs) | the same, with `ModifierKey # MenuKey` | `Paired` speaks of every position of both rings: a release in the ring has its press before it or already in the emulator (`PressesPaired`), and a swallowed second key was never pressed in the emulator (`ComboSwallowed`).  `LatchedAppend` is what an event adds to the keys that end up down |
| `PinsAlwaysSafe` (DeviceProofs) | board, options, bindings, data directions, hardware | inductive with the types of the pins.  `ResetSafe` says of the entry into each configuration, and `UserportSafe` of each new data direction, that the pins stay safe for the configuration they are in |
| `JoyAlwaysFollowsPad` (DeviceProofs) | buttons and their functions, positions, assignments | `Follows`: what was shown last is what the handler remembers of hat, axes and buttons, in each mode of the pad; without that a report that changes nothing could follow one that was never told.  `ButtonsShape` takes the buttons one by one from the principle of the least counterexample (`Least`) |
| `EmulatorAlwaysSeesKeys`, `MenuAlwaysSeesKeys` (DeviceProofs) | keys and modifiers, key sets, buttons, boards, matrix, pin bindings | below |
| `SoundTypeCorrect`, `SoundInvariantHolds`, `PositionsAlwaysMatch`, `IdleAlwaysQuiet`, `ReportNeverTooHigh` (DeviceProofs, of `SoundSpec`) | number of writes, pieces, reopens, volume changes and failures | the three properties are inductive only together with what `Cancel` has established at each of its points (`CancelKnows`), what `Start` relies on (`StartKnows`) and the states both sides can be in together (`StatesAgree`) |
| `ModemTypeCorrect`, `OneHolderAlways`, `PassesAlwaysToSocket` (ModemProofs) | table size, number of devices, connections, bytes | inductive together, with the bound that a socket never hands out more than came in |
| `StreamAlwaysInOrder` (ModemProofs) | the same | inductive with `FreeUnpeeked`: a free entry has no byte of an earlier connection in its peek buffer.  `BytesFollow` is what a receive adds to a stream |
| `FilesTypeCorrect`, `FilAlwaysAsAssumed`, `SafeAlways` (FileTableProofs) | files, contents, boot lists, faults, number of handles | `FilAsAssumed` with the types and `Unshared`, which says of the table what `MayOpen` says of a call: without it a write could change a file under a reader |
| `FilesImplementStore` (FileTableProofs) | the same | one lemma per call that its effect on the mapped handles is a step of the store; the move to memory at a seek is a stutter of the data; a close that `f_write` cuts short is a step of a store that is `Lossy` |
| `BootTypeCorrect`, `OneSoundAlways` (BootProofs) | command lines, boot lists, images, calls that fail, starts | `ChainInvariant`: what is ready is a prefix of the order of `Initialize`, which decides how far the other cores can be; `SoundInvariant`: how sound, lock and count go with the places of the cores |
| `EmulatorAlwaysFindsAll` (BootProofs) | the same, with a boot list of which a line counts (`ListCounts`) | from the chain, and `ListInvariant` for the time the list is in force |
| `RestoreAlwaysSafe` (BootProofs) | the same | while nothing has failed, what is copied is the beginning of the safe image (`CopyGrows`), and the whole of it at the close |
| `CardAlwaysListedAsCard` (BootProofs) | number of sticks, mounts that fail | with `VolumesInvariant`: what each of the two file system objects has mounted; the sticks share one, the card has its own |
| `OptionsAlwaysMeanWhatTheySay` (BootProofs) | command lines of any length, words that are numbers | `Means` says of the tokens read so far what the property says of the line, and holds after each by `OneToken` and `LastUpto`; `Finished` is the end of the constructor |
| `FrameInvariant`, `CallsAlwaysLegal`, `LayersAlwaysMatchFlags`, `ShaderAlwaysCurrent`, `FrameAlwaysSeen`, `EnabledAlwaysShown`, `AlwaysPacedByVblank` (FrameClientsProofs) | machine, pictures, palettes, geometries | `Invariant` with `Held`.  Each layer is `Good` by itself (what is showing is allocated, a compiled shader has copies of the layer's settings), and one lemma per method of `FrameBufferLayer` says when it keeps that; the clients' flags are those of the layers (`FlagsMatch`), the menu's as far as it is kept (`MenuMatches`), and `Stage` says what each phase of a round starts from.  `Held` is what the last frame promised |
| `StackInvariant`, `CallbacksAlwaysMatch`, `ClosedAlwaysClean`, `ChoicesAlwaysEnabled`, `CursorAlwaysInView`, `LossesAlwaysExplained` (MenuStackProofs) | menus, lists of choices, handlers, depth of the stack, length of a batch | below |

The stack of menus.  `IInv` says of every slot what its types are, and of the
whole: slot 0 is the root and is never popped (`Rooted`); an OSD is on exactly
if a menu opened as one is on the stack (`OsdKept`); the raw monitor is on exactly
if its page is, and the timing test only then (`EndsKept`); above such a page
there are pages without items only, and nothing at all unless a key was acted on
after the menu had closed (`EndsOnTop`), without which the end of the timing test
would pop another menu; a menu that closed, with the same exception, is empty
(`ClosedEmpty`).  All of it holds until `lost`, after which the code is
undefined.  For the cursor, `Seen` says that every menu that is not `blind` has
it in its window and on one of its items, whether it was drawn or not, and
`Shown` is what a drawing makes of it.

That nothing is `lost` but by a key that finds its menu other than it was drawn,
or one on an item whose handler reads it when it is freed
(`LossesAlwaysExplained`), takes three arguments.  The stack: a state is `Safe` if
each menu is in a slot it may be in and an OSD would have one on top of it;
`LevelBefore` follows a handler's script from slot to slot, `RanTo` says that
after each of its steps the states are safe with the menu on top where the script
has it (`StepSafe`, `RunSafe`), and every other operation keeps `Safe`.  The item:
a menu that is `UpToDate` has one (`ItemFound`), and `IInv` has the top menu
`Shown`, or a new result, when a round copies its keys, so the first key of a
round finds it up to date unless the menu is blind.  The search: started where
the drawing was right, `ui_find_first` is after i turns on the i-th item from
where it began, round the end (`Sought`, `SearchSought`), and each turn has an
item under the cursor, so it comes back to its start before it has seen more than
there are.  The attempt corrected the model and the property: dialogs are drawn at
once, and the result of a timing test is not, which the property now allows for and
which `CursorInView` had allowed for any menu without an item.  The choices are shown
enabled by how far each of the three steps can run before it meets an enabled
choice or its start (`NextFrom`): left and right go round, Return stops at the
place behind the last at the latest.

The code's loops
(`ui_to_top`, `ui_find_first`, `ui_pop_all_and_toggle`, a handler's script) are
recursive functions; their lemmas (`UpLoop` and its kin) are proved once from
the principle of the least counterexample (`Least`, `Induct`, `Iteration`) and
say that what every step keeps, the loop keeps.

What the emulator sees.  The property compares the emulator's keys with those
held, and is not inductive: it does not say which handler will release a key.
`SeesInvariant` names a `Source` for every key that the emulator has and that is
not excused: a key the keyboard's handler remembers as down, a button the pad's
handler remembers, a contact of the matrix or a bound pin that the scan
remembers.  Conversely what the keyboard or the matrix remembers was told
(`DownIsTold`, `MatrixTold`), to a joystick port where one takes it.  The handlers
work in loops that menus and assignments interrupt, so a report that was begun
before such a change is excused as a whole (`TodoExcused`).  `KeySink` says what
one key does to the emulator, the menu and the ports, whether captured,
translated, taken by a port or none; the loops over a report's keys, the 64
contacts and the 23 pins are recursive functions, taken through their turns by
`Looped` and `Induct`.  The attempt corrected the model: the names under which a
held key is excused had left out the moves of its translation (`Left` for a
shifted `Right`), which a key set may hold, and so could call a direction
nobody's that the key had caused.  A key set may hold F12: `TakenBy` is empty for
its release, and `Untold` is the excuse that the invariant needs for its
direction.

What the menu sees.  Here too the property does not say who will release a key,
and it fails in the middle of a handler.  `MenuInvariant` compares the menu's
keys with `Says`, the menu's names of what the handler of the device remembers:
apart from the excused, the menu has down only what is in `Says` and lacks of it
only what is `doubled`.  Within a handler `Fits(s, now, before, known)` says the
same of a sink `s` half way: `now` is what is remembered so far, `before` what
was at the start, `known` what may differ.  `ToldFits` is one thing told and
remembered, `MovesFit` the directions of a stick; the loops carry `Fits` from
turn to turn, and `MenuNext` turns it into the invariant at the end.  The turns
also need that each key comes once and has changed (`TodoFresh`, `MatrixFits`,
`PinsFit`): a key told twice as released would be unexplained.  The attempt
corrected the property: as first stated, without `doubled`, it held on the
instance only because no two sources of it had one name, and the instance has
such sources now.

Assumptions.  The `ASSUME`s on constants say no more than that numbers are
numbers, that sizes are positive, that `None` and `Free` are not ordinary values
and that kernel images and command lines are sequences; those of `MenuStack` are described there.
Of the devices: the keys of a report are different keys and the modifiers have
bits of their own and F12 is none of them (`KeyAssumption`; `kernel.cpp:1329`
goes through the key codes, and through one modifier bit after the other
before), each contact of the
matrix is another key and none is the restore key (`MatrixAssumption`, as in `kernel.cpp:65-86`), pins are bound among the first 23
(`BindingsAssumption`, `circle.h:54`), and a key set's keys move a joystick and
are not one of the fixed sets (`KeysetAssumption`).  Three theorems have premises of their own.
`MaxPending <= Size` is in the remarks on EventRing.  The first key of a
combination is Commodore or Control; the premise says that no keymap puts it on
F12.  With a
`bootstat.txt` in which no line counts, the list is empty from the start, and
what `EmulatorFindsAll` says of a list in force does not apply.

Only model-checked: the six liveness properties, since fairness and ENABLED are
out of the prover's reach, and the violations.  Every other property that a
passing run checks is a theorem.

## 6. Not modelled, and why

- `new_io.cpp`: directories, `chdir`, `_fstat` and the growth of buffers.
- `kernel.cpp`: sending, name resolution and raw frames, which keep no state of
  ours; the network task that the end of the boot starts, which Circle's
  scheduler runs.
- Modem: the reply ring, reduced to the last response.
- Menu: ranges and text fields (one more kind of choice, without a list), and the
  contents of the menus, one setter of a VICE resource per item.
- Reports: two of the four joystick ports; the others are copies of them.
- Virtual keyboard: its latched keys and its cursor.  When it is shown is in
  `FrameClients`, and how it queues a key in `EventRing`.
- The rate limiter of `AddChunk` (`vicesound.cpp:67`), whose microsecond clock
  wraps.
- Drawing: fonts, bars, pictures.  OpenGL and dispmanx calls are external.
- The TFTP server: a thin subclass of a class of Circle.
- VICE, plus4emu, resampling libraries, shaders, build scripts: vendored.

## 7. Plan

1. `RateLimiter`: the clock of `AddChunk` modulo its width.
2. The latched keys of the virtual keyboard, against the drain.
3. Ranges and text fields in `MenuStack`.
