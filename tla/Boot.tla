-------------------------------- MODULE Boot --------------------------------
(***************************************************************************)
(* From power-on to the first frames: Initialize on core 0 (viceapp.cpp)   *)
(* with the recovery of the kernel image, the other cores that Initialize  *)
(* starts (viceemulatorcore.cpp, plus4emulatorcore.cpp), and the sound,    *)
(* which core 1 starts under the kernel's lock once cores 2 and 3 are      *)
(* through.  Then the USB volumes that the file menu mounts.               *)
(*                                                                         *)
(* A step of the model ends where another core can see what was done.  The *)
(* lock is a variable only where it is held across a wait: every other     *)
(* critical section is one step, taken when the lock is free.  Power may   *)
(* fail at any time.  Circle, FatFs and the GPU are external: a call may   *)
(* fail where the code tests or ignores its result, FatFs writes the size  *)
(* of a file when it is closed, and the GPU's answers reach the program    *)
(* through an interrupt of core 0.                                         *)
(***************************************************************************)
EXTENDS Options, FiniteSets

CONSTANTS
  CmdLines,    \* command lines that the options are checked with
  BootLines,   \* and those that the machine is booted with
  Machines,    \* "vice" and "plus4emu": the two kinds of emulator core
  BootStat,    \* lines of bootstat.txt, or NoValue: there is none
  MaxList,     \* MAX_BOOTSTAT_LINES
  Images,      \* [old, safe]: the blocks of the two kernel images
  Faults,      \* the calls that may fail: device names, "f_open", ...
  Sticks,      \* USB drives that are plugged in, of 1 .. 3
  NoFat,       \* those of them that cannot be mounted
  MaxPower,    \* bound of the model: times the machine is started
  MaxKeys      \* bound of the model: key reports

VARIABLES
  machine, line,      \* which program this is, and its command line
  kernel,             \* the file kernel8-32.img: its blocks
  out, copied, torn,  \* the restore: dst's blocks, src's position, f_write failed
  pc,                 \* where each core is
  ready,              \* what Initialize has set up
  launch,             \* launch_
  bootList,           \* the list given to CGlueStdioInitBootStat
  owner,              \* CKernel::m_Lock: the core that holds it, or 9
  tables,             \* mNumCoresComplete
  late,               \* mNeedSoundInit
  sound,              \* mViceSound: how often created, and how far
  fs,                 \* the FATFS objects: the drive each is mounted with
  mounted,            \* usb1_mounted, usb2_mounted, usb3_mounted
  current, shown,     \* current_volume_name, and the drive that was listed
  powered, keys, faults \* counters: power-ons, key reports, failures

restoreVars == << kernel, out, copied, torn >>
soundVars == << owner, tables, late, sound >>
volumeVars == << fs, mounted, current, shown >>
counters == << powered, keys, faults >>
vars == << machine, line, restoreVars, pc, ready, launch, bootList, soundVars,
           volumeVars, counters >>

Free == 9
SD == 0
opts == ViceOptions(line)

\* Initialize of ViceApp, ViceScreenApp and ViceStdioApp, in order.
Order == << "serial", "stdio", "interrupt", "logger", "cores", "timer", "gpio",
            "vchiq", "pins", "layers", "emmc", "sd" >>

Block == {Images.old[i] : i \in DOMAIN Images.old}
         \union {Images.safe[i] : i \in DOMAIN Images.safe}
\* The card is no stick: it is mounted before anything else.
\* A command line is a sequence of tokens.
ASSUME LinesAssumption == CmdLines \subseteq Seq([opt : STRING, val : {NoValue} \union STRING])
ASSUME SticksAssumption == Sticks \subseteq 1 .. 3 /\ NoFat \subseteq Sticks /\ NoValue \notin 0 .. 3
ASSUME ImagesAssumption == Images.old \in Seq(Block) /\ Images.safe \in Seq(Block)

\* Every variable that the proofs speak of has its type.
TypeOK ==
  /\ machine \in Machines /\ line \in BootLines
  /\ kernel \in Seq(Block) /\ out \in Seq(Block) /\ copied \in Nat /\ torn \in BOOLEAN
  /\ ready \subseteq {Order[i] : i \in DOMAIN Order} \union {"list", "usb"}
  /\ launch \in BOOLEAN /\ late \in BOOLEAN
  /\ owner \in {0, 1, Free} /\ tables \in 0 .. 2
  /\ sound.made \in Nat /\ sound.state \in {"none", "starting", "on"}

-----------------------------------------------------------------------------
(* Power.                                                                  *)

\* What a start of the processor finds: memory is gone, the card is not.
\* Without a whole kernel image the firmware has nothing to start.
Bootable == kernel \in {Images.old, Images.safe}
PoweredOn ==
  /\ out' = << >> /\ copied' = 0 /\ torn' = FALSE
  /\ pc' = [c \in 0 .. 3 |-> IF c > 0 THEN "off" ELSE IF Bootable THEN "init" ELSE "dead"]
  /\ ready' = {} /\ launch' = FALSE /\ bootList' = << >>
  /\ owner' = Free /\ tables' = 0 /\ late' = FALSE
  /\ sound' = [made |-> 0, state |-> "none"]
  /\ fs' = [o \in {"SD", "USB1"} |-> NoValue]
  /\ mounted' = {} /\ current' = SD /\ shown' = SD
  /\ powered' = powered + 1 /\ keys' = 0
  /\ UNCHANGED << machine, line, kernel >>

Init ==
  /\ machine \in Machines /\ line \in BootLines
  /\ kernel = Images.old
  /\ out = << >> /\ copied = 0 /\ torn = FALSE
  /\ pc = [c \in 0 .. 3 |-> IF c > 0 THEN "off" ELSE "init"]
  /\ ready = {} /\ launch = FALSE /\ bootList = << >>
  /\ owner = Free /\ tables = 0 /\ late = FALSE
  /\ sound = [made |-> 0, state |-> "none"]
  /\ fs = [o \in {"SD", "USB1"} |-> NoValue]
  /\ mounted = {} /\ current = SD /\ shown = SD
  /\ powered = 1 /\ keys = 0 /\ faults = 0

Restoring == pc[0] \in {"copy", "close"}

\* Somebody pulls the plug, or reboot() is called at the end of a restore.
PowerFails ==
  /\ powered < MaxPower
  /\ faults' = IF Restoring THEN faults + 1 ELSE faults
  /\ PoweredOn
Reboot == pc[0] = "reboot" /\ powered < MaxPower /\ PoweredOn /\ UNCHANGED faults

-----------------------------------------------------------------------------
(* Core 0: Initialize.                                                     *)

Goto(core, label) == pc' = [pc EXCEPT ![core] = label]
May(call) == call \in Faults
Fail == faults' = faults + 1

\* One call of the chain.  What it sets up is ready, or main() halts core 0.
InitStep ==
  /\ pc[0] = "init"
  /\ LET step == Order[Cardinality(ready) + 1] IN
     \/ /\ ready' = ready \union {step}
        /\ pc' = [c \in 0 .. 3 |->
                    IF c = 0 THEN IF step = "sd" THEN "fire" ELSE "init"
                    ELSE IF step # "cores" THEN pc[c]
                    ELSE IF c = 1 THEN "wait" ELSE "tables"]
        /\ fs' = IF step = "sd" THEN [fs EXCEPT !["SD"] = SD] ELSE fs
        /\ UNCHANGED faults
     \/ /\ May(step) /\ Fail
        /\ Goto(0, "halt")
        /\ UNCHANGED << ready, fs >>
  /\ UNCHANGED << machine, line, restoreVars, launch, bootList, soundVars,
                  mounted, current, shown, powered, keys >>

\* The fire buttons are read: pressed, the kernel image is restored.
ReadFire ==
  /\ pc[0] = "fire"
  /\ \E low \in BOOLEAN : Goto(0, IF low THEN "open" ELSE "list")
  /\ UNCHANGED << machine, line, restoreVars, ready, launch, bootList, soundVars,
                  volumeVars, counters >>

RestoreStep ==
  UNCHANGED << machine, line, ready, launch, bootList, soundVars, volumeVars, powered, keys >>

\* Both images are opened, dst with FA_CREATE_ALWAYS.  When src or dst cannot
\* be opened the machine reboots all the same.
\* Mutant: opened without FA_CREATE_ALWAYS.
OpenAlways == kernel
CreateAlways == << >>
OpenImages ==
  /\ pc[0] = "open"
  /\ \/ /\ kernel' = CreateAlways
        /\ Goto(0, "copy") /\ UNCHANGED faults
     \/ /\ May("f_open") /\ Fail
        /\ Goto(0, "reboot") /\ UNCHANGED kernel
  /\ UNCHANGED << out, copied, torn >>
  /\ RestoreStep

\* One turn of the loop.  The result of f_write is not looked at, and FatFs
\* refuses every write to a file after one has failed.
CopyBlock ==
  /\ pc[0] = "copy" /\ copied < Len(Images.safe)
  /\ \/ /\ ~torn
        /\ out' = Append(out, Images.safe[copied + 1])
        /\ copied' = copied + 1
        /\ UNCHANGED << pc, torn, faults >>
     \/ /\ torn \/ May("f_write")
        /\ torn' = TRUE /\ Fail
        /\ copied' = copied + 1
        /\ UNCHANGED << pc, out >>
     \/ /\ May("f_read") /\ Fail
        /\ Goto(0, "close") /\ UNCHANGED << out, copied, torn >>
  /\ UNCHANGED kernel
  /\ RestoreStep
CopyEnds ==
  /\ pc[0] = "copy" /\ copied = Len(Images.safe)
  /\ Goto(0, "close")
  /\ UNCHANGED << restoreVars, faults >>
  /\ RestoreStep

\* What overwrites the beginning of a file leaves the rest of it.
Overwrite(new, old) == new \o SubSeq(old, Len(new) + 1, Len(old))
CloseImages ==
  /\ pc[0] = "close"
  /\ \/ kernel' = Overwrite(out, kernel) /\ UNCHANGED faults
     \/ May("f_close") /\ Fail /\ UNCHANGED kernel
  /\ Goto(0, "reboot")
  /\ UNCHANGED << out, copied, torn >>
  /\ RestoreStep

\* InitBootStat.  A line of bootstat.txt is [what, file, size], where a field
\* may be missing (NoValue).  The last line counts only when a line follows it
\* or it ends with a newline: BootStat has no other.
Legacy == {<< "stat", "d1541II" >>, << "fail", "rpi_pos.vkm" >>}
Listed(l) == /\ NoValue \notin {l.what, l.file, l.size}
             /\ l.what \in {"stat", "fail"} /\ << l.what, l.file >> \notin Legacy
ReadBootStat ==
  LET lines == SelectSeq(BootStat, Listed) IN
  SubSeq(lines, 1, IF Len(lines) < MaxList THEN Len(lines) ELSE MaxList)
InitBootStat ==
  /\ pc[0] = "list"
  /\ bootList' = IF machine = "plus4emu" \/ BootStat = NoValue THEN << "default" >>
                 ELSE ReadBootStat
  /\ ready' = ready \union {"list"}
  /\ Goto(0, "launch")
  /\ UNCHANGED << machine, line, restoreVars, launch, soundVars, volumeVars, counters >>

\* LaunchEmulator, with mTimingOption = TimingOption(opts.timing).
LaunchEmulator ==
  /\ pc[0] = "launch"
  /\ launch' = TRUE
  /\ Goto(0, "usb")
  /\ UNCHANGED << machine, line, restoreVars, ready, bootList, soundVars, volumeVars, counters >>

\* mUSBHCII.Initialize, then Run registers the USB handlers and core 0 sleeps.
InitUSB ==
  /\ pc[0] = "usb"
  /\ \/ ready' = ready \union {"usb"} /\ Goto(0, "run") /\ UNCHANGED faults
     \/ May("usb") /\ Fail /\ Goto(0, "halt") /\ UNCHANGED ready
  /\ UNCHANGED << machine, line, restoreVars, launch, bootList, soundVars,
                  volumeVars, powered, keys >>

\* A key report: its handler spins for the lock with interrupts disabled.
KeyReport ==
  /\ pc[0] = "run" /\ keys < MaxKeys
  /\ keys' = keys + 1
  /\ Goto(0, "spin")
  /\ UNCHANGED << machine, line, restoreVars, ready, launch, bootList, soundVars,
                  volumeVars, powered, faults >>
KeyQueued ==
  /\ pc[0] = "spin" /\ owner = Free
  /\ Goto(0, "run")
  /\ UNCHANGED << machine, line, restoreVars, ready, launch, bootList, soundVars,
                  volumeVars, counters >>

-----------------------------------------------------------------------------
(* Cores 2 and 3, and core 1.                                              *)

CoreStep == UNCHANGED << machine, line, restoreVars, ready, launch, volumeVars, counters >>

\* Run of ViceEmulatorCore calls circle_kernel_core_init_complete on cores 2
\* and 3; Run of Plus4EmulatorCore does not.
CoreDone(c) ==
  /\ pc[c] = "tables"
  /\ \/ machine = "vice" /\ owner = Free /\ tables' = tables + 1
     \/ machine = "plus4emu" /\ UNCHANGED tables
  /\ Goto(c, "idle")
  /\ UNCHANGED << owner, late, sound, bootList >>
  /\ CoreStep

\* RunMainVice waits for launch_, then runs main_program.
\* Mutant: without the wait.
LaunchedAtOnce == TRUE
Launched == launch
RunMain ==
  /\ pc[1] = "wait" /\ Launched
  /\ Goto(1, "main")
  /\ UNCHANGED << soundVars, bootList >>
  /\ CoreStep

\* main_program of plus4emu does it for them, twice, before its boot completes.
CountForOthers ==
  /\ machine = "plus4emu"
  /\ pc[1] = "main" /\ owner = Free /\ tables < 2
  /\ tables' = tables + 1
  /\ UNCHANGED << pc, owner, late, sound, bootList >>
  /\ CoreStep

\* Mutant: one table is taken for both.
OneTableDone == tables >= 1
TablesDone == tables >= 2

\* new ViceSound and Playback, with the lock held until the GPU has answered.
StartSound(from) ==
  /\ owner' = 1
  /\ sound' = [made |-> sound.made + 1, state |-> "starting"]
  /\ Goto(1, from)
  /\ UNCHANGED << tables, late >>

\* circle_boot_complete, in the postsync that ends the boot warp.
BootComplete ==
  /\ pc[1] = "main" /\ owner = Free
  /\ machine = "plus4emu" => tables = 2
  /\ \/ TablesDone /\ StartSound("bootSound")
     \/ /\ ~TablesDone
        /\ late' = TRUE
        /\ Goto(1, "booted")
        /\ UNCHANGED << owner, tables, sound >>
  /\ UNCHANGED bootList
  /\ CoreStep

\* Mutant: waits for three cores.
LateSoundAllCores ==
  /\ pc[1] = "frame" /\ owner = Free
  /\ late /\ tables >= 3
  /\ StartSound("lateSound")
  /\ UNCHANGED bootList
  /\ CoreStep

\* The first part of circle_check_gpio, once a frame.
LateSound ==
  /\ pc[1] = "frame" /\ owner = Free
  /\ late /\ TablesDone
  /\ StartSound("lateSound")
  /\ UNCHANGED bootList
  /\ CoreStep

\* Playback returns when core 0 has taken the interrupts with the answers.
TakesInterrupts == pc[0] \notin {"spin", "halt"}
SoundStarted ==
  /\ pc[1] \in {"bootSound", "lateSound"} /\ TakesInterrupts
  /\ sound' = [sound EXCEPT !.state = "on"]
  /\ late' = FALSE
  /\ owner' = Free
  /\ Goto(1, IF pc[1] = "bootSound" THEN "booted" ELSE "frame")
  /\ UNCHANGED << tables, bootList >>
  /\ CoreStep

\* The rest of circle_boot_complete: DisableBootStat.
DisableBootStat ==
  /\ pc[1] = "booted"
  /\ bootList' = << >>
  /\ Goto(1, "frame")
  /\ UNCHANGED soundVars
  /\ CoreStep

-----------------------------------------------------------------------------
(* Volumes (menu.c, viceapp.cpp).                                          *)

\* The FATFS object that f_mount is given for a volume, and what FatFs does
\* with it: the object forgets its drive and is mounted with the volume's.
\* Mutant: one object for all volumes.
OneObject(v) == "SD"
ObjectOf(v) == IF v = SD THEN "SD" ELSE "USB1"
DriveAfter(v) == IF v \in NoFat THEN NoValue ELSE v
circle_mount_usb(v) == [fs EXCEPT ![ObjectOf(v)] = DriveAfter(v)]

\* Listing a volume: FatFs mounts the drive if the object has none.
Listing(v, table) ==
  LET d == table[ObjectOf(v)] IN IF d = NoValue THEN DriveAfter(v) ELSE d

\* MENU_SUB_CHANGE_VOLUME and the listing that follows it.
ChangeVolume(v) ==
  /\ pc[1] = "frame"
  /\ LET table == IF v \in mounted \union {SD} THEN fs ELSE circle_mount_usb(v) IN
     /\ shown' = Listing(v, table)
     /\ fs' = [table EXCEPT ![ObjectOf(v)] = shown']
  /\ mounted' = mounted \union ({v} \ {SD})
  /\ current' = v
  /\ UNCHANGED << machine, line, restoreVars, pc, ready, launch, bootList, soundVars, counters >>

-----------------------------------------------------------------------------
Core0 == InitStep \/ ReadFire \/ OpenImages \/ CopyBlock \/ CopyEnds \/ CloseImages
         \/ InitBootStat \/ LaunchEmulator \/ InitUSB \/ KeyReport \/ KeyQueued
Core1 == RunMain \/ CountForOthers \/ BootComplete \/ LateSound \/ SoundStarted \/ DisableBootStat

Next ==
  \/ Core0 \/ Core1
  \/ \E c \in 2 .. 3 : CoreDone(c)
  \/ \E v \in {SD} \union Sticks : ChangeVolume(v)
  \/ PowerFails \/ Reboot

\* Every core runs on, and a core that spins for the lock while the others take
\* it now and then gets it.
Spec ==
  /\ Init /\ [][Next]_vars
  /\ WF_vars(InitStep \/ ReadFire \/ OpenImages \/ CopyBlock \/ CopyEnds
             \/ CloseImages \/ InitBootStat \/ LaunchEmulator \/ InitUSB)
  /\ SF_vars(KeyQueued) /\ \A c \in 2 .. 3 : SF_vars(CoreDone(c))
  /\ WF_vars(RunMain \/ CountForOthers \/ SoundStarted \/ DisableBootStat)
  /\ SF_vars(BootComplete) /\ SF_vars(LateSound)

-----------------------------------------------------------------------------
(* Properties.                                                             *)

\* Core 1, which Initialize starts half-way through, enters the emulator only
\* when the card is mounted and the layers, the pins and the GPU are set up; it
\* boots with the fast list in force and runs without it (LaunchEmulator,
\* RunMainVice, DisableBootStat).
EmulatorFindsAll ==
  pc[1] \notin {"off", "wait"} =>
     /\ {"timer", "vchiq", "pins", "layers", "sd", "list"} \subseteq ready
     /\ pc[1] \in {"frame", "lateSound"} <=> bootList = << >>

\* There is one sound device at most.  It is created when both tables are
\* counted, and with VICE both cores have then done theirs, by core 1 with the
\* lock, and is never promised for later once it exists (circle_boot_complete,
\* circle_check_gpio, circle_kernel_core_init_complete).
OneSoundAfterTables ==
  /\ sound.made <= 1
  /\ sound.state # "none" => /\ tables = 2
                             /\ machine = "vice" => \A c \in 2 .. 3 : pc[c] = "idle"
  /\ sound.state = "starting" <=> owner = 1
  /\ sound.state = "on" => ~late
  /\ pc[1] = "frame" => late \/ sound.made = 1

\* The one way the boot stops for good: Playback waits with the lock for answers
\* that core 0 no longer takes.
Stuck == pc[1] \in {"bootSound", "lateSound"} /\ ~TakesInterrupts

\* Without a power failure the emulator that was entered reaches its frames with
\* the sound on, and a key report is queued; unless a key report came while
\* Playback held the lock, or the USB host failed and core 0 has stopped.
BootEnds ==
  /\ pc[1] = "main" ~> \/ pc[1] = "frame" /\ sound.state = "on"
                       \/ Stuck \/ pc[1] = "off"
  /\ pc[0] = "spin" ~> pc[0] # "spin" \/ Stuck

\* The kernel image is the old one or the safe one, whole, unless something has
\* failed; and a restore in which nothing failed ends with the safe one
\* (ViceStdioApp::Initialize, README "Safe Boot").
RestoredIsSafe ==
  faults = 0 =>
     /\ Bootable \/ Restoring
     /\ pc[0] = "reboot" => kernel = Images.safe

\* The options mean what the command line says: the standard and the connector
\* are those of the last timing it names, each switch has its last word, DPI
\* takes the serial port away, a custom timing has a clock unless it is PAL's
\* with DPI, and the machine's clock is one of the standard's, the DPI constants
\* apart, which most chains do not name (the constructor of ViceOptions,
\* circle_cycles_per_second).
OptionsMeanWhatTheySay ==
  powered = 1 /\ pc[0] = "init" /\ ready = {} => \A l \in CmdLines :
     LET o == ViceOptions(l) IN
     /\ TimingOption(o.timing) = IF AsksNtsc(l) THEN "-ntsc" ELSE "-pal"
     /\ o.dpi = AsksFor(l, "enable_dpi")
     /\ o.serial = (AsksFor(l, "enable_serial") /\ ~o.dpi)
     /\ o.gpioOut = AsksFor(l, "enable_gpio_outputs")
     /\ o.cycles = Clock(l)
     /\ o.timing \in Custom /\ o.cycles = 0 => o.timing = "pal-custom-dpi"
     /\ \A f \in DOMAIN Named :
          o.timing \notin Custom \union {"ntsc-dpi", "pal-dpi"} =>
             CyclesPerSecond(f, o) \in
               IF AsksNtsc(l) THEN {Named[f].ntsc, Named[f].ntscComposite}
                              ELSE {Named[f].pal, Named[f].palComposite}

\* What is listed as the SD card is the SD card, whatever was mounted since
\* (circle_mount_usb, filesystem_change_volume).
CardIsListedAsCard == current = SD <=> shown = SD
=============================================================================
