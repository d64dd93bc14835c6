----------------------------- MODULE BootProofs -----------------------------
(***************************************************************************)
(* Proofs about Boot, for any command lines, boot lists, kernel images,    *)
(* calls that fail and number of starts.                                   *)
(*                                                                         *)
(* The chain of Initialize decides how far the other cores can be: that is *)
(* ChainInvariant, on which what the emulator finds rests.  SoundInvariant *)
(* says what the sound, the lock and the count of the tables have to do    *)
(* with where the cores are, RestoreInvariant how much of the safe image   *)
(* has been copied, and VolumesInvariant which drives the two FATFS        *)
(* objects can be mounted with.  Means says what the options are while the *)
(* constructor of ViceOptions is reading the command line.                 *)
(***************************************************************************)
EXTENDS Boot, FiniteSetTheorems, SequenceTheorems, WellFoundedInduction, TLAPS

Prefix(k) == {Order[i] : i \in 1 .. k}
Chain == Prefix(12)
Early == {"fire", "open", "copy", "close", "reboot", "list"}
Running == {"usb", "run", "spin", "halt"}

Core0At == {"init", "launch", "dead"} \union Early \union Running
Core1At == {"off", "wait", "main", "bootSound", "booted", "frame", "lateSound"}
OtherAt == {"off", "tables", "idle"}

\* Where the cores can be.
Labels ==
  /\ pc \in [0 .. 3 -> Core0At \union Core1At \union OtherAt]
  /\ pc[0] \in Core0At /\ pc[1] \in Core1At /\ pc[2] \in OtherAt /\ pc[3] \in OtherAt

\* How far Initialize is, and what has been started by then.
ChainInvariant ==
  /\ pc[0] = "init" => \E k \in 0 .. 11 :
        ready = Prefix(k) /\ (k < 5 => \A c \in 1 .. 3 : pc[c] = "off")
  /\ pc[0] \in Early => ready = Chain
  /\ pc[0] = "launch" \/ launch => Chain \union {"list"} \subseteq ready
  /\ launch => pc[0] \in Running
  /\ pc[1] \notin {"off", "wait"} => launch

Done(c) == IF pc[c] = "idle" THEN 1 ELSE 0
SoundInvariant ==
  /\ tables \in 0 .. 2 /\ (machine = "vice" => tables = Done(2) + Done(3))
  /\ sound \in [made : 0 .. 1, state : {"none", "starting", "on"}]
  /\ owner \in {1, Free} /\ late \in BOOLEAN
  /\ sound.state = "none" <=> sound.made = 0
  /\ sound.state = "starting" <=> owner = 1
  /\ owner = 1 <=> pc[1] \in {"bootSound", "lateSound"}
  /\ sound.state # "none" => tables = 2
  /\ sound.state = "on" => ~late
  /\ pc[1] \in {"off", "wait", "main"} => sound.made = 0 /\ ~late
  /\ pc[1] \in {"booted", "frame"} => late \/ sound.made = 1

\* The list is in force from its setting to DisableBootStat.
ListInvariant ==
  /\ (pc[0] = "launch" \/ launch) /\ pc[1] \notin {"frame", "lateSound"} => bootList # << >>
  /\ pc[1] \in {"frame", "lateSound"} => bootList = << >>

RestoreInvariant ==
  /\ faults \in Nat
  /\ faults = 0 =>
       /\ pc[0] # "dead"
       /\ Restoring => kernel = << >> /\ ~torn /\ copied \in 0 .. Len(Images.safe)
                       /\ out = SubSeq(Images.safe, 1, copied)
       /\ ~Restoring => Bootable
       /\ pc[0] \in {"init", "fire", "open"} => out = << >> /\ copied = 0 /\ ~torn
       /\ pc[0] = "close" => copied = Len(Images.safe)
       /\ pc[0] = "reboot" => kernel = Images.safe

CoresInvariant == Labels /\ ChainInvariant /\ SoundInvariant

-----------------------------------------------------------------------------
(* The chain.                                                              *)

\* Each call adds a thing that is not there yet.
LEMMA PrefixGrows ==
  ASSUME NEW k \in 0 .. 11
  PROVE  /\ Prefix(k + 1) = Prefix(k) \union {Order[k + 1]}
         /\ Order[k + 1] \notin Prefix(k)
  <1>1. \A i \in 1 .. k + 1 : i \in 1 .. k \/ i = k + 1
    OBVIOUS
  <1>2. \A i \in 1 .. k : Order[i] # Order[k + 1]
    BY DEF Order
  <1>. QED BY <1>1, <1>2 DEF Prefix

LEMMA PrefixCardinality ==
  ASSUME NEW k \in 0 .. 12
  PROVE  IsFiniteSet(Prefix(k)) /\ Cardinality(Prefix(k)) = k
  <1> DEFINE P(j) == IsFiniteSet(Prefix(j)) /\ Cardinality(Prefix(j)) = j
  <1>1. P(0)
    BY FS_EmptySet DEF Prefix
  <1>2. ASSUME NEW j \in 0 .. 11, P(j) PROVE P(j + 1)
    <2>1. Prefix(j + 1) = Prefix(j) \union {Order[j + 1]} /\ Order[j + 1] \notin Prefix(j)
      BY PrefixGrows
    <2>2. IsFiniteSet(Prefix(j)) /\ Cardinality(Prefix(j)) = j
      BY <1>2
    <2>. QED BY <2>1, <2>2, FS_AddElement
  <1> HIDE DEF P
  <1>3. P(1) /\ P(2) /\ P(3) /\ P(4)
    BY <1>1, <1>2
  <1>4. P(5) /\ P(6) /\ P(7) /\ P(8)
    BY <1>2, <1>3
  <1>5. P(9) /\ P(10) /\ P(11) /\ P(12)
    BY <1>2, <1>4
  <1>6. P(k)
    BY <1>1, <1>3, <1>4, <1>5
  <1>. QED BY <1>6 DEF P

-----------------------------------------------------------------------------
(* Where the cores are.                                                    *)

LEMMA CoresStart == Init => CoresInvariant
  <1> SUFFICES ASSUME Init PROVE CoresInvariant
    OBVIOUS
  <1>1. Prefix(0) = {}
    BY DEF Prefix
  <1>2. pc = [c \in 0 .. 3 |-> IF c > 0 THEN "off" ELSE "init"] /\ ready = {} /\ ~launch
    BY DEF Init
  <1>3. Labels
    BY <1>2 DEF Labels, Core0At, Core1At, OtherAt, Early, Running
  <1>4. ChainInvariant
    <2>1. 0 \in 0 .. 11 /\ ready = Prefix(0) /\ \A c \in 1 .. 3 : pc[c] = "off"
      BY <1>1, <1>2
    <2>. QED BY <1>2, <2>1 DEF ChainInvariant, Early, Running
  <1>5. SoundInvariant
    <2>1. Done(2) = 0 /\ Done(3) = 0 /\ tables = 0
      BY <1>2 DEF Init, Done
    <2>2. sound = [made |-> 0, state |-> "none"] /\ owner = Free /\ pc[1] = "off"
      BY <1>2 DEF Init
    <2>3. sound.made = 0 /\ sound.state = "none"
      BY <2>2
    <2>4. sound \in [made : 0 .. 1, state : {"none", "starting", "on"}]
      BY <2>2
    <2>5. late \in BOOLEAN /\ ~late
      BY Zenon DEF Init
    <2>6. tables \in 0 .. 2 /\ tables = Done(2) + Done(3)
      BY <2>1
    <2>. QED BY <2>2, <2>3, <2>4, <2>5, <2>6 DEF SoundInvariant, Free
  <1>. QED BY <1>3, <1>4, <1>5 DEF CoresInvariant

\* A start of the machine, whatever the card holds.
LEMMA CoresPowered ==
  ASSUME PoweredOn PROVE CoresInvariant'
  <1>1. Prefix(0) = {}
    BY DEF Prefix
  <1>2. /\ pc' = [c \in 0 .. 3 |-> IF c > 0 THEN "off" ELSE IF Bootable THEN "init" ELSE "dead"]
        /\ ready' = {} /\ ~launch'
    BY DEF PoweredOn
  <1>3. Labels'
    BY <1>2 DEF Labels, Core0At, Core1At, OtherAt, Early, Running
  <1>4. ChainInvariant'
    <2>1. 0 \in 0 .. 11 /\ ready' = Prefix(0) /\ \A c \in 1 .. 3 : pc'[c] = "off"
      BY <1>1, <1>2
    <2>. QED BY <1>2, <2>1 DEF ChainInvariant, Early, Running
  <1>5. SoundInvariant'
    <2>1. Done(2)' = 0 /\ Done(3)' = 0 /\ tables' = 0
      BY <1>2 DEF PoweredOn, Done
    <2>2. sound' = [made |-> 0, state |-> "none"] /\ owner' = Free /\ pc'[1] = "off"
      BY <1>2 DEF PoweredOn
    <2>3. sound'.made = 0 /\ sound'.state = "none"
      BY <2>2
    <2>4. sound' \in [made : 0 .. 1, state : {"none", "starting", "on"}]
      BY <2>2
    <2>5. late' \in BOOLEAN /\ ~late'
      BY Zenon DEF PoweredOn
    <2>6. tables' \in 0 .. 2 /\ tables' = Done(2)' + Done(3)'
      BY <2>1
    <2>. QED BY <2>2, <2>3, <2>4, <2>5, <2>6 DEF SoundInvariant, Free
  <1>. QED BY <1>3, <1>4, <1>5 DEF CoresInvariant

\* One call of the chain.
LEMMA CoresInit ==
  ASSUME CoresInvariant, InitStep PROVE CoresInvariant'
  <1> USE DEF CoresInvariant, InitStep
  <1>1. PICK k \in 0 .. 11 : ready = Prefix(k) /\ (k < 5 => \A c \in 1 .. 3 : pc[c] = "off")
    BY DEF ChainInvariant
  <1>2. Cardinality(ready) = k
    BY <1>1, PrefixCardinality
  <1>3. ~launch /\ pc[1] \in {"off", "wait"}
    BY DEF ChainInvariant, Running
  <1> DEFINE step == Order[k + 1]
  <1>4. (step = "sd" <=> k = 11) /\ (step = "cores" <=> k = 4)
    BY DEF Order
  <1>5. CASE ready' = ready \union {step} /\ pc' = [c \in 0 .. 3 |->
                    IF c = 0 THEN IF step = "sd" THEN "fire" ELSE "init"
                    ELSE IF step # "cores" THEN pc[c]
                    ELSE IF c = 1 THEN "wait" ELSE "tables"]
    <2>1. Labels'
      BY <1>5 DEF Labels, Core0At, Core1At, OtherAt, Early, Running
    <2>2. ready' = Prefix(k + 1)
      BY <1>1, <1>5, PrefixGrows
    <2>3. ChainInvariant'
      BY <1>1, <1>3, <1>4, <1>5, <2>2 DEF ChainInvariant, Labels, Early, Running, Chain
    <2>4. SoundInvariant'
      BY <1>1, <1>3, <1>4, <1>5 DEF SoundInvariant, Labels, Done, soundVars
    <2>. QED BY <2>1, <2>3, <2>4
  <1>6. CASE pc' = [pc EXCEPT ![0] = "halt"] /\ UNCHANGED ready
    <2>1. Labels'
      BY <1>6 DEF Labels, Core0At, Core1At, OtherAt, Running
    <2>2. ChainInvariant'
      BY <1>3, <1>6 DEF ChainInvariant, Labels, Early, Running
    <2>3. SoundInvariant'
      BY <1>6 DEF SoundInvariant, Labels, Done, soundVars
    <2>. QED BY <2>1, <2>2, <2>3
  <1>. QED BY <1>2, <1>5, <1>6 DEF Goto

\* The other steps of core 0, which leave the sound alone.
LEMMA CoresZero ==
  ASSUME CoresInvariant,
         Core0, ~InitStep
  PROVE  CoresInvariant'
  <1> USE DEF CoresInvariant
  <1>0. pc[0] \notin {"init", "dead", "halt"} /\ UNCHANGED << machine, soundVars >> /\ \E l \in Core0At : pc' = [pc EXCEPT ![0] = l]
    BY DEF Core0, ReadFire, OpenImages, CopyBlock, CopyEnds, CloseImages, InitBootStat, LaunchEmulator, InitUSB,
           KeyReport, KeyQueued, RestoreStep, Goto, Core0At, Early, Running, Labels
  <1>1. Labels'
    BY <1>0 DEF Labels
  <1>2. SoundInvariant'
    <2>1. \A c \in 1 .. 3 : pc'[c] = pc[c]
      BY <1>0 DEF Labels
    <2>2. /\ machine' = machine /\ pc'[1] = pc[1] /\ Done(2)' = Done(2) /\ Done(3)' = Done(3)
          /\ owner' = owner /\ tables' = tables /\ late' = late /\ sound' = sound
      BY <1>0, <2>1 DEF soundVars, Done
    <2>. QED BY <2>2 DEF SoundInvariant
  <1>3. CASE ReadFire \/ OpenImages \/ CopyBlock \/ CopyEnds \/ CloseImages
    BY <1>3 DEF ReadFire, OpenImages, CopyBlock, CopyEnds, CloseImages, RestoreStep, Goto, ChainInvariant, Labels, Early, Running
  <1>4. CASE InitBootStat
    <2>1. /\ pc[0] = "list" /\ pc'[0] = "launch" /\ pc'[1] = pc[1]
          /\ launch' = launch /\ ready' = ready \union {"list"}
      BY <1>4 DEF InitBootStat, Goto, Labels
    <2>. QED BY <1>1, <1>2, <2>1 DEF ChainInvariant, Early, Running
  <1>5. CASE LaunchEmulator
    <2>1. /\ pc[0] = "launch" /\ pc'[0] = "usb" /\ pc'[1] = pc[1]
          /\ launch' /\ ready' = ready
      BY <1>5 DEF LaunchEmulator, Goto, Labels
    <2>. QED BY <1>1, <1>2, <2>1 DEF ChainInvariant, Early, Running
  <1>6. CASE InitUSB
    <2>1. /\ pc[0] = "usb" /\ pc'[0] \in {"run", "halt"} /\ pc'[1] = pc[1]
          /\ launch' = launch /\ ready \subseteq ready'
      BY <1>6 DEF InitUSB, Goto, Labels
    <2>. QED BY <1>1, <1>2, <2>1 DEF ChainInvariant, Early, Running
  <1>7. CASE KeyReport \/ KeyQueued
    <2>1. /\ pc[0] \in {"run", "spin"} /\ pc'[0] \in {"run", "spin"} /\ pc'[1] = pc[1]
            /\ launch' = launch /\ ready' = ready
      BY <1>7 DEF KeyReport, KeyQueued, Goto, Labels
    <2>. QED BY <1>1, <1>2, <2>1 DEF ChainInvariant, Early, Running
  <1>. QED BY <1>1, <1>2, <1>3, <1>4, <1>5, <1>6, <1>7 DEF Core0

\* Cores 2 and 3 count themselves once.
LEMMA CoresOther ==
  ASSUME CoresInvariant, NEW c \in 2 .. 3, CoreDone(c)
  PROVE  CoresInvariant'
  <1> USE DEF CoresInvariant, CoreDone, CoreStep, Goto
  <1>1. Labels'
    BY DEF Labels, OtherAt
  <1>2. ChainInvariant'
    BY DEF ChainInvariant, Labels, Early, Running
  <1>3. SoundInvariant'
    <2>1. CASE c = 2
      BY <2>1 DEF SoundInvariant, Labels, Done
    <2>2. CASE c = 3
      BY <2>2 DEF SoundInvariant, Labels, Done
    <2>. QED BY <2>1, <2>2
  <1>. QED BY <1>1, <1>2, <1>3

\* What StartSound does where no sound has been made.
Started(from) ==
  /\ owner' = 1 /\ late' = late /\ pc'[1] = from
  /\ sound'.made = 1 /\ sound'.state = "starting"
  /\ sound' \in [made : 0 .. 1, state : {"none", "starting", "on"}]

\* Core 1.
LEMMA CoresOne ==
  ASSUME CoresInvariant,
         RunMain \/ BootComplete \/ LateSound \/ SoundStarted \/ DisableBootStat
  PROVE  CoresInvariant'
  <1> USE DEF CoresInvariant, CoreStep, Goto
  <1>0. launch' = launch /\ ready' = ready /\ \E l \in Core1At \ {"off", "wait"} : pc' = [pc EXCEPT ![1] = l]
    BY DEF RunMain, BootComplete, LateSound, SoundStarted, DisableBootStat, StartSound, Core1At
  <1>1. Labels'
    BY <1>0 DEF Labels
  <1>2. launch
    BY DEF RunMain, Launched, BootComplete, LateSound, SoundStarted, DisableBootStat, ChainInvariant
  <1>3. ChainInvariant'
    BY <1>0, <1>2 DEF ChainInvariant, Labels, Early, Running
  <1>4. machine' = machine /\ tables' = tables /\ Done(2)' = Done(2) /\ Done(3)' = Done(3)
    BY <1>0 DEF RunMain, BootComplete, LateSound, SoundStarted, DisableBootStat, StartSound, soundVars, Done, Labels
  <1> HIDE DEF Done
  <1>5. CASE RunMain \/ DisableBootStat
    BY <1>5, <1>1, <1>3, <1>4 DEF RunMain, DisableBootStat, SoundInvariant, Labels, soundVars
  <1>6. CASE BootComplete
    <2>1. pc[1] = "main" /\ owner = Free /\ sound.made = 0 /\ sound.state = "none"
      BY <1>6 DEF BootComplete, SoundInvariant
    <2>2. CASE TablesDone /\ StartSound("bootSound")
      <3>1. Started("bootSound")
        BY <2>1, <2>2 DEF StartSound, Started, Labels, SoundInvariant
      <3>2. tables = 2
        BY <2>2 DEF TablesDone, SoundInvariant
      <3>3. ~late
        BY <2>1 DEF SoundInvariant
      <3>. QED BY <1>1, <1>3, <1>4, <3>1, <3>2, <3>3 DEF Started, SoundInvariant, Free
    <2>3. CASE ~TablesDone /\ late' = TRUE /\ pc' = [pc EXCEPT ![1] = "booted"] /\ UNCHANGED << owner, tables, sound >>
      <3>1. pc'[1] = "booted" /\ late' /\ late' \in BOOLEAN /\ owner' = Free /\ sound' = sound
        BY <2>1, <2>3 DEF Labels
      <3>. QED BY <1>1, <1>3, <1>4, <2>1, <3>1 DEF SoundInvariant, Free
    <2>. QED BY <1>6, <2>2, <2>3 DEF BootComplete
  <1>7. CASE LateSound
    <2>1. pc[1] = "frame" /\ owner = Free /\ late /\ sound.made = 0
      BY <1>7 DEF LateSound, SoundInvariant
    <2>2. Started("lateSound")
      BY <1>7, <2>1 DEF LateSound, StartSound, Started, Labels, SoundInvariant
    <2>3. tables = 2
      BY <1>7 DEF LateSound, TablesDone, SoundInvariant
    <2>. QED BY <1>1, <1>3, <1>4, <2>1, <2>2, <2>3 DEF Started, SoundInvariant, Free
  <1>8. CASE SoundStarted
    <2>1. pc[1] \in {"bootSound", "lateSound"} /\ owner = 1 /\ sound.state = "starting" /\ sound.made = 1 /\ tables = 2
      BY <1>8 DEF SoundStarted, SoundInvariant
    <2>2. /\ sound'.made = 1 /\ sound'.state = "on"
          /\ sound' \in [made : 0 .. 1, state : {"none", "starting", "on"}]
      BY <1>8, <2>1 DEF SoundStarted, SoundInvariant
    <2>3. late' \in BOOLEAN /\ ~late'
      BY <1>8, Zenon DEF SoundStarted
    <2>4. owner' = Free /\ pc'[1] \in {"booted", "frame"}
      BY <1>8 DEF SoundStarted, Labels
    <2>. QED BY <1>1, <1>3, <1>4, <2>1, <2>2, <2>3, <2>4 DEF SoundInvariant, Free
  <1>. QED BY <1>5, <1>6, <1>7, <1>8

\* Core 1 of plus4emu counts while there is no sound.
LEMMA CoresCounted ==
  ASSUME CoresInvariant, CountForOthers
  PROVE  CoresInvariant'
  <1>1. /\ machine' = machine /\ machine # "vice" /\ pc' = pc /\ pc[1] = "main"
        /\ tables < 2 /\ tables' = tables + 1
        /\ UNCHANGED << owner, late, sound, ready, launch >>
    BY DEF CountForOthers, CoreStep
  <1>2. Labels' /\ ChainInvariant'
    BY <1>1 DEF CoresInvariant, Labels, ChainInvariant
  <1>3. sound.state = "none" /\ tables' \in 0 .. 2
    BY <1>1 DEF CoresInvariant, SoundInvariant
  <1>4. SoundInvariant'
    BY <1>1, <1>3 DEF CoresInvariant, SoundInvariant
  <1>. QED BY <1>2, <1>4 DEF CoresInvariant

LEMMA CoresNext == CoresInvariant /\ [Next]_vars => CoresInvariant'
  <1> SUFFICES ASSUME CoresInvariant, [Next]_vars PROVE CoresInvariant'
    OBVIOUS
  <1>1. CASE InitStep
    BY <1>1, CoresInit
  <1>2. CASE Core0 /\ ~InitStep
    BY <1>2, CoresZero
  <1>3. CASE Core1
    BY <1>3, CoresOne, CoresCounted DEF Core1
  <1>4. ASSUME NEW c \in 2 .. 3, CoreDone(c) PROVE CoresInvariant'
    BY <1>4, CoresOther
  <1>5. ASSUME NEW v \in {SD} \union Sticks, ChangeVolume(v) PROVE CoresInvariant'
    BY <1>5 DEF ChangeVolume, CoresInvariant, Labels, ChainInvariant, SoundInvariant, soundVars, Done
  <1>6. CASE PowerFails \/ Reboot
    BY <1>6, CoresPowered DEF PowerFails, Reboot
  <1>7. CASE UNCHANGED vars
    BY <1>7 DEF vars, CoresInvariant, Labels, ChainInvariant, SoundInvariant, soundVars, Done
  <1>. QED BY <1>1, <1>2, <1>3, <1>4, <1>5, <1>6, <1>7 DEF Next

\* There is one sound device at most, created with the lock after both tables.
THEOREM OneSoundAlways == Spec => []OneSoundAfterTables
  <1>1. CoresInvariant => OneSoundAfterTables
    <2>1. SUFFICES ASSUME CoresInvariant PROVE OneSoundAfterTables
      OBVIOUS
    <2>2. machine = "vice" /\ tables = 2 => pc[2] = "idle" /\ pc[3] = "idle"
      BY <2>1 DEF CoresInvariant, SoundInvariant, Done
    <2>3. \A c \in 2 .. 3 : c = 2 \/ c = 3
      OBVIOUS
    <2>. QED BY <2>1, <2>2, <2>3 DEF CoresInvariant, SoundInvariant, OneSoundAfterTables
  <1>. QED BY <1>1, CoresStart, CoresNext, PTL DEF Spec

-----------------------------------------------------------------------------
(* The list.                                                               *)

\* A bootstat.txt that is there has a line that counts.
ListCounts == BootStat # NoValue => ReadBootStat # << >>

LEMMA ListNext == ListCounts /\ CoresInvariant /\ ListInvariant /\ [Next]_vars => ListInvariant'
  <1> SUFFICES ASSUME ListCounts, CoresInvariant, ListInvariant, [Next]_vars PROVE ListInvariant'
    OBVIOUS
  <1> USE DEF Goto, Labels
  <1>0. /\ Labels
        /\ launch => pc[0] \in Running
        /\ pc[1] \notin {"off", "wait"} => launch
    BY DEF CoresInvariant, ChainInvariant
  <1>1. CASE InitStep
    <2>1. ~launch
      BY <1>0, <1>1 DEF InitStep, Running
    <2>2. pc'[0] \in {"init", "fire", "halt"} /\ pc'[1] \in {"off", "wait"} /\ launch' = launch
      BY <1>0, <1>1, <2>1 DEF InitStep
    <2>. QED BY <2>1, <2>2 DEF ListInvariant
  <1>2. CASE ReadFire \/ OpenImages \/ CopyBlock \/ CopyEnds \/ CloseImages
    <2>1. ~launch /\ pc'[0] # "launch" /\ pc'[1] = pc[1] /\ launch' = launch /\ bootList' = bootList
      BY <1>0, <1>2 DEF ReadFire, OpenImages, CopyBlock, CopyEnds, CloseImages, RestoreStep, Running
    <2>. QED BY <2>1 DEF ListInvariant
  <1>3. CASE InitBootStat
    <2>1. bootList' # << >>
      BY <1>3 DEF InitBootStat, ListCounts
    <2>2. pc'[1] = pc[1] /\ ~launch
      BY <1>0, <1>3 DEF InitBootStat, Running
    <2>. QED BY <1>0, <2>1, <2>2 DEF ListInvariant
  <1>4. CASE LaunchEmulator \/ InitUSB \/ KeyReport \/ KeyQueued
    <2>1. /\ pc'[1] = pc[1] /\ bootList' = bootList /\ pc'[0] # "launch"
          /\ pc[0] = "launch" \/ launch' = launch
      BY <1>0, <1>4 DEF LaunchEmulator, InitUSB, KeyReport, KeyQueued
    <2>. QED BY <1>0, <2>1 DEF ListInvariant, Running
  <1>5. CASE Core1
    <2>1. launch' = launch /\ pc'[0] = pc[0] /\ (launch \/ pc[1] = "wait")
      BY <1>0, <1>5 DEF Core1, CoreStep, RunMain, CountForOthers, BootComplete, StartSound, LateSound, SoundStarted, DisableBootStat
    <2>2. /\ pc[1] \in {"wait", "main", "bootSound"} /\ ~DisableBootStat => pc'[1] \notin {"frame", "lateSound"} /\ bootList' = bootList
          /\ pc[1] \in {"frame", "lateSound"} => pc'[1] \in {"frame", "lateSound"} /\ bootList' = bootList
          /\ DisableBootStat => pc'[1] = "frame" /\ bootList' = << >>
          /\ ~DisableBootStat => pc[1] \in {"wait", "main", "bootSound", "frame", "lateSound"}
      BY <1>0, <1>5 DEF Core1, RunMain, CountForOthers, BootComplete, StartSound, LateSound, SoundStarted, DisableBootStat
    <2>3. RunMain => launch
      BY DEF RunMain, Launched
    <2>4. ~DisableBootStat /\ pc[1] = "wait" => RunMain
      BY <1>5 DEF Core1, CountForOthers, BootComplete, LateSound, SoundStarted
    <2>. QED BY <1>0, <2>1, <2>2, <2>3, <2>4 DEF ListInvariant
  <1>6. ASSUME NEW c \in 2 .. 3, CoreDone(c) PROVE ListInvariant'
    BY <1>0, <1>6 DEF CoreDone, CoreStep, ListInvariant
  <1>7. ASSUME NEW v \in {SD} \union Sticks, ChangeVolume(v) PROVE ListInvariant'
    BY <1>7 DEF ChangeVolume, ListInvariant
  <1>8. CASE PowerFails \/ Reboot
    <2>1. pc'[0] # "launch" /\ pc'[1] = "off" /\ ~launch'
      BY <1>8 DEF PowerFails, Reboot, PoweredOn
    <2>. QED BY <2>1 DEF ListInvariant
  <1>9. CASE UNCHANGED vars
    BY <1>9 DEF vars, ListInvariant
  <1>. QED BY <1>1, <1>2, <1>3, <1>4, <1>5, <1>6, <1>7, <1>8, <1>9 DEF Next, Core0

\* With a boot list that is not empty, the emulator finds everything set up and
\* the list in force until the boot is complete.
THEOREM EmulatorAlwaysFindsAll == ListCounts => (Spec => []EmulatorFindsAll)
  <1> SUFFICES ASSUME ListCounts PROVE Spec => []EmulatorFindsAll
    OBVIOUS
  <1>1. Init => ListInvariant
    <2> SUFFICES ASSUME Init PROVE ListInvariant
      OBVIOUS
    <2>1. pc[0] = "init" /\ pc[1] = "off" /\ ~launch
      BY DEF Init
    <2>. QED BY <2>1 DEF ListInvariant
  <1>2. {"timer", "vchiq", "pins", "layers", "sd", "list"} \subseteq Chain \union {"list"}
    <2>1. \A i \in 1 .. 12 : Order[i] \in Chain
      BY DEF Chain, Prefix
    <2>. QED BY <2>1 DEF Order
  <1>3. CoresInvariant /\ ListInvariant => EmulatorFindsAll
    BY <1>2 DEF CoresInvariant, ChainInvariant, ListInvariant, EmulatorFindsAll
  <1>4. CoresInvariant /\ ListInvariant /\ [Next]_vars => ListInvariant'
    BY ListNext
  <1>. QED BY <1>1, <1>3, <1>4, CoresStart, CoresNext, PTL DEF Spec

-----------------------------------------------------------------------------
(* The types and the restore.                                              *)

LEMMA OverwriteType ==
  ASSUME NEW a \in Seq(Block), NEW b \in Seq(Block)
  PROVE  Overwrite(a, b) \in Seq(Block)
  <1>1. SubSeq(b, Len(a) + 1, Len(b)) \in Seq(Block)
    OBVIOUS
  <1>. QED BY <1>1 DEF Overwrite

LEMMA TypeStart == Init => TypeOK
  <1> SUFFICES ASSUME Init PROVE TypeOK
    OBVIOUS
  <1>1. kernel \in Seq(Block) /\ out \in Seq(Block) /\ copied \in Nat
    BY ImagesAssumption DEF Init
  <1>2. torn \in BOOLEAN /\ launch \in BOOLEAN /\ late \in BOOLEAN
    BY Zenon DEF Init
  <1>3. sound.made \in Nat /\ sound.state \in {"none", "starting", "on"}
    BY DEF Init
  <1>. QED BY <1>1, <1>2, <1>3 DEF Init, TypeOK, Free

LEMMA TypeNext == TypeOK /\ CoresInvariant /\ [Next]_vars => TypeOK'
  <1> SUFFICES ASSUME TypeOK, CoresInvariant, [Next]_vars PROVE TypeOK'
    OBVIOUS
  <1> DEFINE Sound == /\ owner \in {0, 1, Free} /\ tables \in 0 .. 2 /\ late \in BOOLEAN
                      /\ sound.made \in Nat /\ sound.state \in {"none", "starting", "on"}
             Card == kernel \in Seq(Block) /\ out \in Seq(Block) /\ copied \in Nat /\ torn \in BOOLEAN
             Set == ready \subseteq {Order[i] : i \in DOMAIN Order} \union {"list", "usb"} /\ launch \in BOOLEAN
  <1>1. CoresInvariant'
    BY CoresNext
  <1>2. Sound'
    <2>1. tables' \in 0 .. 2
      BY <1>1 DEF CoresInvariant, SoundInvariant
    <2>. QED BY <1>1, <2>1 DEF CoresInvariant, SoundInvariant
  <1>3. Card'
    <2>0. << >> \in Seq(Block)
      OBVIOUS
    <2>1. CASE OpenImages
      BY <2>0, <2>1 DEF OpenImages, CreateAlways, TypeOK
    <2>2. CASE CopyBlock
      <3>1. copied' \in Nat
        BY <2>2 DEF CopyBlock, TypeOK
      <3>2. torn' \in BOOLEAN
        BY <2>2 DEF CopyBlock, TypeOK
      <3>3. Images.safe[copied + 1] \in Block
        BY <2>2, ImagesAssumption DEF CopyBlock, TypeOK
      <3>4. out \in Seq(Block) /\ Append(out, Images.safe[copied + 1]) \in Seq(Block)
        BY <3>3 DEF TypeOK
      <3>5. out' = out \/ out' = Append(out, Images.safe[copied + 1])
        BY <2>2 DEF CopyBlock
      <3>6. out' \in Seq(Block)
        BY <3>4, <3>5
      <3>. QED BY <2>2, <3>1, <3>2, <3>6 DEF CopyBlock, TypeOK
    <2>3. CASE CloseImages
      BY <2>3, OverwriteType DEF CloseImages, TypeOK
    <2>4. CASE PowerFails \/ Reboot
      <3>1. torn' \in BOOLEAN
        BY <2>4, Zenon DEF PowerFails, Reboot, PoweredOn
      <3>2. kernel' = kernel /\ out' = << >> /\ copied' = 0
        BY <2>4 DEF PowerFails, Reboot, PoweredOn
      <3>. QED BY <2>0, <3>1, <3>2 DEF TypeOK
    <2>5. UNCHANGED restoreVars \/ OpenImages \/ CopyBlock \/ CloseImages \/ PowerFails \/ Reboot
      BY DEF Next, Core0, Core1, InitStep, ReadFire, CopyEnds, InitBootStat, LaunchEmulator, InitUSB, KeyReport,
             KeyQueued, CoreDone, CoreStep, RunMain, CountForOthers, BootComplete, LateSound, SoundStarted, DisableBootStat,
             ChangeVolume, vars
    <2>6. CASE UNCHANGED restoreVars
      BY <2>6 DEF restoreVars, TypeOK
    <2>. QED BY <2>1, <2>2, <2>3, <2>4, <2>5, <2>6
  <1>4. Set'
    <2>1. CASE InitStep
      <3>1. PICK k \in 0 .. 11 : ready = Prefix(k)
        BY <2>1 DEF InitStep, CoresInvariant, ChainInvariant
      <3>2. Order[Cardinality(ready) + 1] \in {Order[i] : i \in DOMAIN Order}
        BY <3>1, PrefixCardinality DEF Order
      <3>. QED BY <2>1, <3>2 DEF InitStep, TypeOK
    <2>2. CASE InitBootStat \/ InitUSB
      BY <2>2 DEF InitBootStat, InitUSB, TypeOK
    <2>3. CASE LaunchEmulator \/ PowerFails \/ Reboot
      <3>1. launch' \in BOOLEAN
        BY <2>3, Zenon DEF LaunchEmulator, PowerFails, Reboot, PoweredOn
      <3>. QED BY <2>3, <3>1 DEF LaunchEmulator, PowerFails, Reboot, PoweredOn, TypeOK
    <2>4. UNCHANGED << ready, launch >> \/ InitStep \/ InitBootStat \/ InitUSB \/ LaunchEmulator \/ PowerFails \/ Reboot
      BY DEF Next, Core0, Core1, ReadFire, OpenImages, CopyBlock, CopyEnds, CloseImages, RestoreStep, KeyReport,
             KeyQueued, CoreDone, CoreStep, RunMain, CountForOthers, BootComplete, LateSound, SoundStarted, DisableBootStat,
             ChangeVolume, vars
    <2>5. CASE UNCHANGED << ready, launch >>
      BY <2>5 DEF TypeOK
    <2>. QED BY <2>1, <2>2, <2>3, <2>4, <2>5
  <1>5. machine' = machine /\ line' = line
    BY DEF Next, Core0, Core1, InitStep, ReadFire, OpenImages, CopyBlock, CopyEnds, CloseImages, RestoreStep,
           InitBootStat, LaunchEmulator, InitUSB, KeyReport, KeyQueued, CoreDone, CoreStep, RunMain, CountForOthers, BootComplete,
           LateSound, SoundStarted, DisableBootStat, ChangeVolume, PowerFails, Reboot, PoweredOn, vars
  <1>. QED BY <1>2, <1>3, <1>4, <1>5 DEF TypeOK

\* The types hold for any images, lines, failures and number of starts.
THEOREM BootTypeCorrect == Spec => []TypeOK
  <1>. QED BY TypeStart, TypeNext, CoresStart, CoresNext, PTL DEF Spec

\* What one turn of the copying adds.
LEMMA CopyGrows ==
  ASSUME NEW n \in 0 .. Len(Images.safe) - 1
  PROVE  Append(SubSeq(Images.safe, 1, n), Images.safe[n + 1]) = SubSeq(Images.safe, 1, n + 1)
  BY ImagesAssumption

LEMMA CopyWhole ==
  /\ SubSeq(Images.safe, 1, Len(Images.safe)) = Images.safe
  /\ SubSeq(Images.safe, 1, 0) = << >>
  /\ Overwrite(Images.safe, << >>) = Images.safe
  <1>1. SubSeq(Images.safe, 1, Len(Images.safe)) = Images.safe /\ SubSeq(Images.safe, 1, 0) = << >>
    BY ImagesAssumption
  <1>2. SubSeq(<< >>, Len(Images.safe) + 1, 0) = << >>
    BY ImagesAssumption
  <1>3. Len(<< >>) = 0 /\ Images.safe \o << >> = Images.safe
    BY ImagesAssumption, ConcatEmptySeq
  <1>4. Overwrite(Images.safe, << >>) = Images.safe
    BY <1>2, <1>3 DEF Overwrite
  <1>. QED BY <1>1, <1>4

LEMMA RestoreNext ==
  TypeOK /\ CoresInvariant /\ RestoreInvariant /\ [Next]_vars => RestoreInvariant'
  <1> SUFFICES ASSUME TypeOK, CoresInvariant, RestoreInvariant, [Next]_vars PROVE RestoreInvariant'
    OBVIOUS
  <1> DEFINE Same == UNCHANGED << kernel, out, copied, torn >>
  <1> USE DEF Goto
  <1>0. Labels /\ faults \in Nat
    BY DEF CoresInvariant, RestoreInvariant
  <1>1. CASE InitStep
    <2>1. pc[0] = "init" /\ pc'[0] \in {"init", "fire", "halt"} /\ faults' \in {faults, faults + 1} /\ Same
      BY <1>0, <1>1 DEF InitStep, Fail, restoreVars, Labels
    <2>. QED BY <1>0, <2>1 DEF RestoreInvariant, Restoring, Bootable
  <1>2. CASE ReadFire
    <2>1. pc[0] = "fire" /\ pc'[0] \in {"open", "list"} /\ faults' = faults /\ Same
      BY <1>0, <1>2 DEF ReadFire, restoreVars, counters, Labels
    <2>. QED BY <1>0, <2>1 DEF RestoreInvariant, Restoring, Bootable
  <1>3. CASE OpenImages
    <2>1. CASE kernel' = << >> /\ pc'[0] = "copy" /\ faults' = faults
      <3>1. pc[0] = "open" /\ UNCHANGED << out, copied, torn >>
        BY <1>3 DEF OpenImages
      <3>2. 0 \in 0 .. Len(Images.safe)
        BY ImagesAssumption
      <3>. QED BY <1>0, <2>1, <3>1, <3>2, CopyWhole DEF RestoreInvariant, Restoring
    <2>2. CASE faults' = faults + 1
      BY <1>0, <2>2 DEF RestoreInvariant
    <2>3. pc' = [pc EXCEPT ![0] = "copy"] => pc'[0] = "copy"
      BY <1>0 DEF Labels
    <2>. QED BY <1>3, <2>1, <2>2, <2>3 DEF OpenImages, CreateAlways, Fail
  <1>4. CASE CopyBlock
    <2>1. CASE faults' = faults + 1
      BY <1>0, <2>1 DEF RestoreInvariant
    <2>2. CASE faults' = faults /\ out' = Append(out, Images.safe[copied + 1]) /\ copied' = copied + 1
      <3>1. pc[0] = "copy" /\ pc' = pc /\ kernel' = kernel /\ copied < Len(Images.safe) /\ torn' = torn
        BY <1>0, <1>4, <2>2 DEF CopyBlock, Fail, Labels
      <3>2. SUFFICES ASSUME faults = 0 PROVE RestoreInvariant'
        BY <1>0, <2>2 DEF RestoreInvariant
      <3>3. /\ copied \in 0 .. Len(Images.safe) - 1 /\ copied + 1 \in 0 .. Len(Images.safe)
            /\ out = SubSeq(Images.safe, 1, copied) /\ kernel = << >> /\ ~torn
        BY <3>1, <3>2, ImagesAssumption DEF RestoreInvariant, Restoring
      <3>4. out' = SubSeq(Images.safe, 1, copied')
        BY <2>2, <3>3, CopyGrows
      <3>. QED BY <1>0, <2>2, <3>1, <3>3, <3>4 DEF RestoreInvariant, Restoring
    <2>. QED BY <1>4, <2>1, <2>2 DEF CopyBlock, Fail
  <1>5. CASE CopyEnds
    <2>1. pc[0] = "copy" /\ pc'[0] = "close" /\ copied = Len(Images.safe) /\ faults' = faults /\ Same
      BY <1>0, <1>5 DEF CopyEnds, restoreVars, Labels
    <2>. QED BY <1>0, <2>1 DEF RestoreInvariant, Restoring
  <1>6. CASE CloseImages
    <2>1. CASE faults' = faults + 1
      BY <1>0, <2>1 DEF RestoreInvariant
    <2>2. CASE faults' = faults /\ kernel' = Overwrite(out, kernel)
      <3>1. pc[0] = "close" /\ pc'[0] = "reboot"
        BY <1>0, <1>6 DEF CloseImages, Labels
      <3>2. faults = 0 => out = Images.safe /\ kernel = << >>
        BY <3>1, CopyWhole DEF RestoreInvariant, Restoring
      <3>3. faults = 0 => kernel' = Images.safe
        BY <2>2, <3>2, CopyWhole
      <3>. QED BY <1>0, <2>2, <3>1, <3>3 DEF RestoreInvariant, Restoring, Bootable
    <2>. QED BY <1>6, <2>1, <2>2 DEF CloseImages, Fail
  <1>7. CASE InitBootStat \/ LaunchEmulator \/ InitUSB \/ KeyReport \/ KeyQueued
    <2>1. /\ pc[0] \in {"list", "launch", "usb", "run", "spin"} /\ pc'[0] \in {"launch", "usb", "run", "spin", "halt"}
          /\ faults' \in {faults, faults + 1} /\ Same
      BY <1>0, <1>7 DEF InitBootStat, LaunchEmulator, InitUSB, KeyReport, KeyQueued, Fail, restoreVars, counters, Labels
    <2>. QED BY <1>0, <2>1 DEF RestoreInvariant, Restoring, Bootable
  <1>8. CASE PowerFails \/ Reboot
    <2>1. /\ kernel' = kernel /\ out' = << >> /\ copied' = 0
          /\ pc'[0] = IF Bootable THEN "init" ELSE "dead"
          /\ faults' \in {faults, faults + 1} /\ (Restoring => faults' = faults + 1)
      BY <1>0, <1>8 DEF PowerFails, Reboot, PoweredOn, Restoring
    <2>2. ~torn'
      BY <1>8, Zenon DEF PowerFails, Reboot, PoweredOn
    <2>3. faults' = 0 => Bootable
      BY <1>0, <2>1 DEF RestoreInvariant
    <2>. QED BY <1>0, <2>1, <2>2, <2>3 DEF RestoreInvariant, Restoring, Bootable
  <1>9. CASE Core1 \/ (\E c \in 2 .. 3 : CoreDone(c)) \/ (\E v \in {SD} \union Sticks : ChangeVolume(v)) \/ UNCHANGED vars
    <2>1. pc'[0] = pc[0] /\ faults' = faults /\ Same
      BY <1>0, <1>9 DEF Core1, RunMain, CountForOthers, BootComplete, StartSound, LateSound, SoundStarted, DisableBootStat, CoreDone,
                        CoreStep, ChangeVolume, restoreVars, counters, vars, Labels
    <2>. QED BY <1>0, <2>1 DEF RestoreInvariant, Restoring, Bootable
  <1>. QED BY <1>1, <1>2, <1>3, <1>4, <1>5, <1>6, <1>7, <1>8, <1>9 DEF Next, Core0

\* The kernel image is whole unless something failed, and the safe one after a
\* restore in which nothing did.
THEOREM RestoreAlwaysSafe == Spec => []RestoredIsSafe
  <1>1. Init => RestoreInvariant
    <2> SUFFICES ASSUME Init PROVE RestoreInvariant
      OBVIOUS
    <2>1. /\ kernel = Images.old /\ out = << >> /\ copied = 0 /\ faults = 0
          /\ pc[0] = "init"
      BY DEF Init
    <2>2. ~torn
      BY Zenon DEF Init
    <2>. QED BY <2>1, <2>2 DEF RestoreInvariant, Restoring, Bootable
  <1>2. RestoreInvariant => RestoredIsSafe
    BY DEF RestoreInvariant, RestoredIsSafe
  <1>. QED BY <1>1, <1>2, TypeStart, TypeNext, CoresStart, CoresNext, RestoreNext, PTL DEF Spec

-----------------------------------------------------------------------------
(* The volumes.                                                            *)

\* The card has an object of its own, which is mounted with the card or not at
\* all; the sticks share the other.
VolumesInvariant ==
  /\ fs \in [{"SD", "USB1"} -> {NoValue} \union 0 .. 3]
  /\ fs["SD"] \in {NoValue, SD} /\ fs["USB1"] # SD
  /\ CardIsListedAsCard

\* Initialize mounts the card first; a new start has no stick mounted.
LEMMA VolumesStart ==
  /\ Init => VolumesInvariant
  /\ PoweredOn => VolumesInvariant'
  BY SticksAssumption DEF Init, PoweredOn, VolumesInvariant, CardIsListedAsCard, SD

\* Only Initialize and the menu mount, and the menu mounts no stick with the
\* object of the card.
LEMMA VolumesNext == VolumesInvariant /\ [Next]_vars => VolumesInvariant'
  <1> SUFFICES ASSUME VolumesInvariant, [Next]_vars PROVE VolumesInvariant'
    OBVIOUS
  <1>1. ASSUME NEW v \in {SD} \union Sticks, ChangeVolume(v) PROVE VolumesInvariant'
    <2> DEFINE table == IF v \in mounted \union {SD} THEN fs ELSE circle_mount_usb(v)
    <2>1. /\ shown' = Listing(v, table) /\ current' = v
          /\ fs' = [table EXCEPT ![ObjectOf(v)] = shown']
      BY <1>1 DEF ChangeVolume
    <2>2. DriveAfter(v) \in {NoValue} \union 0 .. 3 /\ (v = SD <=> DriveAfter(v) = SD)
      BY SticksAssumption DEF DriveAfter, SD
    <2>3. CASE v = SD
      <3>1. table = fs /\ ObjectOf(v) = "SD"
        BY <2>3 DEF ObjectOf
      <3>2. shown' = SD
        BY <2>1, <2>2, <2>3, <3>1 DEF Listing, VolumesInvariant
      <3>. QED BY <2>1, <2>3, <3>1, <3>2 DEF VolumesInvariant, CardIsListedAsCard, SD
    <2>4. CASE v # SD
      <3>1. ObjectOf(v) = "USB1"
        BY <2>4 DEF ObjectOf
      <3>2. /\ table \in [{"SD", "USB1"} -> {NoValue} \union 0 .. 3]
            /\ table["SD"] = fs["SD"] /\ table["USB1"] # SD
        BY <2>2, <2>4, <3>1 DEF circle_mount_usb, VolumesInvariant
      <3> HIDE DEF table
      <3>3. shown' # SD /\ shown' \in {NoValue} \union 0 .. 3
        BY <2>1, <2>2, <2>4, <3>1, <3>2 DEF Listing
      <3>. QED BY <2>1, <2>4, <3>1, <3>2, <3>3 DEF VolumesInvariant, CardIsListedAsCard
    <2>. QED BY <2>3, <2>4
  <1>2. CASE PowerFails \/ Reboot
    BY <1>2, VolumesStart DEF PowerFails, Reboot
  <1>3. CASE UNCHANGED volumeVars
    BY <1>3 DEF VolumesInvariant, CardIsListedAsCard, volumeVars
  <1>4. CASE InitStep
    <2>1. UNCHANGED << mounted, current, shown >> /\ fs' \in {fs, [fs EXCEPT !["SD"] = SD]}
      BY <1>4 DEF InitStep
    <2>. QED BY <2>1 DEF VolumesInvariant, CardIsListedAsCard, SD
  <1>5. Core0 => InitStep \/ UNCHANGED volumeVars
    <2>1. ReadFire \/ InitBootStat \/ LaunchEmulator => UNCHANGED volumeVars
      BY DEF ReadFire, InitBootStat, LaunchEmulator, volumeVars
    <2>2. OpenImages \/ CopyBlock \/ CopyEnds \/ CloseImages => UNCHANGED volumeVars
      BY DEF OpenImages, CopyBlock, CopyEnds, CloseImages, RestoreStep, volumeVars
    <2>3. InitUSB \/ KeyReport \/ KeyQueued => UNCHANGED volumeVars
      BY DEF InitUSB, KeyReport, KeyQueued, volumeVars
    <2>. QED BY <2>1, <2>2, <2>3 DEF Core0
  <1>6. ASSUME NEW c \in 2 .. 3, Core1 \/ CoreDone(c) PROVE UNCHANGED volumeVars
    BY <1>6 DEF Core1, RunMain, CountForOthers, BootComplete, LateSound, SoundStarted,
                DisableBootStat, CoreDone, CoreStep, volumeVars
  <1>7. UNCHANGED vars => UNCHANGED volumeVars
    BY DEF vars, volumeVars
  <1>. QED BY <1>1, <1>2, <1>3, <1>4, <1>5, <1>6, <1>7 DEF Next

\* Whatever has been mounted, in whatever order and from however many sticks, the
\* menu shows the card when it says so, and only then (circle_mount_usb,
\* filesystem_change_volume).
THEOREM CardAlwaysListedAsCard == Spec => []CardIsListedAsCard
  <1>1. VolumesInvariant => CardIsListedAsCard
    BY DEF VolumesInvariant
  <1>. QED BY <1>1, VolumesStart, VolumesNext, PTL DEF Spec

-----------------------------------------------------------------------------
(* The options *)

Turns(f, l, n) == f = [i \in 0 .. n |-> IF i = 0 THEN Defaults ELSE Token(f[i - 1], l[i])]
Timings(l) == {i \in Given(l, {"machine_timing"}) : l[i].val \in DOMAIN TimingWord}
Clocks(l) == Given(l, {"cycles_per_second", "cycles_per_refresh"})
Upto(tokens, i) == tokens \intersect (1 .. i)
Says(word) == word \in {"true", "1"}

\* A record of options.
OptionShape(o) ==
  /\ DOMAIN o = DOMAIN Defaults /\ o = [f \in DOMAIN o |-> o[f]]
  /\ o.dpi \in BOOLEAN /\ o.serial \in BOOLEAN /\ o.gpioOut \in BOOLEAN

\* What the options are after the first i tokens.
Means(o, l, i) ==
  /\ OptionShape(o)
  /\ o.timing = TimingWord[LastWord(l, Upto(Timings(l), i), "pal-hdmi")]
  /\ o.cycles = IF Upto(Clocks(l), i) = {} THEN 0 ELSE Atoi(LastWord(l, Upto(Clocks(l), i), "none"))
  /\ o.dpi <=> Says(LastWord(l, Upto(Given(l, {"enable_dpi"}), i), "false"))
  /\ o.serial <=> Says(LastWord(l, Upto(Given(l, {"enable_serial"}), i), "false"))
  /\ o.gpioOut <=> Says(LastWord(l, Upto(Given(l, {"enable_gpio_outputs"}), i), "false"))

\* Of the numbers with a property some is the least.
LEMMA Least ==
  ASSUME NEW T \in SUBSET Nat, T # {}
  PROVE  \E n \in T : \A k \in T : n <= k
  <1>1. IsWellFoundedOn(OpToRel(<, Nat), Nat)
    BY NatLessThanWellFounded
  <1>2. PICK n \in T : \A y \in T : ~(<<y, n>> \in OpToRel(<, Nat))
    BY <1>1, WFMin, Zenon
  <1>3. \A k \in T : ~(k < n)
    BY <1>2 DEF OpToRel
  <1>. QED BY <1>3

\* The loop over the tokens has a course of any length.
LEMMA Looped ==
  ASSUME NEW n \in Nat, NEW l
  PROVE  \E f : Turns(f, l, n)
  <1>. DEFINE T == {k \in Nat : ~\E f : Turns(f, l, k)}
  <1>1. ASSUME T # {} PROVE FALSE
    <2>1. PICK k \in T : \A j \in T : k <= j
      BY <1>1, Least
    <2>2. CASE k = 0
      <3>1. Turns([i \in 0 .. 0 |-> Defaults], l, 0)
        BY DEF Turns
      <3>. QED BY <2>1, <2>2, <3>1
    <2>3. CASE k # 0
      <3>1. PICK f : Turns(f, l, k - 1)
        BY <2>1, <2>3
      <3>. DEFINE h == [i \in 0 .. k |-> IF i = 0 THEN Defaults ELSE Token(f[i - 1], l[i])]
      <3>2. \A i \in 0 .. k - 1 : h[i] = f[i]
        BY <2>3, <3>1 DEF Turns
      <3>. HIDE DEF h
      <3>3. \A i \in 0 .. k : i # 0 => h[i - 1] = f[i - 1]
        BY <2>3, <3>2
      <3>4. Turns(h, l, k)
        BY <3>3 DEF Turns, h
      <3>. QED BY <2>1, <3>4
    <2>. QED BY <2>2, <2>3
  <1>. QED BY <1>1

\* The last of the tokens up to one.
LEMMA LastUpto ==
  ASSUME NEW l, NEW tokens, NEW i \in Nat \ {0}, NEW default
  PROVE  /\ i \in tokens => LastWord(l, Upto(tokens, i), default) = l[i].val /\ Upto(tokens, i) # {}
         /\ i \notin tokens => Upto(tokens, i) = Upto(tokens, i - 1)
  <1>1. ASSUME i \in tokens PROVE LastWord(l, Upto(tokens, i), default) = l[i].val /\ Upto(tokens, i) # {}
    <2>. DEFINE S == Upto(tokens, i)
               last == CHOOSE k \in S : \A j \in S : j <= k
    <2>1. i \in S /\ \A j \in S : j <= i /\ j \in Nat
      BY <1>1 DEF Upto
    <2>. HIDE DEF S
    <2>2. last \in S /\ \A j \in S : j <= last
      BY <2>1
    <2>3. last = i
      <3>. HIDE DEF last
      <3>. QED BY <2>1, <2>2
    <2>4. LastWord(l, S, default) = l[last].val
      BY <2>1, Zenon DEF LastWord
    <2>. QED BY <2>1, <2>3, <2>4 DEF S
  <1>2. ASSUME i \notin tokens PROVE Upto(tokens, i) = Upto(tokens, i - 1)
    BY <1>2 DEF Upto
  <1>. QED BY <1>1, <1>2

\* What one token does.
TokenDoes(o, t, p) ==
  /\ OptionShape(p)
  /\ p.timing = IF t.val # NoValue /\ t.opt = "machine_timing" THEN Translate(t.val, TimingWord, o.timing) ELSE o.timing
  /\ p.cycles = IF t.val # NoValue /\ t.opt \in {"cycles_per_refresh", "cycles_per_second"} THEN Atoi(t.val) ELSE o.cycles
  /\ p.dpi <=> IF t.val # NoValue /\ t.opt = "enable_dpi" THEN Says(t.val) ELSE o.dpi
  /\ p.serial <=> IF t.val # NoValue /\ t.opt = "enable_serial" THEN Says(t.val) ELSE o.serial
  /\ p.gpioOut <=> IF t.val # NoValue /\ t.opt = "enable_gpio_outputs" THEN Says(t.val) ELSE o.gpioOut
LEMMA OneToken ==
  ASSUME NEW o, OptionShape(o), NEW t
  PROVE  TokenDoes(o, t, Token(o, t))
  <1>. DEFINE p == Token(o, t)
  <1>0. DOMAIN o = {"timing", "cycles", "audio", "partition", "demo", "serial", "gpioOut", "dpi", "skip", "skip2", "scaling"}
    BY DEF OptionShape, Defaults
  <1>1. CASE t.val = NoValue
    BY <1>1 DEF Token, TokenDoes
  <1>2. CASE t.val # NoValue /\ t.opt = "machine_timing"
    <2>1. p = [o EXCEPT !.timing = Translate(t.val, TimingWord, @)]
      BY <1>2 DEF Token, Switch
    <2>. QED BY <1>0, <1>2, <2>1 DEF OptionShape, TokenDoes
  <1>3. CASE t.val # NoValue /\ t.opt \in {"cycles_per_refresh", "cycles_per_second"}
    <2>1. p = [o EXCEPT !.cycles = Atoi(t.val)]
      BY <1>3 DEF Token, Switch
    <2>. QED BY <1>0, <1>3, <2>1 DEF OptionShape, TokenDoes
  <1>4. CASE t.val # NoValue /\ t.opt \in DOMAIN Switch
    <2>. DEFINE f == Switch[t.opt]
    <2>1. p = [o EXCEPT ![f] = Says(t.val)]
      BY <1>4 DEF Token, Switch, Says
    <2>2. /\ f \in DOMAIN o \ {"timing", "cycles"}
          /\ f = "dpi" <=> t.opt = "enable_dpi"
          /\ f = "serial" <=> t.opt = "enable_serial"
          /\ f = "gpioOut" <=> t.opt = "enable_gpio_outputs"
          /\ t.opt \notin {"machine_timing", "cycles_per_refresh", "cycles_per_second"}
      BY <1>0, <1>4 DEF Switch
    <2>3. Says(t.val) \in BOOLEAN
      BY DEF Says
    <2>. HIDE DEF f, p
    <2>4. p[f] <=> Says(t.val)
      BY <2>1, <2>2, <2>3 DEF OptionShape
    <2>5. \A g \in DOMAIN o \ {f} : p[g] = o[g]
      BY <2>1 DEF OptionShape
    <2>6. DOMAIN p = DOMAIN o /\ p = [g \in DOMAIN p |-> p[g]] /\ p[f] \in BOOLEAN
      BY <2>1, <2>2, <2>3 DEF OptionShape
    <2>7. p.timing = o.timing /\ p.cycles = o.cycles
      BY <1>0, <2>2, <2>5
    <2>8. p.dpi <=> IF f = "dpi" THEN Says(t.val) ELSE o.dpi
      BY <1>0, <2>4, <2>5
    <2>9. p.serial <=> IF f = "serial" THEN Says(t.val) ELSE o.serial
      BY <1>0, <2>4, <2>5
    <2>10. p.gpioOut <=> IF f = "gpioOut" THEN Says(t.val) ELSE o.gpioOut
      BY <1>0, <2>4, <2>5
    <2>11. OptionShape(p)
      BY <1>0, <2>5, <2>6 DEF OptionShape
    <2>12. TokenDoes(o, t, p)
      BY <1>4, <2>2, <2>7, <2>8, <2>9, <2>10, <2>11 DEF TokenDoes
    <2>. QED BY <2>12 DEF p
  <1>5. CASE t.val # NoValue /\ t.opt \notin DOMAIN Switch
             /\ t.opt \notin {"machine_timing", "cycles_per_refresh", "cycles_per_second"}
    <2>1. \/ p = o
          \/ p = [o EXCEPT !.audio = Translate(t.val, AudioWord, @)]
          \/ p = [o EXCEPT !.partition = NonNegative(Atoi(t.val))]
          \/ \E new : p = [o EXCEPT !.scaling = new]
      BY <1>5 DEF Token
    <2>2. t.opt \notin {"enable_dpi", "enable_serial", "enable_gpio_outputs"}
      BY <1>5 DEF Switch
    <2>. QED BY <1>0, <1>5, <2>1, <2>2 DEF OptionShape, TokenDoes
  <1>. QED BY <1>1, <1>2, <1>3, <1>4, <1>5

\* A word of the last token is one of its tokens' words, or the default.
LEMMA LastWordIn ==
  ASSUME NEW l, NEW n \in Nat, NEW tokens \in SUBSET (1 .. n), NEW default
  PROVE  \/ tokens = {} /\ LastWord(l, tokens, default) = default
         \/ \E i \in tokens : LastWord(l, tokens, default) = l[i].val
  <1>1. CASE tokens = {}
    BY <1>1 DEF LastWord
  <1>2. CASE tokens # {}
    <2>. DEFINE last == CHOOSE i \in tokens : \A j \in tokens : j <= i
    <2>1. \E i \in tokens : \A j \in tokens : j <= i
      <3>. DEFINE U == {k \in Nat : \A j \in tokens : j <= k}
      <3>1. n \in U /\ U \in SUBSET Nat
        OBVIOUS
      <3>. HIDE DEF U
      <3>2. PICK k \in U : \A m \in U : k <= m
        BY <3>1, Least
      <3>3. ASSUME k \notin tokens PROVE FALSE
        <4>1. k \in Nat /\ \A j \in tokens : j <= k
          BY DEF U
        <4>2. k # 0
          <5>1. PICK j \in tokens : j \in 1 .. n
            BY <1>2
          <5>2. j <= k
            BY <4>1
          <5>. QED BY <4>1, <5>1, <5>2
        <4>3. k - 1 \in U
          BY <3>3, <4>1, <4>2 DEF U
        <4>. QED BY <3>2, <4>1, <4>3
      <3>. QED BY <3>3 DEF U
    <2>2. last \in tokens
      BY <2>1
    <2>. HIDE DEF last
    <2>3. LastWord(l, tokens, default) = l[last].val
      BY <1>2, Zenon DEF LastWord, last
    <2>. QED BY <2>2, <2>3
  <1>. QED BY <1>1, <1>2

\* The tokens take the options from one meaning to the next.
LEMMA MeansNext ==
  ASSUME NEW o, NEW l, NEW n \in Nat, DOMAIN l = 1 .. n, NEW i \in 1 .. n, Means(o, l, i - 1)
  PROVE  Means(Token(o, l[i]), l, i)
  <1>. DEFINE t == l[i]
             p == Token(o, t)
  <1>1. TokenDoes(o, t, p)
    BY OneToken DEF Means
  <1>. HIDE DEF p
  <1>2. i \in Nat \ {0}
    OBVIOUS
  <1>3. \A name : i \in Given(l, name) <=> t.val # NoValue /\ t.opt \in name
    BY DEF Given
  <1>4. p.timing = TimingWord[LastWord(l, Upto(Timings(l), i), "pal-hdmi")]
    <2>1. i \in Timings(l) <=> t.val # NoValue /\ t.opt = "machine_timing" /\ t.val \in DOMAIN TimingWord
      BY <1>3 DEF Timings
    <2>2. /\ i \in Timings(l) => LastWord(l, Upto(Timings(l), i), "pal-hdmi") = t.val
          /\ i \notin Timings(l) => Upto(Timings(l), i) = Upto(Timings(l), i - 1)
      BY <1>2, LastUpto
    <2>3. p.timing = IF i \in Timings(l) THEN TimingWord[t.val] ELSE o.timing
      BY <1>1, <2>1 DEF TokenDoes, Translate
    <2>4. o.timing = TimingWord[LastWord(l, Upto(Timings(l), i - 1), "pal-hdmi")]
      BY DEF Means
    <2>. QED BY <2>2, <2>3, <2>4
  <1>5. p.cycles = IF Upto(Clocks(l), i) = {} THEN 0 ELSE Atoi(LastWord(l, Upto(Clocks(l), i), "none"))
    <2>1. i \in Clocks(l) <=> t.val # NoValue /\ t.opt \in {"cycles_per_refresh", "cycles_per_second"}
      BY <1>3 DEF Clocks
    <2>2. /\ i \in Clocks(l) => LastWord(l, Upto(Clocks(l), i), "none") = t.val /\ Upto(Clocks(l), i) # {}
          /\ i \notin Clocks(l) => Upto(Clocks(l), i) = Upto(Clocks(l), i - 1)
      BY <1>2, LastUpto
    <2>3. p.cycles = IF i \in Clocks(l) THEN Atoi(t.val) ELSE o.cycles
      BY <1>1, <2>1 DEF TokenDoes
    <2>4. o.cycles = IF Upto(Clocks(l), i - 1) = {} THEN 0 ELSE Atoi(LastWord(l, Upto(Clocks(l), i - 1), "none"))
      BY DEF Means
    <2>. QED BY <2>2, <2>3, <2>4
  <1>6. \A name : /\ i \in Given(l, {name}) => LastWord(l, Upto(Given(l, {name}), i), "false") = t.val
                  /\ i \notin Given(l, {name}) => Upto(Given(l, {name}), i) = Upto(Given(l, {name}), i - 1)
    BY <1>2, LastUpto
  <1>7. p.dpi <=> Says(LastWord(l, Upto(Given(l, {"enable_dpi"}), i), "false"))
    <2>1. p.dpi <=> IF i \in Given(l, {"enable_dpi"}) THEN Says(t.val) ELSE o.dpi
      BY <1>1, <1>3 DEF TokenDoes
    <2>2. o.dpi <=> Says(LastWord(l, Upto(Given(l, {"enable_dpi"}), i - 1), "false"))
      BY DEF Means
    <2>. QED BY <1>6, <2>1, <2>2
  <1>8. p.serial <=> Says(LastWord(l, Upto(Given(l, {"enable_serial"}), i), "false"))
    <2>1. p.serial <=> IF i \in Given(l, {"enable_serial"}) THEN Says(t.val) ELSE o.serial
      BY <1>1, <1>3 DEF TokenDoes
    <2>2. o.serial <=> Says(LastWord(l, Upto(Given(l, {"enable_serial"}), i - 1), "false"))
      BY DEF Means
    <2>. QED BY <1>6, <2>1, <2>2
  <1>9. p.gpioOut <=> Says(LastWord(l, Upto(Given(l, {"enable_gpio_outputs"}), i), "false"))
    <2>1. p.gpioOut <=> IF i \in Given(l, {"enable_gpio_outputs"}) THEN Says(t.val) ELSE o.gpioOut
      BY <1>1, <1>3 DEF TokenDoes
    <2>2. o.gpioOut <=> Says(LastWord(l, Upto(Given(l, {"enable_gpio_outputs"}), i - 1), "false"))
      BY DEF Means
    <2>. QED BY <1>6, <2>1, <2>2
  <1>10. Means(p, l, i)
    BY <1>1, <1>4, <1>5, <1>7, <1>8, <1>9 DEF Means, TokenDoes
  <1>. QED BY <1>10 DEF p

\* Before the first token the options are the defaults.
LEMMA MeansAtFirst ==
  ASSUME NEW l
  PROVE  Means(Defaults, l, 0)
  <1>1. \A tokens : Upto(tokens, 0) = {}
    BY DEF Upto
  <1>2. \A default : LastWord(l, {}, default) = default
    BY DEF LastWord
  <1>3. TimingWord["pal-hdmi"] = "pal-hdmi"
    BY DEF TimingWord
  <1>4. OptionShape(Defaults)
    BY DEF OptionShape, Defaults
  <1>. QED BY <1>1, <1>2, <1>3, <1>4 DEF Means, Defaults, Says

\* What comes after the loop.
LEMMA AfterLoop ==
  ASSUME NEW l, NEW n \in Nat, Len(l) = n, DOMAIN l = 1 .. n
  PROVE  \E o : Means(o, l, n) /\ ViceOptions(l) = WithoutSerial(WithClock(WithDPI(o)))
  <1>. DEFINE Body(f) == f = [i \in 0 .. n |-> IF i = 0 THEN Defaults ELSE Token(f[i - 1], l[i])]
             read == CHOOSE f : Body(f)
             T == {i \in 0 .. n : ~Means(read[i], l, i)}
  <1>1. \E f : Body(f)
    BY Looped DEF Turns
  <1>2. Body(read)
    BY <1>1
  <1>3. ViceOptions(l) = WithoutSerial(WithClock(WithDPI(read[n])))
    BY DEF ViceOptions
  <1>. HIDE DEF read
  <1>4. T = {}
    <2>1. SUFFICES ASSUME T # {} PROVE FALSE
      OBVIOUS
    <2>2. T \in SUBSET Nat
      OBVIOUS
    <2>3. PICK i \in T : \A j \in T : i <= j
      <3>. HIDE DEF T
      <3>. QED BY <2>1, <2>2, Least
    <2>4. CASE i = 0
      <3>1. read[0] = Defaults
        BY <1>2
      <3>. QED BY <2>3, <2>4, <3>1, MeansAtFirst
    <2>5. CASE i # 0
      <3>1. i \in 1 .. n /\ read[i] = Token(read[i - 1], l[i])
        BY <1>2, <2>3, <2>5
      <3>2. Means(read[i - 1], l, i - 1)
        BY <2>3, <3>1
      <3>. QED BY <2>3, <3>1, <3>2, MeansNext
    <2>. QED BY <2>4, <2>5
  <1>. QED BY <1>3, <1>4

\* The names of the timings, and the words for them.
LEMMA TimingWords ==
  ASSUME NEW w \in DOMAIN TimingWord
  PROVE  /\ TimingWord[w] \in {"ntsc-hdmi", "ntsc-dpi", "ntsc-composite", "ntsc-custom-hdmi",
                               "pal-hdmi", "pal-dpi", "pal-composite", "pal-custom-hdmi"}
         /\ TimingWord[w] \in Ntsc <=> w \in Ntsc \union {"ntsc", "ntsc-custom"}
  <1>1. w \in {"ntsc", "ntsc-hdmi", "ntsc-dpi", "ntsc-composite", "ntsc-custom",
               "pal", "pal-hdmi", "pal-dpi", "pal-composite", "pal-custom"}
    BY DEF TimingWord
  <1>2. TimingWord[w] = IF w = "ntsc" THEN "ntsc-hdmi" ELSE IF w = "pal" THEN "pal-hdmi"
                        ELSE IF w = "ntsc-custom" THEN "ntsc-custom-hdmi"
                        ELSE IF w = "pal-custom" THEN "pal-custom-hdmi" ELSE w
    BY <1>1 DEF TimingWord
  <1>. QED BY <1>1, <1>2 DEF Ntsc

\* What the end of the constructor makes of the options.
LEMMA Finished ==
  ASSUME NEW m, OptionShape(m),
         m.timing \in {"ntsc-hdmi", "ntsc-dpi", "ntsc-composite", "ntsc-custom-hdmi",
                       "pal-hdmi", "pal-dpi", "pal-composite", "pal-custom-hdmi"}
  PROVE  LET o == WithoutSerial(WithClock(WithDPI(m))) IN
         /\ o.timing \in {"ntsc-hdmi", "ntsc-dpi", "ntsc-composite", "ntsc-custom-hdmi", "ntsc-custom-dpi",
                          "pal-hdmi", "pal-dpi", "pal-composite", "pal-custom-hdmi", "pal-custom-dpi"}
         /\ o.timing \in Ntsc <=> m.timing \in Ntsc
         /\ o.timing \in Custom /\ m.cycles = 0 => o.timing = "pal-custom-dpi"
         /\ o.cycles = m.cycles
         /\ o.dpi = m.dpi /\ o.gpioOut = m.gpioOut /\ o.serial = (m.serial /\ ~m.dpi)
  <1>. DEFINE a == WithDPI(m)
             b == WithClock(a)
             o == WithoutSerial(b)
  <1>0. DOMAIN m = {"timing", "cycles", "audio", "partition", "demo", "serial", "gpioOut", "dpi", "skip", "skip2", "scaling"}
    BY DEF OptionShape, Defaults
  <1>1. /\ DOMAIN a = DOMAIN m /\ \A f \in DOMAIN m \ {"timing"} : a[f] = m[f]
        /\ a.timing = IF m.dpi /\ m.timing = "pal-custom-hdmi" THEN "pal-custom-dpi"
                      ELSE IF m.dpi /\ m.timing = "ntsc-custom-hdmi" THEN "ntsc-custom-dpi" ELSE m.timing
    BY <1>0 DEF WithDPI, OptionShape
  <1>. HIDE DEF a
  <1>2. /\ DOMAIN b = DOMAIN m /\ \A f \in DOMAIN m \ {"timing"} : b[f] = m[f]
        /\ b.timing = IF m.cycles = 0 /\ a.timing = "pal-custom-hdmi" THEN "pal-hdmi"
                      ELSE IF m.cycles = 0 /\ a.timing = "ntsc-custom-hdmi" THEN "ntsc-hdmi"
                      ELSE IF m.cycles = 0 /\ a.timing = "ntsc-custom-dpi" THEN "ntsc-dpi" ELSE a.timing
    BY <1>0, <1>1 DEF WithClock
  <1>. HIDE DEF b
  <1>3. /\ \A f \in DOMAIN m \ {"serial"} : o[f] = b[f]
        /\ o.serial = (b.serial /\ ~b.dpi)
    BY <1>0, <1>2 DEF WithoutSerial
  <1>4. /\ o.timing = b.timing /\ o.cycles = m.cycles /\ o.dpi = m.dpi /\ o.gpioOut = m.gpioOut
        /\ o.serial = (m.serial /\ ~m.dpi)
    BY <1>0, <1>2, <1>3
  <1>. HIDE DEF o
  <1>5. /\ o.timing \in {"ntsc-hdmi", "ntsc-dpi", "ntsc-composite", "ntsc-custom-hdmi", "ntsc-custom-dpi",
                          "pal-hdmi", "pal-dpi", "pal-composite", "pal-custom-hdmi", "pal-custom-dpi"}
        /\ o.timing \in Ntsc <=> m.timing \in Ntsc
        /\ o.timing \in Custom /\ m.cycles = 0 => o.timing = "pal-custom-dpi"
    BY <1>1, <1>2, <1>4 DEF Ntsc, Custom
  <1>6. WithoutSerial(WithClock(WithDPI(m))) = o
    BY DEF o, b, a
  <1>. QED BY <1>4, <1>5, <1>6

\* The clock of a timing that has a name of its own.
LEMMA ClockOfTiming ==
  ASSUME NEW f \in DOMAIN Named, NEW o,
         o.timing \in {"ntsc-hdmi", "ntsc-composite", "pal-hdmi", "pal-composite"}
  PROVE  CyclesPerSecond(f, o) \in IF o.timing \in Ntsc THEN {Named[f].ntsc, Named[f].ntscComposite}
                                   ELSE {Named[f].pal, Named[f].palComposite}
  <1>1. CASE o.timing = "ntsc-hdmi"
    BY <1>1 DEF CyclesPerSecond, Ntsc, Custom
  <1>2. CASE o.timing = "ntsc-composite"
    BY <1>2 DEF CyclesPerSecond, Ntsc, Custom
  <1>3. CASE o.timing = "pal-hdmi"
    BY <1>3 DEF CyclesPerSecond, Ntsc, Custom
  <1>4. CASE o.timing = "pal-composite"
    BY <1>4 DEF CyclesPerSecond, Ntsc, Custom
  <1>. QED BY <1>1, <1>2, <1>3, <1>4

\* The options of a command line of any length mean what it says.
LEMMA LineMeans ==
  ASSUME NEW l \in CmdLines
  PROVE  LET o == ViceOptions(l) IN
         /\ TimingOption(o.timing) = IF AsksNtsc(l) THEN "-ntsc" ELSE "-pal"
         /\ o.dpi = AsksFor(l, "enable_dpi")
         /\ o.serial = (AsksFor(l, "enable_serial") /\ ~o.dpi)
         /\ o.gpioOut = AsksFor(l, "enable_gpio_outputs")
         /\ o.cycles = Clock(l)
         /\ o.timing \in Custom /\ o.cycles = 0 => o.timing = "pal-custom-dpi"
         /\ \A f \in DOMAIN Named :
              o.timing \notin Custom \union {"ntsc-dpi", "pal-dpi"} =>
                 CyclesPerSecond(f, o) \in
                   IF AsksNtsc(l) THEN {Named[f].ntsc, Named[f].ntscComposite}
                                  ELSE {Named[f].pal, Named[f].palComposite}
  <1>. DEFINE n == Len(l)
             w == AsksTiming(l)
             o == ViceOptions(l)
  <1>1. n \in Nat /\ DOMAIN l = 1 .. n
    BY LinesAssumption
  <1>2. PICK m : Means(m, l, n) /\ o = WithoutSerial(WithClock(WithDPI(m)))
    BY <1>1, AfterLoop
  <1>3. \A names : Given(l, names) \in SUBSET (1 .. n) /\ Upto(Given(l, names), n) = Given(l, names)
    BY <1>1 DEF Given, Upto
  <1>4. Timings(l) \in SUBSET (1 .. n) /\ Upto(Timings(l), n) = Timings(l)
    BY <1>3 DEF Timings, Upto
  <1>5. w = LastWord(l, Timings(l), "pal-hdmi")
    BY DEF AsksTiming, Timings
  <1>. HIDE DEF n, w, o
  <1>6. w \in DOMAIN TimingWord
    <2>1. "pal-hdmi" \in DOMAIN TimingWord
      BY DEF TimingWord
    <2>2. \A i \in Timings(l) : l[i].val \in DOMAIN TimingWord
      BY DEF Timings
    <2>3. \/ LastWord(l, Timings(l), "pal-hdmi") = "pal-hdmi"
          \/ \E i \in Timings(l) : LastWord(l, Timings(l), "pal-hdmi") = l[i].val
      BY <1>1, <1>4, LastWordIn
    <2>. QED BY <1>5, <2>1, <2>2, <2>3
  <1>7. m.timing = TimingWord[w] /\ OptionShape(m)
    BY <1>2, <1>4, <1>5 DEF Means
  <1>8. /\ o.timing \in {"ntsc-hdmi", "ntsc-dpi", "ntsc-composite", "ntsc-custom-hdmi", "ntsc-custom-dpi",
                          "pal-hdmi", "pal-dpi", "pal-composite", "pal-custom-hdmi", "pal-custom-dpi"}
        /\ o.timing \in Ntsc <=> m.timing \in Ntsc
        /\ o.timing \in Custom /\ m.cycles = 0 => o.timing = "pal-custom-dpi"
        /\ o.cycles = m.cycles
        /\ o.dpi = m.dpi /\ o.gpioOut = m.gpioOut /\ o.serial = (m.serial /\ ~m.dpi)
    BY <1>2, <1>6, <1>7, TimingWords, Finished
  <1>9. o.timing \in Ntsc <=> AsksNtsc(l)
    BY <1>6, <1>7, <1>8, TimingWords DEF AsksNtsc, w
  <1>10. TimingOption(o.timing) = IF AsksNtsc(l) THEN "-ntsc" ELSE "-pal"
    BY <1>9 DEF TimingOption
  <1>11. \A name : AsksFor(l, name) <=> Says(LastWord(l, Given(l, {name}), "false"))
    BY DEF AsksFor, LastGiven, Says
  <1>12. /\ m.dpi \in BOOLEAN /\ (m.dpi <=> AsksFor(l, "enable_dpi"))
         /\ m.serial \in BOOLEAN /\ (m.serial <=> AsksFor(l, "enable_serial"))
         /\ m.gpioOut \in BOOLEAN /\ (m.gpioOut <=> AsksFor(l, "enable_gpio_outputs"))
    BY <1>2, <1>3, <1>11 DEF Means, OptionShape
  <1>13. \A name : AsksFor(l, name) \in BOOLEAN
    BY DEF AsksFor
  <1>14. /\ o.dpi = AsksFor(l, "enable_dpi")
         /\ o.serial = (AsksFor(l, "enable_serial") /\ ~o.dpi)
         /\ o.gpioOut = AsksFor(l, "enable_gpio_outputs")
    <2>1. \A a, b : a \in BOOLEAN /\ b \in BOOLEAN /\ (a <=> b) => a = b
      OBVIOUS
    <2>2. m.dpi = AsksFor(l, "enable_dpi")
      BY <1>12, <1>13
    <2>3. m.serial = AsksFor(l, "enable_serial")
      BY <1>12, <1>13
    <2>4. m.gpioOut = AsksFor(l, "enable_gpio_outputs")
      BY <1>12, <1>13
    <2>5. o.serial = (m.serial /\ ~m.dpi) /\ o.dpi = m.dpi
      BY <1>8, Zenon
    <2>6. o.serial = (AsksFor(l, "enable_serial") /\ ~o.dpi)
      BY <2>3, <2>5, Zenon
    <2>7. o.gpioOut = m.gpioOut
      BY <1>8, Zenon
    <2>. QED BY <2>2, <2>4, <2>5, <2>6, <2>7, Zenon
  <1>15. o.cycles = Clock(l)
    BY <1>2, <1>3, <1>8 DEF Means, Clocks, Clock
  <1>16. ASSUME NEW f \in DOMAIN Named, o.timing \notin Custom \union {"ntsc-dpi", "pal-dpi"}
         PROVE  CyclesPerSecond(f, o) \in
                   IF AsksNtsc(l) THEN {Named[f].ntsc, Named[f].ntscComposite}
                                  ELSE {Named[f].pal, Named[f].palComposite}
    <2>1. o.timing \in {"ntsc-hdmi", "ntsc-composite", "pal-hdmi", "pal-composite"}
      BY <1>8, <1>16 DEF Custom
    <2>. QED BY <1>9, <2>1, ClockOfTiming
  <1>17. o.timing \in Custom /\ o.cycles = 0 => o.timing = "pal-custom-dpi"
    BY <1>8
  <1>. QED BY <1>10, <1>14, <1>15, <1>16, <1>17 DEF o

\* For command lines of any length, whatever they repeat, contradict and
\* misspell, the options are what the last words on each say (the constructor of
\* ViceOptions, circle_cycles_per_second).
THEOREM OptionsAlwaysMeanWhatTheySay == Spec => []OptionsMeanWhatTheySay
  <1>1. OptionsMeanWhatTheySay
    BY LineMeans DEF OptionsMeanWhatTheySay
  <1>. QED BY <1>1, PTL
=============================================================================
