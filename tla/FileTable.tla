------------------------------ MODULE FileTable -----------------------------
(***************************************************************************)
(* The file calls of the C library on top of FatFs (new_io.cpp).  A file   *)
(* that is opened to be read and written is read into memory at once, one   *)
(* that is only read when it is first sought; what is written stays in     *)
(* memory until _close creates the file anew from it.                      *)
(*                                                                         *)
(* FatFs is external: a FIL object is open for reading or for writing,     *)
(* closed, or has failed, after which every call on it fails; Faults says  *)
(* which of its calls may fail.  The read pointer of a FIL that is read is *)
(* the position of its entry.  All calls come from one core.               *)
(***************************************************************************)
EXTENDS Integers, Sequences

CONSTANTS
  MAX_OPEN_FILES,
  File, Byte, Chunk,   \* as in FileStore
  BootStat,            \* g_bootStatWhat, g_bootStatFile, g_bootStatSize
  Faults,              \* the FatFs calls that may fail
  MaxLen,              \* bound of the model: length of a file
  None

ASSUME TableAssumption ==
  /\ MAX_OPEN_FILES \in Nat
  /\ Chunk \subseteq Seq(Byte)
  /\ \A i \in DOMAIN BootStat :
       BootStat[i] \in [what : {"stat", "fail"}, name : File, size : Nat]
  /\ MaxLen \in Nat

VARIABLES
  disk,      \* the contents of each file on the card, or None
  fileTab,
  ret,       \* what the last call returned
  last       \* history: the last call, its file and what the file was to hold

vars == << disk, fileTab, ret, last >>

\* What the calls below promise (see ImplementsStore).
Data(file) ==
  IF file.contents # None THEN file.contents
  ELSE IF file.mode = "RDONLY" THEN disk[file.fname] ELSE << >>

Slot == 3 .. MAX_OPEN_FILES - 1

HandleOf(file) ==
  IF file.in_use = 0 THEN None
  ELSE [file |-> file.fname, mode |-> file.mode, data |-> Data(file),
        pos |-> file.position, dirty |-> file.written_to = 1]

\* The first entry of the boot list that decides: any "stat", or a "fail" of
\* the same name.
Deciding(f, i) ==
  LET decides(j) == BootStat[j].what = "stat" \/ BootStat[j].name = f
  IN  i \in DOMAIN BootStat /\ decides(i) /\ \A j \in DOMAIN BootStat : decides(j) => i <= j

\* The files that the boot list answers for.
Answered == {f \in File : \E i \in DOMAIN BootStat : Deciding(f, i)}

Store == INSTANCE FileStore WITH
  Faked <- Answered, Lossy <- "f_write" \in Faults, handle <- [s \in Slot |-> HandleOf(fileTab[s])]

ASSUME NoneAssumption == None \notin Seq(Byte) /\ None \notin Store!Handle

CircleFile == [in_use : {0, 1}, fname : File, fil : {"closed", "reading", "writing", "failed"},
               contents : Seq(Byte) \union {None}, position : Nat, mode : Store!Mode,
               written_to : {0, 1}, fopen_called : {0, 1}]

TypeOK ==
  /\ disk \in [File -> Seq(Byte) \union {None}]
  /\ fileTab \in [Slot -> CircleFile]
  /\ ret \in [ok : BOOLEAN, bytes : Seq(Byte), number : Int]
  /\ last \in [call : {"other", "close"}, file : File, data : Seq(Byte) \union {None}]

Unused(f) == [in_use |-> 0, fname |-> f, fil |-> "closed", contents |-> None, position |-> 0,
              mode |-> "RDONLY", written_to |-> 0, fopen_called |-> 0]

Init ==
  /\ disk \in [File -> Chunk \union {<< >>, None}]
  /\ \E f \in File :
       /\ fileTab = [s \in Slot |-> Unused(f)]
       /\ last = [call |-> "other", file |-> f, data |-> None]
  /\ ret = Store!Done(0)

Opened(s) == fileTab[s].in_use = 1
MayFail(call) == call \in Faults

Returns(result) == ret' = result /\ last' = [last EXCEPT !.call = "other"]
Fails == Returns(Store!Failed)

-----------------------------------------------------------------------------
(* _open                                                                   *)

\* FindFreeFileSlot.
FreeSlot(s) == ~Opened(s) /\ \A t \in Slot : ~Opened(t) => s <= t

\* The boot list refuses some files at once.
FastFail(f) == \E i \in DOMAIN BootStat : BootStat[i].what = "fail" /\ BootStat[i].name = f

OpenRefused(f) ==
  /\ FastFail(f) \/ \A s \in Slot : Opened(s)
  /\ Fails
  /\ UNCHANGED << disk, fileTab >>

\* f_open fails.
OpenFails(s, f, mode) ==
  /\ ~FastFail(f) /\ FreeSlot(s) /\ Store!MayOpen(f, mode)
  /\ MayFail("f_open") \/ (mode # "WRONLY" /\ disk[f] = None)
  /\ fileTab' = [fileTab EXCEPT ![s].fil = "closed"]
  /\ Fails
  /\ UNCHANGED disk

\* The entry that f_open and the assignments after it make.
Entry(f, mode, fil, contents) ==
  [in_use |-> 1, fname |-> f, fil |-> fil, contents |-> contents, position |-> 0,
   mode |-> mode, written_to |-> 0, fopen_called |-> 1]

\* What slurp_file leaves in contents: nothing for an empty file.
Slurped(data) == IF data = << >> THEN None ELSE data

OpenRead(s, f) ==
  /\ ~FastFail(f) /\ FreeSlot(s) /\ Store!MayOpen(f, "RDONLY")
  /\ disk[f] # None
  /\ fileTab' = [fileTab EXCEPT ![s] = Entry(f, "RDONLY", "reading", None)]
  /\ Returns(Store!Done(s))
  /\ UNCHANGED disk

OpenWrite(s, f) ==
  /\ ~FastFail(f) /\ FreeSlot(s) /\ Store!MayOpen(f, "WRONLY")
  /\ fileTab' = [fileTab EXCEPT ![s] = Entry(f, "WRONLY", "writing", None)]
  /\ disk' = [disk EXCEPT ![f] = << >>]
  /\ Returns(Store!Done(s))

\* Mutant of OpenReadWrite: the file is created anew when it is opened.
OpenReadWriteCreates(s, f) ==
  /\ ~FastFail(f) /\ FreeSlot(s) /\ Store!MayOpen(f, "RDWR")
  /\ disk[f] # None
  /\ fileTab' = [fileTab EXCEPT ![s] = Entry(f, "RDWR", "closed", Slurped(disk[f]))]
  /\ disk' = [disk EXCEPT ![f] = << >>]
  /\ Returns(Store!Done(s))

OpenReadWrite(s, f) ==
  /\ ~FastFail(f) /\ FreeSlot(s) /\ Store!MayOpen(f, "RDWR")
  /\ disk[f] # None
  /\ fileTab' = [fileTab EXCEPT ![s] = Entry(f, "RDWR", "closed", Slurped(disk[f]))]
  /\ Returns(Store!Done(s))
  /\ UNCHANGED disk

\* slurp_file or f_close fails: the entry is filled but not in use.
OpenReadWriteFails(s, f) ==
  /\ ~FastFail(f) /\ FreeSlot(s) /\ Store!MayOpen(f, "RDWR")
  /\ disk[f] # None
  /\ \/ MayFail("f_read") /\ fileTab' = [fileTab EXCEPT ![s] =
          [Entry(f, "RDWR", "failed", None) EXCEPT !.in_use = 0]]
     \/ MayFail("f_close") /\ fileTab' = [fileTab EXCEPT ![s] =
          [Entry(f, "RDWR", "reading", Slurped(disk[f])) EXCEPT !.in_use = 0]]
  /\ Fails
  /\ UNCHANGED disk

-----------------------------------------------------------------------------
(* _read, _write, _lseek and _stat                                         *)

\* From memory, or from the card.
Read(s, n) ==
  LET file  == fileTab[s]
      piece == Store!Piece(IF file.contents # None THEN file.contents ELSE disk[file.fname],
                           file.position, n)
  IN  /\ Opened(s)
      /\ file.contents # None \/ file.fil = "reading"
      /\ fileTab' = [fileTab EXCEPT ![s].position = @ + Len(piece)]
      /\ Returns(Store!Bytes(piece))
      /\ UNCHANGED disk

ReadFails(s) ==
  LET file == fileTab[s]
  IN  /\ Opened(s)
      /\ file.contents = None
      /\ \/ file.fil # "reading" /\ UNCHANGED fileTab
         \/ /\ file.fil = "reading" /\ MayFail("f_read")
            /\ fileTab' = [fileTab EXCEPT ![s].fil = "failed"]
      /\ Fails
      /\ UNCHANGED disk

\* The C library does not write to a file that is only read.
Write(s, bytes) ==
  LET file == fileTab[s]
      old  == IF file.contents = None THEN << >> ELSE file.contents
  IN  /\ Opened(s)
      /\ file.mode # "RDONLY"
      /\ file.position + Len(bytes) <= MaxLen
      /\ fileTab' = [fileTab EXCEPT ![s].contents = Store!Overwritten(old, file.position, bytes),
                                    ![s].position = @ + Len(bytes),
                                    ![s].written_to = 1]
      /\ Returns(Store!Done(Len(bytes)))
      /\ UNCHANGED disk

\* Where a seek goes.
Target(file, dir, ptr) ==
  ptr + CASE dir = "SEEK_SET" -> 0
          [] dir = "SEEK_CUR" -> file.position
          [] dir = "SEEK_END" -> Len(Data(file))

\* Mutant of Sought: a file is read into memory whenever it is sought.
SoughtAgain(file) ==
  IF file.contents = None \/ file.mode = "RDWR"
    THEN [file EXCEPT !.contents = Slurped(disk[file.fname])]
    ELSE file

\* slurp_file, of a file that is only read and is not in memory yet.
Sought(file) ==
  IF file.contents = None /\ file.mode = "RDONLY"
    THEN [file EXCEPT !.contents = Slurped(disk[file.fname])]
    ELSE file

NeedsFil(file) == file.mode = "RDONLY" /\ file.contents = None

\* Mutant of Lseek: the new position is not checked.
LseekUnchecked(s, dir, ptr) ==
  LET file   == fileTab[s]
      target == Target(file, dir, ptr)
  IN  /\ Opened(s)
      /\ NeedsFil(file) => file.fil = "reading"
      /\ fileTab' = [fileTab EXCEPT ![s] = [Sought(file) EXCEPT !.position = target]]
      /\ Returns(Store!Done(target))
      /\ UNCHANGED disk

\* A seek past the end halts the machine: the callers do none.
Lseek(s, dir, ptr) ==
  LET file   == fileTab[s]
      target == Target(file, dir, ptr)
  IN  /\ Opened(s)
      /\ NeedsFil(file) => file.fil = "reading"
      /\ target \in 0 .. Len(Data(file))
      /\ fileTab' = [fileTab EXCEPT ![s] = [Sought(file) EXCEPT !.position = target]]
      /\ Returns(Store!Done(target))
      /\ UNCHANGED disk

LseekFails(s) ==
  LET file == fileTab[s]
  IN  /\ Opened(s)
      /\ NeedsFil(file)
      /\ file.fil = "failed" \/ MayFail("f_read")
      /\ fileTab' = [fileTab EXCEPT ![s].fil = "failed"]
      /\ Fails
      /\ UNCHANGED disk

\* What the boot list answers for f, if it answers.
FastStat(f) ==
  {IF BootStat[i].what = "fail" THEN Store!Failed
   ELSE Store!Done(IF BootStat[i].name = f THEN BootStat[i].size ELSE 0) :
     i \in {i \in DOMAIN BootStat : Deciding(f, i)}}

Stat(f) ==
  /\ ret' \in IF FastStat(f) # {} THEN FastStat(f)
              ELSE {IF disk[f] = None THEN Store!Failed ELSE Store!Done(Len(disk[f]))}
  /\ last' = [last EXCEPT !.call = "other"]
  /\ UNCHANGED << disk, fileTab >>

-----------------------------------------------------------------------------
(* _close                                                                  *)

Writes(file) ==
  file.contents # None /\ (file.mode = "WRONLY" \/ (file.mode = "RDWR" /\ file.written_to = 1))

Closes(s, result) ==
  LET file == fileTab[s]
  IN  /\ Opened(s)
      /\ fileTab' = [fileTab EXCEPT ![s] = Unused(file.fname)]
      /\ ret' = result
      /\ last' = [call |-> "close", file |-> file.fname,
                  data |-> IF Writes(file) THEN file.contents ELSE None]

\* f_write stores kept bytes of the file, which it has just created.
Stored(file, kept) == disk' = [disk EXCEPT ![file.fname] = SubSeq(file.contents, 1, kept)]

\* Nothing to store.  The FIL of a file opened for both is closed already, so
\* f_close fails.
CloseUnwritten(s) ==
  LET file == fileTab[s]
  IN  /\ ~Writes(file)
      /\ \/ file.mode # "RDWR" /\ Closes(s, Store!Done(0))
         \/ (file.mode = "RDWR" \/ MayFail("f_close")) /\ Closes(s, Store!Failed)
      /\ UNCHANGED disk

CloseWritten(s) ==
  /\ Writes(fileTab[s])
  /\ Closes(s, Store!Done(0))
  /\ Stored(fileTab[s], Len(fileTab[s].contents))

\* f_write fails, or the card is full: _close goes on.
CloseCutShort(s) ==
  /\ Writes(fileTab[s])
  /\ MayFail("f_write")
  /\ Closes(s, Store!Done(0))
  /\ \E kept \in 0 .. Len(fileTab[s].contents) : Stored(fileTab[s], kept)

\* f_open of a file that was opened for both fails, or f_close does.
CloseFails(s) ==
  /\ Writes(fileTab[s])
  /\ Closes(s, Store!Failed)
  /\ \/ MayFail("f_open") /\ fileTab[s].mode = "RDWR" /\ UNCHANGED disk
     \/ MayFail("f_close") /\ \E kept \in 0 .. Len(fileTab[s].contents) : Stored(fileTab[s], kept)

-----------------------------------------------------------------------------

Next ==
  \/ \E f \in File : OpenRefused(f) \/ Stat(f)
  \/ \E s \in Slot :
       \/ \E f \in File :
            \/ OpenRead(s, f) \/ OpenWrite(s, f) \/ OpenReadWrite(s, f)
            \/ OpenReadWriteFails(s, f)
            \/ \E mode \in Store!Mode : OpenFails(s, f, mode)
       \/ \E n \in 0 .. MaxLen : Read(s, n)
       \/ ReadFails(s)
       \/ \E bytes \in Chunk : Write(s, bytes)
       \/ \E dir \in {"SEEK_SET", "SEEK_CUR", "SEEK_END"}, ptr \in -MaxLen .. MaxLen :
            Lseek(s, dir, ptr)
       \/ LseekFails(s)
       \/ CloseUnwritten(s) \/ CloseWritten(s) \/ CloseCutShort(s) \/ CloseFails(s)

Spec == Init /\ [][Next]_vars

-----------------------------------------------------------------------------
(* Properties.                                                             *)

\* new_io.cpp:23-55: handles have copies of the whole file, however it is
\* opened and whenever it comes to memory; only _close changes a file that
\* exists, and one that succeeds has stored all that was written, or the first
\* bytes of it if f_write fails.
ImplementsStore == Store!StoreSpec

\* new_io.cpp:50-54: whatever FatFs does, a file that exists changes only when
\* it is opened to be written alone, or when a handle with something to store
\* is closed; the other handles of the file keep their contents.
SafeUntilClosed ==
  [][\A f \in File : disk[f] # None /\ disk'[f] # disk[f] =>
       \E s \in Slot :
         /\ fileTab[s].fname = f \/ fileTab'[s].fname = f
         /\ \/ ~Opened(s) /\ fileTab'[s].mode = "WRONLY"
            \/ Opened(s) /\ Writes(fileTab[s]) /\ ~Opened(s)'
         /\ \A t \in Slot \ {s} : fileTab'[t] = fileTab[t]]_vars

EntryOK(file) ==
  /\ disk[file.fname] # None
  /\ file.fil = "closed" <=> file.mode = "RDWR"
  /\ file.fil = "writing" <=> file.mode = "WRONLY"
  /\ file.mode = "RDONLY" => file.contents \in {None, disk[file.fname]}
  /\ file.written_to = 1 => file.mode # "RDONLY" /\ file.contents # None
  /\ file.mode = "WRONLY" => (file.contents # None <=> file.written_to = 1)
  /\ file.position <= Len(Data(file))

\* The comments at new_io.cpp:417, 475 and 707, as far as they are true: the FIL
\* of an entry in use is open exactly when the file is not opened for both,
\* whichever calls failed; what was written is in memory, what is read is
\* still as on the card, and the position is within the file.
FilAsAssumed == \A s \in Slot : Opened(s) => EntryOK(fileTab[s])

\* new_io.cpp:427: a _close that succeeds has dumped the contents to the file.
CloseStores ==
  last.call = "close" /\ last.data # None /\ ret.ok => disk[last.file] = last.data
=============================================================================
