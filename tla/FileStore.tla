------------------------------ MODULE FileStore -----------------------------
(***************************************************************************)
(* What new_io.cpp promises the C library, in the words of its header: a   *)
(* handle has the whole file in memory, reads and writes use that copy, and *)
(* only a close puts it on the card.  Every call may fail; a call that     *)
(* fails leaves the files and the other handles alone, and a close that    *)
(* succeeds has stored what was written, all of it unless Lossy.           *)
(***************************************************************************)
EXTENDS Integers, Sequences

CONSTANTS
  MAX_OPEN_FILES,
  File,        \* path names
  Byte,        \* byte values
  Chunk,       \* what is written at once: sequences of bytes
  Faked,       \* the files for which _stat and _open have fixed answers
  Lossy,       \* whether a close may cut a file short and not tell
  None         \* no such file, no handle

VARIABLES
  disk,        \* the contents of each file on the card, or None
  handle,      \* the open files
  ret          \* what the last call returned

storeVars == << disk, handle, ret >>

\* The first three descriptors are the standard streams.
Slot == 3 .. MAX_OPEN_FILES - 1
Mode == {"RDONLY", "WRONLY", "RDWR"}
Handle == [file : File, mode : Mode, data : Seq(Byte), pos : Nat, dirty : BOOLEAN]

Failed == [ok |-> FALSE, bytes |-> << >>, number |-> -1]
Done(n) == [ok |-> TRUE, bytes |-> << >>, number |-> n]
Bytes(b) == [ok |-> TRUE, bytes |-> b, number |-> Len(b)]

StoreInit ==
  /\ disk \in [File -> Seq(Byte) \union {None}]
  /\ handle = [s \in Slot |-> None]
  /\ ret = Done(0)

-----------------------------------------------------------------------------

\* At most n bytes of data after position pos.
Piece(data, pos, n) ==
  LET count == IF Len(data) - pos < n THEN Len(data) - pos ELSE n
  IN  [i \in 1 .. count |-> data[pos + i]]

\* data, with the bytes written over it after position pos.
Overwritten(data, pos, bytes) ==
  LET size == IF pos + Len(bytes) > Len(data) THEN pos + Len(bytes) ELSE Len(data)
  IN  [i \in 1 .. size |->
         IF i \in pos + 1 .. pos + Len(bytes) THEN bytes[i - pos] ELSE data[i]]

\* A file that is written is not open elsewhere, except that each of several
\* readers and writers in memory has a copy of its own.
Shareable(s, mode) == handle[s] # None => handle[s].mode = mode /\ mode # "WRONLY"
MayOpen(f, mode) ==
  \A s \in Slot : handle[s] # None /\ handle[s].file = f => Shareable(s, mode)

\* Opening for writing alone creates the file, or empties it.
StoreOpen(s, f, mode) ==
  LET data == IF mode = "WRONLY" THEN << >> ELSE disk[f]
  IN  /\ handle[s] = None
      /\ MayOpen(f, mode)
      /\ data # None
      /\ handle' = [handle EXCEPT ![s] = [file |-> f, mode |-> mode, data |-> data,
                                          pos |-> 0, dirty |-> FALSE]]
      /\ disk' = IF mode = "WRONLY" THEN [disk EXCEPT ![f] = << >>] ELSE disk
      /\ ret' = Done(s)

StoreRead(s, n) ==
  LET piece == Piece(handle[s].data, handle[s].pos, n)
  IN  /\ handle[s] # None
      /\ handle' = [handle EXCEPT ![s].pos = @ + Len(piece)]
      /\ ret' = Bytes(piece)
      /\ UNCHANGED disk

StoreWrite(s, bytes) ==
  /\ handle[s] # None
  /\ handle[s].mode # "RDONLY"
  /\ handle' = [handle EXCEPT ![s].data = Overwritten(@, handle[s].pos, bytes),
                              ![s].pos = @ + Len(bytes), ![s].dirty = TRUE]
  /\ ret' = Done(Len(bytes))
  /\ UNCHANGED disk

StoreSeek(s, pos) ==
  /\ handle[s] # None
  /\ pos \in 0 .. Len(handle[s].data)
  /\ handle' = [handle EXCEPT ![s].pos = pos]
  /\ ret' = Done(pos)
  /\ UNCHANGED disk

StoreAt(s) ==
  /\ handle[s] # None
  /\ \E n \in 0 .. Len(handle[s].data) : StoreRead(s, n) \/ StoreSeek(s, n)

StoreClose(s) ==
  LET h == handle[s]
  IN  /\ h # None
      /\ handle' = [handle EXCEPT ![s] = None]
      /\ disk' = IF h.dirty THEN [disk EXCEPT ![h.file] = h.data] ELSE disk
      /\ ret' = Done(0)

\* A close that fails may leave anything in a file that was written.
StoreCloseFails(s) ==
  LET h == handle[s]
  IN  /\ h # None
      /\ handle' = [handle EXCEPT ![s] = None]
      /\ \/ UNCHANGED disk
         \/ /\ h.dirty
            /\ \E kept \in 0 .. Len(h.data) :
                 disk' = [disk EXCEPT ![h.file] = SubSeq(h.data, 1, kept)]
      /\ ret' = Failed

\* A close whose write is cut short stores the first bytes of the file.
StoreCloseShort(s) ==
  LET h == handle[s]
  IN  /\ Lossy
      /\ h # None /\ h.dirty
      /\ handle' = [handle EXCEPT ![s] = None]
      /\ \E kept \in 0 .. Len(h.data) :
           disk' = [disk EXCEPT ![h.file] = SubSeq(h.data, 1, kept)]
      /\ ret' = Done(0)

StoreFails == ret' = Failed /\ UNCHANGED << disk, handle >>

\* _stat answers from the directory, except for a faked file.
StoreStat(f) ==
  /\ f \notin Faked
  /\ ret' = IF disk[f] = None THEN Failed ELSE Done(Len(disk[f]))
  /\ UNCHANGED << disk, handle >>

StoreStatFaked(f) ==
  /\ f \in Faked
  /\ ret'.ok
  /\ UNCHANGED << disk, handle >>

StoreNext ==
  \/ StoreFails
  \/ \E f \in File : StoreStat(f) \/ StoreStatFaked(f)
  \/ \E s \in Slot :
       \/ \E f \in File, mode \in Mode : StoreOpen(s, f, mode)
       \/ StoreAt(s)
       \/ \E bytes \in Chunk : StoreWrite(s, bytes)
       \/ StoreClose(s) \/ StoreCloseFails(s) \/ StoreCloseShort(s)

StoreSpec == StoreInit /\ [][StoreNext]_storeVars
=============================================================================
