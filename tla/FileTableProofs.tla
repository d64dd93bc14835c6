--------------------------- MODULE FileTableProofs --------------------------
(***************************************************************************)
(* The file table keeps its entries as the calls assume them, and does what *)
(* FileStore promises as long as writes to the card do not fail.           *)
(***************************************************************************)
EXTENDS FileTable, SequenceTheorems, TLAPS

\* What the callers see to: a file that is written is open once, unless every
\* entry of it is a copy in memory.
Unshared ==
  \A s, t \in Slot :
    s # t /\ Opened(s) /\ Opened(t) /\ fileTab[s].fname = fileTab[t].fname
      => fileTab[s].mode = fileTab[t].mode /\ fileTab[s].mode # "WRONLY"

IInv == TypeOK /\ FilAsAssumed /\ Unshared

-----------------------------------------------------------------------------
(* The operators on sequences.                                             *)

\* What a read returns is a sequence of bytes that ends within the file.
LEMMA PieceType ==
  ASSUME NEW data \in Seq(Byte), NEW pos \in Nat, NEW n \in Nat, pos <= Len(data)
  PROVE  /\ Store!Piece(data, pos, n) \in Seq(Byte)
         /\ Len(Store!Piece(data, pos, n)) \in Nat
         /\ pos + Len(Store!Piece(data, pos, n)) <= Len(data)
<1> DEFINE count == IF Len(data) - pos < n THEN Len(data) - pos ELSE n
<1>1. count \in Nat /\ pos + count <= Len(data)
  OBVIOUS
<1>2. Store!Piece(data, pos, n) = [i \in 1 .. count |-> data[pos + i]]
  BY DEF Store!Piece
<1>3. \A i \in 1 .. count : data[pos + i] \in Byte
  BY <1>1
<1> HIDE DEF count
<1>4. [i \in 1 .. count |-> data[pos + i]] \in [1 .. count -> Byte]
  BY <1>3
<1>5. QED
  BY <1>1, <1>2, <1>4

\* What a write leaves is a sequence of bytes that is long enough.
LEMMA OverwrittenType ==
  ASSUME NEW data \in Seq(Byte), NEW pos \in Nat, NEW bytes \in Seq(Byte), pos <= Len(data)
  PROVE  /\ Store!Overwritten(data, pos, bytes) \in Seq(Byte)
         /\ pos + Len(bytes) <= Len(Store!Overwritten(data, pos, bytes))
<1> DEFINE size == IF pos + Len(bytes) > Len(data) THEN pos + Len(bytes) ELSE Len(data)
           at(i) == IF i \in pos + 1 .. pos + Len(bytes) THEN bytes[i - pos] ELSE data[i]
<1>1. size \in Nat /\ pos + Len(bytes) <= size
  OBVIOUS
<1>2. Store!Overwritten(data, pos, bytes) = [i \in 1 .. size |-> at(i)]
  BY DEF Store!Overwritten
<1>3. \A i \in 1 .. size : at(i) \in Byte
  OBVIOUS
<1> HIDE DEF size, at
<1>4. [i \in 1 .. size |-> at(i)] \in [1 .. size -> Byte]
  BY <1>3
<1>5. QED
  BY <1>1, <1>2, <1>4

-----------------------------------------------------------------------------
(* How an action that changes one entry keeps the invariant.               *)

\* An entry that is in use changes.
LEMMA EntryChanges ==
  ASSUME IInv, NEW s \in Slot, Opened(s), NEW e \in CircleFile,
         e.fname = fileTab[s].fname, e.mode = fileTab[s].mode, e.in_use = 1,
         EntryOK(e), fileTab' = [fileTab EXCEPT ![s] = e], UNCHANGED disk
  PROVE  /\ fileTab' \in [Slot -> CircleFile] /\ disk' \in [File -> Seq(Byte) \union {None}]
         /\ FilAsAssumed' /\ Unshared'
<1>1. fileTab' \in [Slot -> CircleFile] /\ disk' \in [File -> Seq(Byte) \union {None}]
  BY DEF IInv, TypeOK
<1>2. FilAsAssumed'
  BY DEF IInv, TypeOK, FilAsAssumed, EntryOK, Data, Opened
<1>3. Unshared'
  BY DEF IInv, TypeOK, Unshared, Opened
<1>4. QED
  BY <1>1, <1>2, <1>3

\* An entry is freed, or stays unused.
LEMMA EntryUnused ==
  ASSUME IInv, NEW s \in Slot, NEW e \in CircleFile, e.in_use = 0,
         fileTab' = [fileTab EXCEPT ![s] = e], UNCHANGED disk
  PROVE  /\ fileTab' \in [Slot -> CircleFile] /\ disk' \in [File -> Seq(Byte) \union {None}]
         /\ FilAsAssumed' /\ Unshared'
<1>1. fileTab' \in [Slot -> CircleFile] /\ disk' \in [File -> Seq(Byte) \union {None}]
  BY DEF IInv, TypeOK
<1>2. FilAsAssumed'
  BY DEF IInv, TypeOK, FilAsAssumed, EntryOK, Data, Opened
<1>3. Unshared'
  BY DEF IInv, TypeOK, Unshared, Opened
<1>4. QED
  BY <1>1, <1>2, <1>3

\* An entry in use that is as assumed maps to a handle.
LEMMA HandleType ==
  ASSUME IInv, NEW s \in Slot, Opened(s)
  PROVE  HandleOf(fileTab[s]) \in Store!Handle
<1>1. fileTab[s] \in CircleFile /\ EntryOK(fileTab[s])
  BY DEF IInv, TypeOK, FilAsAssumed
<1>2. Data(fileTab[s]) \in Seq(Byte)
  BY <1>1 DEF IInv, TypeOK, EntryOK, Data, CircleFile
<1>3. QED
  BY <1>1, <1>2 DEF HandleOf, Opened, Store!Handle, CircleFile

\* What the callers see to, in terms of the table.
LEMMA MayOpenMeans ==
  ASSUME IInv, NEW f \in File, NEW mode \in Store!Mode, Store!MayOpen(f, mode),
         NEW t \in Slot, Opened(t), fileTab[t].fname = f
  PROVE  fileTab[t].mode = mode /\ mode # "WRONLY"
<1> DEFINE h == HandleOf(fileTab[t])
<1>1. h \in Store!Handle /\ h.file = f /\ h.mode = fileTab[t].mode
  BY HandleType DEF HandleOf, Opened
<1>2. h # None
  BY <1>1, NoneAssumption
<1>3. t \in Store!Slot /\ [s \in Slot |-> HandleOf(fileTab[s])][t] = h
  BY DEF Slot, Store!Slot
<1> HIDE DEF h
<1>4. h.mode = mode /\ mode # "WRONLY"
  BY <1>1, <1>2, <1>3 DEF Store!MayOpen, Store!Shareable
<1>5. QED
  BY <1>1, <1>4

\* A file is opened, and created anew if it is only written.
LEMMA EntryAdded ==
  ASSUME IInv, NEW s \in Slot, NEW f \in File, NEW mode \in Store!Mode, ~Opened(s),
         Store!MayOpen(f, mode), NEW e \in CircleFile, e.in_use = 1, e.fname = f,
         e.mode = mode, fileTab' = [fileTab EXCEPT ![s] = e], EntryOK(e)',
         \/ UNCHANGED disk
         \/ mode = "WRONLY" /\ disk' = [disk EXCEPT ![f] = << >>]
  PROVE  /\ fileTab' \in [Slot -> CircleFile] /\ disk' \in [File -> Seq(Byte) \union {None}]
         /\ FilAsAssumed' /\ Unshared'
<1>1. fileTab' \in [Slot -> CircleFile] /\ disk' \in [File -> Seq(Byte) \union {None}]
  <2>1. fileTab' \in [Slot -> CircleFile]
    BY DEF IInv, TypeOK
  <2>2. << >> \in Seq(Byte)
    OBVIOUS
  <2>3. disk' \in [File -> Seq(Byte) \union {None}]
    BY <2>2 DEF IInv, TypeOK
  <2>4. QED
    BY <2>1, <2>3
<1>2. \A t \in Slot : Opened(t) /\ fileTab[t].fname = f => fileTab[t].mode = mode /\ mode # "WRONLY"
  BY MayOpenMeans
<1>3. \A t \in Slot \ {s} : fileTab'[t] = fileTab[t]
  BY DEF IInv, TypeOK
<1>4. fileTab'[s] = e
  BY DEF IInv, TypeOK
<1>5. FilAsAssumed'
  <2> SUFFICES ASSUME NEW t \in Slot, t # s, Opened(t), EntryOK(fileTab[t])
               PROVE  EntryOK(fileTab[t])'
    BY <1>3, <1>4 DEF IInv, FilAsAssumed, Opened, EntryOK, Data
  <2>1. fileTab'[t] = fileTab[t] /\ fileTab[t].fname \in File
    BY <1>3 DEF IInv, TypeOK, CircleFile
  <2>2. disk'[fileTab[t].fname] = disk[fileTab[t].fname]
    BY <1>2, <2>1 DEF IInv, TypeOK
  <2>3. QED
    BY <2>1, <2>2 DEF EntryOK, Data
<1>6. Unshared'
  BY <1>2, <1>3, <1>4 DEF IInv, Unshared, Opened
<1>7. QED
  BY <1>1, <1>5, <1>6

\* A file with something to store is closed, and kept bytes of it are stored.
LEMMA EntryStored ==
  ASSUME IInv, NEW s \in Slot, NEW e \in CircleFile, Opened(s), e.in_use = 0,
         fileTab[s].mode # "RDONLY", NEW data \in Seq(Byte),
         fileTab' = [fileTab EXCEPT ![s] = e],
         disk' = [disk EXCEPT ![fileTab[s].fname] = data]
  PROVE  /\ fileTab' \in [Slot -> CircleFile] /\ disk' \in [File -> Seq(Byte) \union {None}]
         /\ FilAsAssumed' /\ Unshared'
<1>1. fileTab' \in [Slot -> CircleFile] /\ disk' \in [File -> Seq(Byte) \union {None}]
  BY DEF IInv, TypeOK
<1>2. \A t \in Slot \ {s} : fileTab'[t] = fileTab[t]
  BY DEF IInv, TypeOK
<1>3. fileTab'[s] = e
  BY DEF IInv, TypeOK
<1>4. FilAsAssumed'
  <2> SUFFICES ASSUME NEW t \in Slot, t # s, Opened(t), EntryOK(fileTab[t])
               PROVE  EntryOK(fileTab[t])'
    BY <1>2, <1>3 DEF IInv, FilAsAssumed, Opened
  <2>1. /\ fileTab'[t] = fileTab[t] /\ fileTab[t] \in CircleFile
        /\ fileTab[t].fname \in File /\ fileTab[s].fname \in File
    BY <1>2 DEF IInv, TypeOK, CircleFile
  <2>2. CASE fileTab[t].fname = fileTab[s].fname
    <3>1. fileTab[t].mode # "RDONLY"
      BY <2>2 DEF IInv, Unshared
    <3>2. disk'[fileTab[t].fname] # None
      BY <2>1, <2>2, NoneAssumption DEF IInv, TypeOK
    <3>3. Data(fileTab[t])' = Data(fileTab[t])
      BY <2>1, <3>1 DEF Data
    <3>4. QED
      BY <2>1, <3>1, <3>2, <3>3 DEF EntryOK
  <2>3. CASE fileTab[t].fname # fileTab[s].fname
    <3>1. disk'[fileTab[t].fname] = disk[fileTab[t].fname]
      BY <2>1, <2>3 DEF IInv, TypeOK
    <3>2. QED
      BY <2>1, <3>1 DEF EntryOK, Data
  <2>4. QED
    BY <2>2, <2>3
<1>5. Unshared'
  BY <1>2, <1>3 DEF IInv, Unshared, Opened
<1>6. QED
  BY <1>1, <1>4, <1>5

-----------------------------------------------------------------------------
(* The results.                                                            *)

Result == [ok : BOOLEAN, bytes : Seq(Byte), number : Int]
Call == [call : {"other", "close"}, file : File, data : Seq(Byte) \union {None}]

\* The results of the calls are well typed.
LEMMA ResultType ==
  /\ Store!Failed \in Result
  /\ \A n \in Int : Store!Done(n) \in Result
  /\ \A b \in Seq(Byte) : Store!Bytes(b) \in Result
BY DEF Store!Failed, Store!Done, Store!Bytes, Result

\* A call that returns one leaves ret and last well typed.
LEMMA ReturnsType ==
  ASSUME IInv, NEW r \in Result, Returns(r)
  PROVE  ret' \in Result /\ last' \in Call
BY DEF IInv, TypeOK, Returns, Result, Call

\* So does a call that fails.
LEMMA FailsType ==
  ASSUME IInv, Fails
  PROVE  ret' \in Result /\ last' \in Call
BY ReturnsType, ResultType DEF Fails

\* What a step has to show of its parts.
LEMMA PartsOfInvariant ==
  ASSUME fileTab' \in [Slot -> CircleFile], disk' \in [File -> Seq(Byte) \union {None}],
         ret' \in Result, last' \in Call, FilAsAssumed', Unshared'
  PROVE  IInv'
BY DEF IInv, TypeOK, Result, Call

\* A call that changes neither the card nor the table preserves the invariant.
LEMMA TableUnchanged ==
  ASSUME IInv, UNCHANGED << disk, fileTab >>, ret' \in Result, last' \in Call
  PROVE  IInv'
<1>1. FilAsAssumed' /\ Unshared'
  BY DEF IInv, FilAsAssumed, Unshared, EntryOK, Data, Opened
<1>2. QED
  BY <1>1, PartsOfInvariant DEF IInv, TypeOK

\* The empty table has the invariant.
LEMMA InitInv == Init => IInv
<1> SUFFICES ASSUME Init PROVE IInv
  OBVIOUS
<1>1. PICK f \in File : /\ fileTab = [s \in Slot |-> Unused(f)]
                        /\ last = [call |-> "other", file |-> f, data |-> None]
  BY DEF Init
<1>2. Unused(f) \in CircleFile /\ Unused(f).in_use = 0
  BY DEF Unused, CircleFile, Store!Mode
<1>3. TypeOK
  <2>1. disk \in [File -> Seq(Byte) \union {None}]
    <3>1. Chunk \union {<< >>, None} \subseteq Seq(Byte) \union {None}
      <4>1. << >> \in Seq(Byte)
        OBVIOUS
      <4>2. QED
        BY <4>1, TableAssumption, Zenon
    <3>2. disk \in [File -> Chunk \union {<< >>, None}]
      BY DEF Init
    <3>3. QED
      BY <3>1, <3>2
  <2>2. ret \in Result
    BY ResultType DEF Init
  <2>3. last \in Call
    BY <1>1 DEF Call
  <2>4. QED
    BY <1>1, <1>2, <2>1, <2>2, <2>3 DEF TypeOK, Result, Call
<1>4. \A s \in Slot : ~Opened(s)
  BY <1>1, <1>2 DEF Opened
<1>5. QED
  BY <1>3, <1>4 DEF IInv, FilAsAssumed, Unshared

-----------------------------------------------------------------------------
(* One lemma per action that changes the table.                            *)

\* _open, when it succeeds.
LEMMA OpenInv ==
  ASSUME IInv, NEW s \in Slot, NEW f \in File,
         OpenRead(s, f) \/ OpenWrite(s, f) \/ OpenReadWrite(s, f)
  PROVE  IInv'
<1>1. s \in Int
  BY TableAssumption DEF Slot
<1>2. Store!Done(s) \in Result
  BY <1>1, ResultType
<1>3. ~Opened(s)
  BY DEF OpenRead, OpenWrite, OpenReadWrite, FreeSlot
<1>4. ret' \in Result /\ last' \in Call
  BY <1>2, ReturnsType DEF OpenRead, OpenWrite, OpenReadWrite
<1>5. CASE OpenRead(s, f)
  <2> DEFINE e == Entry(f, "RDONLY", "reading", None)
  <2>1. e \in CircleFile /\ e.in_use = 1 /\ e.fname = f /\ e.mode = "RDONLY"
    BY DEF Entry, CircleFile, Store!Mode
  <2>2. disk[f] # None /\ UNCHANGED disk /\ disk[f] \in Seq(Byte)
    BY <1>5 DEF OpenRead, IInv, TypeOK
  <2>3. EntryOK(e)'
    BY <2>2 DEF Entry, EntryOK, Data
  <2>4. fileTab' = [fileTab EXCEPT ![s] = e] /\ Store!MayOpen(f, "RDONLY")
    BY <1>5 DEF OpenRead
  <2> HIDE DEF e
  <2>5. /\ fileTab' \in [Slot -> CircleFile] /\ disk' \in [File -> Seq(Byte) \union {None}]
        /\ FilAsAssumed' /\ Unshared'
    BY <1>3, <2>1, <2>2, <2>3, <2>4, EntryAdded DEF Store!Mode
  <2>6. QED
    BY <1>4, <2>5, PartsOfInvariant
<1>6. CASE OpenWrite(s, f)
  <2> DEFINE e == Entry(f, "WRONLY", "writing", None)
  <2>1. e \in CircleFile /\ e.in_use = 1 /\ e.fname = f /\ e.mode = "WRONLY"
    BY DEF Entry, CircleFile, Store!Mode
  <2>2. << >> \in Seq(Byte) /\ disk' = [disk EXCEPT ![f] = << >>]
    BY <1>6 DEF OpenWrite
  <2>3. disk'[f] # None
    BY <2>2, NoneAssumption DEF IInv, TypeOK
  <2>4. EntryOK(e)'
    BY <2>3 DEF Entry, EntryOK, Data
  <2>5. fileTab' = [fileTab EXCEPT ![s] = e] /\ Store!MayOpen(f, "WRONLY")
    BY <1>6 DEF OpenWrite
  <2> HIDE DEF e
  <2>6. /\ fileTab' \in [Slot -> CircleFile] /\ disk' \in [File -> Seq(Byte) \union {None}]
        /\ FilAsAssumed' /\ Unshared'
    BY <1>3, <2>1, <2>2, <2>4, <2>5, EntryAdded DEF Store!Mode
  <2>7. QED
    BY <1>4, <2>6, PartsOfInvariant
<1>7. CASE OpenReadWrite(s, f)
  <2>1. disk[f] # None /\ UNCHANGED disk /\ disk[f] \in Seq(Byte)
    BY <1>7 DEF OpenReadWrite, IInv, TypeOK
  <2>2. Slurped(disk[f]) \in Seq(Byte) \union {None}
    BY <2>1 DEF Slurped
  <2>3. PICK e : e = Entry(f, "RDWR", "closed", Slurped(disk[f]))
    OBVIOUS
  <2>4. e \in CircleFile /\ e.in_use = 1 /\ e.fname = f /\ e.mode = "RDWR"
    BY <2>2, <2>3 DEF Entry, CircleFile, Store!Mode
  <2>5. EntryOK(e)'
    BY <2>1, <2>2, <2>3 DEF Entry, EntryOK, Data
  <2>6. fileTab' = [fileTab EXCEPT ![s] = e] /\ Store!MayOpen(f, "RDWR")
    BY <1>7, <2>3 DEF OpenReadWrite
  <2>7. /\ fileTab' \in [Slot -> CircleFile] /\ disk' \in [File -> Seq(Byte) \union {None}]
        /\ FilAsAssumed' /\ Unshared'
    BY <1>3, <2>1, <2>4, <2>5, <2>6, EntryAdded DEF Store!Mode
  <2>8. QED
    BY <1>4, <2>7, PartsOfInvariant
<1>8. QED
  BY <1>5, <1>6, <1>7

\* An _open that fails leaves an entry that is not in use.
LEMMA OpenFailsEntry ==
  ASSUME IInv, NEW s \in Slot, NEW f \in File,
         \/ OpenReadWriteFails(s, f)
         \/ \E mode \in Store!Mode : OpenFails(s, f, mode)
  PROVE  /\ ~Opened(s) /\ UNCHANGED disk
         /\ \E e \in CircleFile : fileTab' = [fileTab EXCEPT ![s] = e] /\ e.in_use = 0
<1>1. ~Opened(s) /\ UNCHANGED disk
  BY DEF OpenReadWriteFails, OpenFails, FreeSlot
<1>2. CASE \E mode \in Store!Mode : OpenFails(s, f, mode)
  <2> DEFINE e == [fileTab[s] EXCEPT !.fil = "closed"]
  <2>1. fileTab' = [fileTab EXCEPT ![s] = e]
    BY <1>2 DEF OpenFails
  <2>2. e \in CircleFile /\ e.in_use = 0
    BY <1>1 DEF IInv, TypeOK, CircleFile, Opened
  <2>3. QED
    BY <1>1, <2>1, <2>2
<1>3. CASE OpenReadWriteFails(s, f)
  <2>1. disk[f] # None /\ disk[f] \in Seq(Byte)
    BY <1>3 DEF OpenReadWriteFails, IInv, TypeOK
  <2>2. [Entry(f, "RDWR", "failed", None) EXCEPT !.in_use = 0] \in CircleFile
    BY DEF Entry, CircleFile, Store!Mode
  <2>3. Slurped(disk[f]) \in Seq(Byte) \union {None}
    BY <2>1 DEF Slurped
  <2>4. [Entry(f, "RDWR", "reading", Slurped(disk[f])) EXCEPT !.in_use = 0] \in CircleFile
    BY <2>3 DEF Entry, CircleFile, Store!Mode
  <2>5. QED
    BY <1>1, <1>3, <2>2, <2>4 DEF OpenReadWriteFails, Entry
<1>4. QED
  BY <1>2, <1>3

\* _open, when it fails after it has touched the slot.
LEMMA OpenFailsInv ==
  ASSUME IInv, NEW s \in Slot, NEW f \in File,
         \/ OpenReadWriteFails(s, f)
         \/ \E mode \in Store!Mode : OpenFails(s, f, mode)
  PROVE  IInv'
<1>1. ret' \in Result /\ last' \in Call
  BY FailsType DEF OpenReadWriteFails, OpenFails
<1>2. PICK e \in CircleFile : fileTab' = [fileTab EXCEPT ![s] = e] /\ e.in_use = 0
  BY OpenFailsEntry
<1>3. UNCHANGED disk
  BY OpenFailsEntry
<1>4. QED
  BY <1>1, <1>2, <1>3, EntryUnused, PartsOfInvariant

\* _read, from memory or the card.
LEMMA ReadInv ==
  ASSUME IInv, NEW s \in Slot, NEW n \in Nat, Read(s, n)
  PROVE  IInv'
<1> DEFINE file  == fileTab[s]
           data  == IF file.contents # None THEN file.contents ELSE disk[file.fname]
           piece == Store!Piece(data, file.position, n)
           e     == [file EXCEPT !.position = @ + Len(piece)]
<1>1. file \in CircleFile /\ EntryOK(file) /\ Opened(s)
  BY DEF Read, IInv, TypeOK, FilAsAssumed
<1>2. data = Data(file) /\ data \in Seq(Byte) /\ file.position \in Nat /\ file.position <= Len(data)
  <2>1. file.contents = None => file.mode = "RDONLY"
    BY <1>1, NoneAssumption DEF Read, EntryOK, CircleFile, Store!Mode
  <2>2. data = Data(file)
    BY <2>1 DEF Data
  <2>3. data \in Seq(Byte)
    BY <1>1, <2>1 DEF EntryOK, IInv, TypeOK, CircleFile
  <2>4. QED
    BY <1>1, <2>2, <2>3 DEF EntryOK, CircleFile
<1> HIDE DEF data
<1>3. piece \in Seq(Byte) /\ Len(piece) \in Nat /\ file.position + Len(piece) <= Len(data)
  BY <1>2, PieceType
<1>4. fileTab' = [fileTab EXCEPT ![s] = e] /\ Returns(Store!Bytes(piece)) /\ UNCHANGED disk
  BY DEF Read, IInv, TypeOK, data
<1> HIDE DEF piece
<1>5. /\ e \in CircleFile /\ e.in_use = 1 /\ e.fname = file.fname /\ e.mode = file.mode
      /\ e.fil = file.fil /\ e.contents = file.contents /\ e.written_to = file.written_to
      /\ e.position = file.position + Len(piece)
  BY <1>1, <1>3 DEF CircleFile, Opened
<1> HIDE DEF e
<1>6. Data(e) = Data(file)
  BY <1>5 DEF Data
<1>7. EntryOK(e)
  BY <1>1, <1>2, <1>3, <1>5, <1>6 DEF EntryOK
<1>8. ret' \in Result /\ last' \in Call
  BY <1>3, <1>4, ReturnsType, ResultType
<1>9. /\ fileTab' \in [Slot -> CircleFile] /\ disk' \in [File -> Seq(Byte) \union {None}]
      /\ FilAsAssumed' /\ Unshared'
  BY <1>1, <1>4, <1>5, <1>7, EntryChanges
<1>10. QED
  BY <1>8, <1>9, PartsOfInvariant

\* A call that fails leaves the FIL failed, if it was open to be read.
LEMMA FilFailsInv ==
  ASSUME IInv, NEW s \in Slot, ReadFails(s) \/ LseekFails(s)
  PROVE  IInv'
<1> DEFINE e == [fileTab[s] EXCEPT !.fil = "failed"]
<1>1. fileTab[s] \in CircleFile /\ EntryOK(fileTab[s]) /\ Opened(s)
  BY DEF ReadFails, LseekFails, IInv, TypeOK, FilAsAssumed
<1>2. ret' \in Result /\ last' \in Call
  BY FailsType DEF ReadFails, LseekFails
<1>3. CASE UNCHANGED << disk, fileTab >>
  BY <1>2, <1>3, TableUnchanged
<1>4. CASE fileTab' = [fileTab EXCEPT ![s] = e] /\ UNCHANGED disk /\ fileTab[s].mode = "RDONLY"
  <2>1. /\ e \in CircleFile /\ e.in_use = 1 /\ e.fname = fileTab[s].fname
        /\ e.mode = "RDONLY" /\ e.fil = "failed" /\ e.contents = fileTab[s].contents
        /\ e.written_to = fileTab[s].written_to /\ e.position = fileTab[s].position
    BY <1>1, <1>4 DEF CircleFile, Opened
  <2> HIDE DEF e
  <2>2. EntryOK(e)
    BY <1>1, <1>4, <2>1 DEF EntryOK, Data
  <2>3. /\ fileTab' \in [Slot -> CircleFile] /\ disk' \in [File -> Seq(Byte) \union {None}]
        /\ FilAsAssumed' /\ Unshared'
    BY <1>1, <1>4, <2>1, <2>2, EntryChanges
  <2>4. QED
    BY <1>2, <2>3, PartsOfInvariant
<1>5. CASE ReadFails(s)
  BY <1>1, <1>3, <1>4, <1>5 DEF ReadFails, EntryOK, CircleFile, Store!Mode
<1>6. CASE LseekFails(s)
  BY <1>4, <1>6 DEF LseekFails, NeedsFil
<1>7. QED
  BY <1>5, <1>6

\* _write.
LEMMA WriteInv ==
  ASSUME IInv, NEW s \in Slot, NEW bytes \in Chunk, Write(s, bytes)
  PROVE  IInv'
<1> DEFINE file == fileTab[s]
           old  == IF file.contents = None THEN << >> ELSE file.contents
           new  == Store!Overwritten(old, file.position, bytes)
           e    == [file EXCEPT !.contents = new, !.position = @ + Len(bytes), !.written_to = 1]
<1>1. file \in CircleFile /\ EntryOK(file) /\ Opened(s) /\ file.mode # "RDONLY"
  BY DEF Write, IInv, TypeOK, FilAsAssumed
<1>2. bytes \in Seq(Byte) /\ Len(bytes) \in Nat
  BY TableAssumption
<1>3. old = Data(file) /\ old \in Seq(Byte) /\ file.position \in Nat /\ file.position <= Len(old)
  <2>1. << >> \in Seq(Byte)
    OBVIOUS
  <2>2. old = Data(file)
    BY <1>1 DEF Data
  <2>3. old \in Seq(Byte)
    BY <1>1, <2>1 DEF CircleFile
  <2>4. QED
    BY <1>1, <2>2, <2>3 DEF EntryOK, CircleFile
<1> HIDE DEF old
<1>4. new \in Seq(Byte) /\ file.position + Len(bytes) <= Len(new)
  BY <1>2, <1>3, OverwrittenType
<1>5. fileTab' = [fileTab EXCEPT ![s] = e] /\ Returns(Store!Done(Len(bytes))) /\ UNCHANGED disk
  BY DEF Write, IInv, TypeOK, old
<1> HIDE DEF new
<1>6. /\ e \in CircleFile /\ e.in_use = 1 /\ e.fname = file.fname /\ e.mode = file.mode
      /\ e.fil = file.fil /\ e.contents = new /\ e.position = file.position + Len(bytes)
      /\ e.written_to = 1
  <2> DEFINE end == file.position + Len(bytes)
  <2>1. end \in Nat
    BY <1>2, <1>3
  <2>2. new \in Seq(Byte) \union {None}
    BY <1>4
  <2>3. e = [file EXCEPT !.contents = new, !.position = end, !.written_to = 1]
    OBVIOUS
  <2> HIDE DEF end
  <2>4. e \in CircleFile
    BY <1>1, <2>1, <2>2, <2>3 DEF CircleFile
  <2>5. QED
    BY <1>1, <2>3, <2>4 DEF CircleFile, Opened, end
<1> HIDE DEF e
<1>7. new # None
  BY <1>4, NoneAssumption
<1>8. EntryOK(e)
  BY <1>1, <1>4, <1>6, <1>7 DEF EntryOK, Data
<1>9. ret' \in Result /\ last' \in Call
  BY <1>2, <1>5, ReturnsType, ResultType
<1>10. /\ fileTab' \in [Slot -> CircleFile] /\ disk' \in [File -> Seq(Byte) \union {None}]
       /\ FilAsAssumed' /\ Unshared'
  BY <1>1, <1>5, <1>6, <1>8, EntryChanges
<1>11. QED
  BY <1>9, <1>10, PartsOfInvariant

\* _lseek, with the move to memory.
LEMMA LseekInv ==
  ASSUME IInv, NEW s \in Slot, NEW dir \in {"SEEK_SET", "SEEK_CUR", "SEEK_END"}, NEW ptr \in Int,
         Lseek(s, dir, ptr)
  PROVE  IInv'
<1> DEFINE file   == fileTab[s]
           target == Target(file, dir, ptr)
           sought == Sought(file)
           e      == [sought EXCEPT !.position = target]
<1>1. file \in CircleFile /\ EntryOK(file) /\ Opened(s)
  BY DEF Lseek, IInv, TypeOK, FilAsAssumed
<1>2. /\ fileTab' = [fileTab EXCEPT ![s] = e] /\ Returns(Store!Done(target)) /\ UNCHANGED disk
      /\ target \in 0 .. Len(Data(file))
  BY DEF Lseek
<1>3. Data(file) \in Seq(Byte)
  BY <1>1 DEF Data, EntryOK, CircleFile, IInv, TypeOK
<1>4. target \in Nat /\ target <= Len(Data(file))
  BY <1>2, <1>3
<1> HIDE DEF target
<1>5. /\ sought \in CircleFile /\ EntryOK(sought) /\ sought.fname = file.fname
      /\ sought.mode = file.mode /\ sought.in_use = 1 /\ Data(sought) = Data(file)
  <2>1. CASE file.contents = None /\ file.mode = "RDONLY"
    <3> DEFINE new == Slurped(disk[file.fname])
    <3>1. disk[file.fname] \in Seq(Byte) /\ new \in {None, disk[file.fname]}
      BY <1>1 DEF EntryOK, IInv, TypeOK, CircleFile, Slurped
    <3>2. sought = [file EXCEPT !.contents = new]
      BY <2>1 DEF Sought
    <3>3. Data(sought) = Data(file)
      BY <1>1, <2>1, <3>1, <3>2 DEF Data, CircleFile
    <3> HIDE DEF new
    <3>4. sought \in CircleFile /\ sought.fname = file.fname /\ sought.mode = file.mode
          /\ sought.in_use = 1 /\ sought.fil = file.fil /\ sought.contents = new
          /\ sought.written_to = file.written_to /\ sought.position = file.position
      BY <1>1, <3>1, <3>2 DEF CircleFile, Opened
    <3>5. EntryOK(sought)
      BY <1>1, <2>1, <3>1, <3>3, <3>4 DEF EntryOK
    <3>6. QED
      BY <3>3, <3>4, <3>5
  <2>2. CASE ~(file.contents = None /\ file.mode = "RDONLY")
    BY <1>1, <2>2 DEF Sought, Opened
  <2>3. QED
    BY <2>1, <2>2
<1> HIDE DEF sought
<1>6. /\ e \in CircleFile /\ e.in_use = 1 /\ e.fname = file.fname /\ e.mode = file.mode
      /\ e.fil = sought.fil /\ e.contents = sought.contents /\ e.written_to = sought.written_to
      /\ e.position = target
  BY <1>4, <1>5 DEF CircleFile
<1> HIDE DEF e
<1>7. Data(e) = Data(sought)
  BY <1>5, <1>6 DEF Data
<1>8. EntryOK(e)
  BY <1>4, <1>5, <1>6, <1>7 DEF EntryOK
<1>9. ret' \in Result /\ last' \in Call
  BY <1>2, <1>4, ReturnsType, ResultType
<1>10. /\ fileTab' \in [Slot -> CircleFile] /\ disk' \in [File -> Seq(Byte) \union {None}]
       /\ FilAsAssumed' /\ Unshared'
  BY <1>1, <1>2, <1>6, <1>8, EntryChanges
<1>11. QED
  BY <1>9, <1>10, PartsOfInvariant

\* _stat changes nothing.
LEMMA StatInv ==
  ASSUME IInv, NEW f \in File, Stat(f)
  PROVE  IInv'
<1>1. \A r \in FastStat(f) : r \in Result
  <2>1. \A i \in {i \in DOMAIN BootStat : Deciding(f, i)} : BootStat[i].size \in Int
    BY TableAssumption
  <2>2. QED
    BY <2>1, ResultType DEF FastStat
<1>2. disk[f] # None => Len(disk[f]) \in Int
  BY DEF IInv, TypeOK
<1>3. ret' \in Result
  BY <1>1, <1>2, ResultType DEF Stat
<1>4. last' \in Call
  BY DEF Stat, Call, IInv, TypeOK
<1>5. QED
  BY <1>3, <1>4, TableUnchanged DEF Stat

\* _close, however it ends.
LEMMA CloseInv ==
  ASSUME IInv, NEW s \in Slot,
         CloseUnwritten(s) \/ CloseWritten(s) \/ CloseCutShort(s) \/ CloseFails(s)
  PROVE  IInv'
<1> DEFINE file == fileTab[s]
           e    == Unused(file.fname)
<1>1. PICK result \in Result : Closes(s, result)
  BY ResultType DEF CloseUnwritten, CloseWritten, CloseCutShort, CloseFails
<1>2. file \in CircleFile /\ Opened(s) /\ fileTab' = [fileTab EXCEPT ![s] = e]
  BY <1>1 DEF IInv, TypeOK, Closes
<1>3. e \in CircleFile /\ e.in_use = 0
  BY <1>2 DEF Unused, CircleFile, Store!Mode
<1>4. ret' \in Result /\ last' \in Call
  <2>1. ret' = result
    BY <1>1 DEF Closes
  <2>2. last' = [call |-> "close", file |-> file.fname,
                 data |-> IF Writes(file) THEN file.contents ELSE None]
    BY <1>1 DEF Closes
  <2>3. file.fname \in File /\ file.contents \in Seq(Byte) \union {None}
    BY <1>2 DEF CircleFile
  <2>4. QED
    BY <2>1, <2>2, <2>3 DEF Call
<1> HIDE DEF e
<1>5. CASE UNCHANGED disk
  <2>1. /\ fileTab' \in [Slot -> CircleFile] /\ disk' \in [File -> Seq(Byte) \union {None}]
        /\ FilAsAssumed' /\ Unshared'
    BY <1>2, <1>3, <1>5, EntryUnused
  <2>2. QED
    BY <1>4, <2>1, PartsOfInvariant
<1>6. CASE Writes(file) /\ \E kept \in 0 .. Len(file.contents) : Stored(file, kept)
  <2>1. file.mode # "RDONLY" /\ file.contents \in Seq(Byte)
    BY <1>2, <1>6 DEF Writes, CircleFile
  <2>2. PICK kept \in 0 .. Len(file.contents) : Stored(file, kept)
    BY <1>6
  <2>3. SubSeq(file.contents, 1, kept) \in Seq(Byte)
    BY <2>1, <2>2
  <2>4. disk' = [disk EXCEPT ![file.fname] = SubSeq(file.contents, 1, kept)]
    BY <2>2 DEF Stored
  <2>5. /\ fileTab' \in [Slot -> CircleFile] /\ disk' \in [File -> Seq(Byte) \union {None}]
        /\ FilAsAssumed' /\ Unshared'
    BY <1>2, <1>3, <2>1, <2>3, <2>4, EntryStored
  <2>6. QED
    BY <1>4, <2>5, PartsOfInvariant
<1>7. CASE CloseUnwritten(s)
  BY <1>5, <1>7 DEF CloseUnwritten
<1>8. CASE CloseWritten(s)
  <2>1. Writes(file) /\ file.contents \in Seq(Byte)
    BY <1>2, <1>8 DEF CloseWritten, Writes, CircleFile
  <2>2. Len(file.contents) \in 0 .. Len(file.contents)
    BY <2>1
  <2>3. QED
    BY <1>6, <1>8, <2>1, <2>2 DEF CloseWritten
<1>9. CASE CloseCutShort(s)
  BY <1>6, <1>9 DEF CloseCutShort
<1>10. CASE CloseFails(s)
  BY <1>5, <1>6, <1>10 DEF CloseFails
<1>11. QED
  BY <1>7, <1>8, <1>9, <1>10

\* Every call preserves the invariant.
LEMMA StepInv == IInv /\ [Next]_vars => IInv'
<1> SUFFICES ASSUME IInv, [Next]_vars PROVE IInv'
  OBVIOUS
<1>1. ASSUME NEW f \in File, OpenRefused(f) PROVE IInv'
  BY <1>1, FailsType, TableUnchanged DEF OpenRefused
<1>2. ASSUME NEW f \in File, Stat(f) PROVE IInv'
  BY <1>2, StatInv
<1>3. ASSUME NEW s \in Slot, NEW f \in File,
             OpenRead(s, f) \/ OpenWrite(s, f) \/ OpenReadWrite(s, f)
      PROVE  IInv'
  BY <1>3, OpenInv
<1>4. ASSUME NEW s \in Slot, NEW f \in File,
             \/ OpenReadWriteFails(s, f)
             \/ \E mode \in Store!Mode : OpenFails(s, f, mode)
      PROVE  IInv'
  BY <1>4, OpenFailsInv
<1>5. ASSUME NEW s \in Slot, NEW n \in 0 .. MaxLen, Read(s, n) PROVE IInv'
  BY <1>5, ReadInv, TableAssumption
<1>6. ASSUME NEW s \in Slot, ReadFails(s) \/ LseekFails(s) PROVE IInv'
  BY <1>6, FilFailsInv
<1>7. ASSUME NEW s \in Slot, NEW bytes \in Chunk, Write(s, bytes) PROVE IInv'
  BY <1>7, WriteInv
<1>8. ASSUME NEW s \in Slot, NEW dir \in {"SEEK_SET", "SEEK_CUR", "SEEK_END"},
             NEW ptr \in -MaxLen .. MaxLen, Lseek(s, dir, ptr)
      PROVE  IInv'
  BY <1>8, LseekInv, TableAssumption
<1>9. ASSUME NEW s \in Slot,
             CloseUnwritten(s) \/ CloseWritten(s) \/ CloseCutShort(s) \/ CloseFails(s)
      PROVE  IInv'
  BY <1>9, CloseInv
<1>10. CASE UNCHANGED vars
  BY <1>10 DEF vars, IInv, TypeOK, FilAsAssumed, Unshared, EntryOK, Data, Opened
<1>11. QED
  BY <1>1, <1>2, <1>3, <1>4, <1>5, <1>6, <1>7, <1>8, <1>9, <1>10 DEF Next

-----------------------------------------------------------------------------
(* The theorems.                                                           *)

\* The state keeps its type: in particular no position or read pointer leaves
\* the naturals, whatever is sought.
THEOREM FilesTypeCorrect == Spec => []TypeOK
<1>1. IInv => TypeOK
  BY DEF IInv
<1>2. QED
  BY <1>1, InitInv, StepInv, PTL DEF Spec

\* The asserts and the assumptions of new_io.cpp on the FIL of an entry hold,
\* whatever FatFs calls fail.
THEOREM FilAlwaysAsAssumed == Spec => []FilAsAssumed
<1>1. IInv => FilAsAssumed
  BY DEF IInv
<1>2. QED
  BY <1>1, InitInv, StepInv, PTL DEF Spec

\* Only opening a file to be written alone, or closing a handle with something
\* to store, changes a file of the card, and the other handles keep theirs.
THEOREM SafeAlways == Spec => SafeUntilClosed
<1> DEFINE Safe == \A f \in File : disk[f] # None /\ disk'[f] # disk[f] =>
                     \E s \in Slot :
                       /\ fileTab[s].fname = f \/ fileTab'[s].fname = f
                       /\ \/ ~Opened(s) /\ fileTab'[s].mode = "WRONLY"
                          \/ Opened(s) /\ Writes(fileTab[s]) /\ ~Opened(s)'
                       /\ \A t \in Slot \ {s} : fileTab'[t] = fileTab[t]
<1>1. ASSUME IInv, NEW s \in Slot, NEW f \in File, OpenWrite(s, f) PROVE Safe
  <2>1. \A g \in File : g # f => disk'[g] = disk[g]
    BY <1>1 DEF OpenWrite, IInv, TypeOK
  <2>2. fileTab'[s].fname = f /\ fileTab'[s].mode = "WRONLY" /\ ~Opened(s)
    BY <1>1 DEF OpenWrite, IInv, TypeOK, Entry, FreeSlot
  <2>3. \A t \in Slot \ {s} : fileTab'[t] = fileTab[t]
    BY <1>1 DEF OpenWrite, IInv, TypeOK
  <2>4. QED
    BY <2>1, <2>2, <2>3
<1>2. ASSUME IInv, NEW s \in Slot, CloseWritten(s) \/ CloseCutShort(s) \/ CloseFails(s)
      PROVE  Safe
  <2>1. Writes(fileTab[s]) /\ \E r \in Result : Closes(s, r)
    BY <1>2, ResultType DEF CloseWritten, CloseCutShort, CloseFails
  <2>2. Opened(s) /\ ~Opened(s)' /\ \A t \in Slot \ {s} : fileTab'[t] = fileTab[t]
    BY <1>2, <2>1 DEF Closes, Opened, Unused, IInv, TypeOK
  <2>3. \A g \in File : g # fileTab[s].fname => disk'[g] = disk[g]
    BY <1>2 DEF CloseWritten, CloseCutShort, CloseFails, Stored, IInv, TypeOK
  <2>4. QED
    BY <2>1, <2>2, <2>3
<1>3. IInv /\ [Next]_vars => [Safe]_vars
  <2> SUFFICES ASSUME IInv, Next, ~UNCHANGED disk PROVE Safe
    BY DEF vars
  <2> QED
    BY <1>1, <1>2 DEF Next, OpenRefused, Stat, OpenRead, OpenReadWrite, OpenReadWriteFails,
         OpenFails, Read, ReadFails, Write, Lseek, LseekFails, CloseUnwritten
<1> HIDE DEF Safe
<1>4. Spec => [][Safe]_vars
  BY <1>3, InitInv, StepInv, PTL DEF Spec
<1>5. QED
  BY <1>4 DEF SafeUntilClosed, Safe

-----------------------------------------------------------------------------
(* The table implements FileStore.                                         *)

Handles == [s \in Slot |-> HandleOf(fileTab[s])]

\* A change of one entry is a change of one handle.
LEMMA HandleChanges ==
  ASSUME IInv, NEW s \in Slot, NEW e \in CircleFile, fileTab' = [fileTab EXCEPT ![s] = e],
         \A t \in Slot \ {s} :
           Opened(t) => \/ fileTab[t].mode # "RDONLY"
                        \/ disk'[fileTab[t].fname] = disk[fileTab[t].fname]
  PROVE  Handles' = [Handles EXCEPT ![s] = HandleOf(e)']
<1>1. fileTab'[s] = e /\ \A t \in Slot \ {s} : fileTab'[t] = fileTab[t]
  BY DEF IInv, TypeOK
<1>2. ASSUME NEW t \in Slot, t # s PROVE HandleOf(fileTab[t])' = HandleOf(fileTab[t])
  <2>1. fileTab'[t] = fileTab[t] /\ fileTab[t].in_use \in {0, 1}
    BY <1>1, <1>2 DEF IInv, TypeOK, CircleFile
  <2>2. Opened(t) => Data(fileTab[t])' = Data(fileTab[t])
    BY <1>2, <2>1 DEF Data
  <2>3. fileTab[t].in_use # 0 <=> Opened(t)
    BY <2>1 DEF Opened
  <2>4. QED
    BY <2>1, <2>2, <2>3, Zenon DEF HandleOf
<1>3. HandleOf(fileTab[s])' = HandleOf(e)'
  BY <1>1 DEF HandleOf, Data
<1>4. [t \in Slot |-> HandleOf(fileTab[t])']
        = [t \in Slot |-> IF t = s THEN HandleOf(e)' ELSE HandleOf(fileTab[t])]
  BY <1>2, <1>3
<1>5. QED
  BY <1>4, Zenon DEF Handles

\* A change that no handle shows.
LEMMA HandlesSame ==
  ASSUME IInv, NEW s \in Slot, NEW e \in CircleFile, fileTab' = [fileTab EXCEPT ![s] = e],
         UNCHANGED disk, HandleOf(e)' = HandleOf(fileTab[s])
  PROVE  Handles' = Handles
<1>1. Handles' = [Handles EXCEPT ![s] = HandleOf(e)']
  BY HandleChanges
<1>2. Handles[s] = HandleOf(fileTab[s])
  BY DEF Handles
<1>3. QED
  BY <1>1, <1>2 DEF Handles

\* The fields of the handle that an entry in use maps to.
LEMMA OpenedHandle ==
  ASSUME IInv, NEW s \in Slot, Opened(s)
  PROVE  /\ Handles[s] = HandleOf(fileTab[s]) /\ Handles[s] # None
         /\ Handles[s] \in Store!Handle
         /\ Handles[s].file = fileTab[s].fname /\ Handles[s].mode = fileTab[s].mode
         /\ Handles[s].data = Data(fileTab[s]) /\ Handles[s].pos = fileTab[s].position
         /\ Handles[s].dirty = (fileTab[s].written_to = 1)
<1>1. Handles[s] = HandleOf(fileTab[s])
  BY DEF Handles
<1>2. HandleOf(fileTab[s]) \in Store!Handle
  BY HandleType
<1>3. HandleOf(fileTab[s]) # None
  BY <1>2, NoneAssumption
<1>4. QED
  BY <1>1, <1>2, <1>3 DEF HandleOf, Opened

\* The empty table maps to a store without handles.
LEMMA InitStore == Init => Store!StoreInit
<1> SUFFICES ASSUME Init PROVE Store!StoreInit
  OBVIOUS
<1>1. PICK f \in File : fileTab = [s \in Slot |-> Unused(f)]
  BY DEF Init
<1>2. Handles = [s \in Store!Slot |-> None]
  BY <1>1 DEF Handles, HandleOf, Unused, Slot, Store!Slot
<1>3. disk \in [File -> Seq(Byte) \union {None}]
  BY InitInv DEF IInv, TypeOK
<1>4. QED
  BY <1>2, <1>3 DEF Init, Store!StoreInit, Handles

\* The steps of FileStore, in terms of Handles.
LEMMA FailsMaps ==
  ASSUME ret' = Store!Failed, UNCHANGED disk, Handles' = Handles
  PROVE  Store!StoreNext
BY DEF Handles, Store!StoreFails, Store!StoreNext

\* Handles that change like this take an open step of the store.
LEMMA OpenMaps ==
  ASSUME NEW s \in Slot, NEW f \in File, NEW mode \in Store!Mode,
         Handles[s] = None, Store!MayOpen(f, mode),
         NEW data, data = IF mode = "WRONLY" THEN << >> ELSE disk[f], data # None,
         Handles' = [Handles EXCEPT ![s] = [file |-> f, mode |-> mode, data |-> data,
                                            pos |-> 0, dirty |-> FALSE]],
         ret' = Store!Done(s),
         disk' = IF mode = "WRONLY" THEN [disk EXCEPT ![f] = << >>] ELSE disk
  PROVE  Store!StoreNext
<1>1. Store!StoreOpen(s, f, mode)
  BY DEF Handles, Store!StoreOpen
<1>2. QED
  BY <1>1 DEF Slot, Store!Slot, Store!StoreNext

\* Or a read step.
LEMMA ReadMaps ==
  ASSUME NEW s \in Slot, NEW n \in 0 .. Len(Handles[s].data),
         NEW piece, piece = Store!Piece(Handles[s].data, Handles[s].pos, n),
         Handles[s] # None, UNCHANGED disk, ret' = Store!Bytes(piece),
         Handles' = [Handles EXCEPT ![s] = [Handles[s] EXCEPT !.pos = @ + Len(piece)]]
  PROVE  Store!StoreNext
<1>1. Store!StoreRead(s, n)
  BY DEF Handles, Store!StoreRead
<1>2. Store!StoreAt(s)
  BY <1>1 DEF Handles, Store!StoreAt
<1>3. QED
  BY <1>2 DEF Slot, Store!Slot, Store!StoreNext

\* Or a seek step.
LEMMA SeekMaps ==
  ASSUME NEW s \in Slot, NEW pos \in 0 .. Len(Handles[s].data),
         Handles[s] # None, UNCHANGED disk, ret' = Store!Done(pos),
         Handles' = [Handles EXCEPT ![s] = [Handles[s] EXCEPT !.pos = pos]]
  PROVE  Store!StoreNext
<1>1. Store!StoreSeek(s, pos)
  BY DEF Handles, Store!StoreSeek
<1>2. Store!StoreAt(s)
  BY <1>1 DEF Handles, Store!StoreAt
<1>3. QED
  BY <1>2 DEF Slot, Store!Slot, Store!StoreNext

\* Or a write step.
LEMMA WriteMaps ==
  ASSUME NEW s \in Slot, NEW bytes \in Chunk,
         Handles[s] # None, Handles[s].mode # "RDONLY",
         UNCHANGED disk, ret' = Store!Done(Len(bytes)),
         Handles' = [Handles EXCEPT ![s] =
           [Handles[s] EXCEPT !.data = Store!Overwritten(@, Handles[s].pos, bytes),
                              !.pos = @ + Len(bytes), !.dirty = TRUE]]
  PROVE  Store!StoreNext
<1>1. Store!StoreWrite(s, bytes)
  BY DEF Handles, Store!StoreWrite
<1>2. QED
  BY <1>1 DEF Slot, Store!Slot, Store!StoreNext

\* Or a close step.
LEMMA CloseMaps ==
  ASSUME NEW s \in Slot, Handles[s] # None, Handles' = [Handles EXCEPT ![s] = None],
         \/ /\ ret' = Store!Done(0)
            /\ disk' = IF Handles[s].dirty
                         THEN [disk EXCEPT ![Handles[s].file] = Handles[s].data] ELSE disk
         \/ /\ ret' = Store!Failed
            /\ \/ UNCHANGED disk
               \/ /\ Handles[s].dirty
                  /\ \E kept \in 0 .. Len(Handles[s].data) :
                       disk' = [disk EXCEPT ![Handles[s].file] =
                                  SubSeq(Handles[s].data, 1, kept)]
         \/ /\ "f_write" \in Faults
            /\ ret' = Store!Done(0)
            /\ Handles[s].dirty
            /\ \E kept \in 0 .. Len(Handles[s].data) :
                 disk' = [disk EXCEPT ![Handles[s].file] = SubSeq(Handles[s].data, 1, kept)]
  PROVE  Store!StoreNext
<1>1. Store!StoreClose(s) \/ Store!StoreCloseFails(s) \/ Store!StoreCloseShort(s)
  BY DEF Handles, Store!StoreClose, Store!StoreCloseFails, Store!StoreCloseShort
<1>2. QED
  BY <1>1 DEF Slot, Store!Slot, Store!StoreNext

\* Or a step that answers for a file.
LEMMA StatMaps ==
  ASSUME NEW f \in File, UNCHANGED << disk, fileTab >>,
         \/ f \notin Answered /\ ret' = IF disk[f] = None THEN Store!Failed
                                      ELSE Store!Done(Len(disk[f]))
         \/ f \in Answered /\ ret'.ok
  PROVE  Store!StoreNext
<1>1. Handles' = Handles
  BY DEF Handles, HandleOf, Data
<1>2. Store!StoreStat(f) \/ Store!StoreStatFaked(f)
  BY <1>1 DEF Handles, Store!StoreStat, Store!StoreStatFaked
<1>3. QED
  BY <1>2 DEF Store!StoreNext

-----------------------------------------------------------------------------
(* The steps of the table.                                                 *)

\* A call that fails and has changed nothing but the FIL of an entry, or an
\* entry that is not in use.
LEMMA FailStep ==
  ASSUME IInv, NEW s \in Slot, NEW f \in File,
         \/ OpenRefused(f) \/ OpenReadWriteFails(s, f) \/ ReadFails(s) \/ LseekFails(s)
         \/ \E mode \in Store!Mode : OpenFails(s, f, mode)
  PROVE  Store!StoreNext
<1>1. ret' = Store!Failed /\ UNCHANGED disk
  BY DEF OpenRefused, OpenReadWriteFails, ReadFails, LseekFails, OpenFails, Fails, Returns
<1>2. CASE UNCHANGED fileTab
  BY <1>1, <1>2, FailsMaps DEF Handles, HandleOf, Data
<1>3. fileTab[s] \in CircleFile
  BY DEF IInv, TypeOK
<1>4. ASSUME NEW fil \in {"closed", "failed"},
             fileTab' = [fileTab EXCEPT ![s] = [fileTab[s] EXCEPT !.fil = fil]]
      PROVE  Store!StoreNext
  <2>1. PICK e \in CircleFile : e = [fileTab[s] EXCEPT !.fil = fil]
    BY <1>3 DEF CircleFile
  <2>2. HandleOf(e)' = HandleOf(fileTab[s])
    BY <1>1, <1>3, <2>1 DEF HandleOf, Data, CircleFile
  <2>3. Handles' = Handles
    BY <1>1, <1>4, <2>1, <2>2, HandlesSame
  <2>4. QED
    BY <1>1, <2>3, FailsMaps
<1>5. CASE OpenReadWriteFails(s, f)
  <2>1. PICK e \in CircleFile : fileTab' = [fileTab EXCEPT ![s] = e] /\ e.in_use = 0
    BY <1>5, OpenFailsEntry
  <2>2. fileTab[s].in_use = 0
    BY <1>3, <1>5, OpenFailsEntry DEF Opened, CircleFile
  <2>3. HandleOf(e)' = HandleOf(fileTab[s])
    BY <2>1, <2>2 DEF HandleOf
  <2>4. Handles' = Handles
    BY <1>1, <2>1, <2>3, HandlesSame
  <2>5. QED
    BY <1>1, <2>4, FailsMaps
<1>6. QED
  BY <1>2, <1>4, <1>5 DEF OpenRefused, ReadFails, LseekFails, OpenFails

\* The handle of an entry that has just been made.
LEMMA NewHandle ==
  ASSUME NEW f, NEW mode, NEW fil, NEW contents, NEW e, e = Entry(f, mode, fil, contents)
  PROVE  HandleOf(e)' = [file |-> f, mode |-> mode, data |-> Data(e)', pos |-> 0,
                         dirty |-> FALSE]
<1>1. /\ e.in_use # 0 /\ e.fname = f /\ e.mode = mode /\ e.position = 0
      /\ e.written_to # 1
  BY DEF Entry
<1>2. (e.written_to = 1) = FALSE
  BY <1>1
<1>3. HandleOf(e)' = [file |-> f, mode |-> mode, data |-> Data(e)', pos |-> 0,
                      dirty |-> e.written_to = 1]
  BY <1>1 DEF HandleOf
<1>4. QED
  BY <1>2, <1>3, Zenon

\* Every _open that succeeds is an open of the store.
LEMMA OpenStep ==
  ASSUME IInv, NEW s \in Slot, NEW f \in File,
         OpenRead(s, f) \/ OpenWrite(s, f) \/ OpenReadWrite(s, f)
  PROVE  Store!StoreNext
<1> DEFINE handle(mode, data) ==
      [file |-> f, mode |-> mode, data |-> data, pos |-> 0, dirty |-> FALSE]
<1>1. Handles[s] = None /\ fileTab[s] \in CircleFile
  BY DEF OpenRead, OpenWrite, OpenReadWrite, FreeSlot, Handles, HandleOf, Opened, IInv,
         TypeOK, CircleFile
<1>2. CASE OpenRead(s, f)
  <2>1. PICK e : e = Entry(f, "RDONLY", "reading", None)
    OBVIOUS
  <2>2. e \in CircleFile
    BY <2>1 DEF Entry, CircleFile, Store!Mode
  <2>3. HandleOf(e)' = handle("RDONLY", disk'[f])
    <3>1. Data(e)' = disk'[f]
      BY <2>1 DEF Data, Entry
    <3>2. QED
      BY <2>1, <3>1, NewHandle
  <2>4. UNCHANGED disk /\ fileTab' = [fileTab EXCEPT ![s] = e]
    BY <1>2, <2>1 DEF OpenRead
  <2>5. Handles' = [Handles EXCEPT ![s] = handle("RDONLY", disk[f])]
    BY <2>2, <2>3, <2>4, HandleChanges
  <2>6. disk[f] # None /\ Store!MayOpen(f, "RDONLY") /\ ret' = Store!Done(s)
    BY <1>2 DEF OpenRead, Returns
  <2>7. QED
    BY <1>1, <2>4, <2>5, <2>6, OpenMaps DEF Store!Mode
<1>3. CASE OpenWrite(s, f)
  <2>1. PICK e : e = Entry(f, "WRONLY", "writing", None)
    OBVIOUS
  <2>2. e \in CircleFile
    BY <2>1 DEF Entry, CircleFile, Store!Mode
  <2>3. HandleOf(e)' = handle("WRONLY", << >>)
    <3>1. Data(e)' = << >>
      BY <2>1 DEF Data, Entry
    <3>2. QED
      BY <2>1, <3>1, NewHandle
  <2>4. disk' = [disk EXCEPT ![f] = << >>] /\ fileTab' = [fileTab EXCEPT ![s] = e]
    BY <1>3, <2>1 DEF OpenWrite
  <2>5. ASSUME NEW t \in Slot, Opened(t)
        PROVE  disk'[fileTab[t].fname] = disk[fileTab[t].fname]
    <3>1. fileTab[t].fname # f
      BY <1>3, <2>5, MayOpenMeans DEF OpenWrite, Store!Mode
    <3>2. QED
      BY <2>4, <3>1 DEF IInv, TypeOK, CircleFile
  <2>6. Handles' = [Handles EXCEPT ![s] = handle("WRONLY", << >>)]
    BY <2>2, <2>3, <2>4, <2>5, HandleChanges
  <2>7. << >> # None
    <3>1. << >> \in Seq(Byte)
      OBVIOUS
    <3>2. QED
      BY <3>1, NoneAssumption
  <2>8. Store!MayOpen(f, "WRONLY") /\ ret' = Store!Done(s)
    BY <1>3 DEF OpenWrite, Returns
  <2>9. QED
    BY <1>1, <2>4, <2>6, <2>7, <2>8, OpenMaps DEF Store!Mode
<1>4. CASE OpenReadWrite(s, f)
  <2>1. disk[f] # None /\ UNCHANGED disk /\ disk[f] \in Seq(Byte)
    BY <1>4 DEF OpenReadWrite, IInv, TypeOK
  <2>2. PICK e : e = Entry(f, "RDWR", "closed", Slurped(disk[f]))
    OBVIOUS
  <2>3. e \in CircleFile
    BY <2>1, <2>2 DEF Entry, CircleFile, Store!Mode, Slurped
  <2>4. Data(e)' = disk[f]
    BY <2>1, <2>2 DEF Data, Entry, Slurped
  <2>5. HandleOf(e)' = handle("RDWR", disk[f])
    BY <2>2, <2>4, NewHandle
  <2>6. fileTab' = [fileTab EXCEPT ![s] = e] /\ Store!MayOpen(f, "RDWR") /\ ret' = Store!Done(s)
    BY <1>4, <2>2 DEF OpenReadWrite, Returns
  <2>7. Handles' = [Handles EXCEPT ![s] = handle("RDWR", disk[f])]
    BY <2>1, <2>3, <2>5, <2>6, HandleChanges
  <2>8. QED
    BY <1>1, <2>1, <2>6, <2>7, OpenMaps DEF Store!Mode
<1>5. QED
  BY <1>2, <1>3, <1>4

\* Every _read that returns bytes is a read of it.
LEMMA ReadStep ==
  ASSUME IInv, NEW s \in Slot, NEW n \in Nat, Read(s, n)
  PROVE  Store!StoreNext
<1> DEFINE file == fileTab[s]
           data == IF file.contents # None THEN file.contents ELSE disk[file.fname]
           full == IF n > Len(data) THEN Len(data) ELSE n
<1>1. file \in CircleFile /\ EntryOK(file) /\ Opened(s) /\ UNCHANGED disk
  BY DEF Read, IInv, TypeOK, FilAsAssumed
<1>2. data = Data(file) /\ data \in Seq(Byte)
  <2>1. file.contents = None => file.mode = "RDONLY"
    BY <1>1 DEF Read, EntryOK, CircleFile, Store!Mode
  <2>2. data = Data(file)
    BY <2>1 DEF Data
  <2>3. QED
    BY <1>1, <2>1, <2>2 DEF EntryOK, IInv, TypeOK, CircleFile
<1>3. file.position \in Nat /\ file.position <= Len(data)
  BY <1>1, <1>2 DEF EntryOK, CircleFile
<1>4. PICK piece : piece = Store!Piece(data, file.position, n)
  OBVIOUS
<1>5. /\ Returns(Store!Bytes(piece))
      /\ fileTab' = [fileTab EXCEPT ![s] = [file EXCEPT !.position = @ + Len(piece)]]
  BY <1>4 DEF Read, IInv, TypeOK
<1> HIDE DEF data
<1>6. full \in 0 .. Len(data) /\ piece = Store!Piece(data, file.position, full)
  BY <1>2, <1>3, <1>4 DEF Store!Piece
<1>7. Len(piece) \in Nat
  BY <1>2, <1>3, <1>4, PieceType
<1>8. PICK e : e = [file EXCEPT !.position = @ + Len(piece)]
  OBVIOUS
<1>9. e \in CircleFile
  BY <1>1, <1>3, <1>7, <1>8 DEF CircleFile
<1>10. HandleOf(e)' = [Handles[s] EXCEPT !.pos = @ + Len(piece)]
  <2>1. Data(e)' = Data(file)
    BY <1>1, <1>8 DEF Data, CircleFile
  <2>2. e = [file EXCEPT !.position = file.position + Len(piece)] /\ file.in_use = 1
    BY <1>1, <1>8 DEF Opened
  <2>3. HandleOf(e)' = [file |-> file.fname, mode |-> file.mode, data |-> Data(file),
                        pos |-> file.position + Len(piece), dirty |-> file.written_to = 1]
    BY <1>1, <2>1, <2>2 DEF HandleOf, CircleFile
  <2>4. Handles[s] = [file |-> file.fname, mode |-> file.mode, data |-> Data(file),
                      pos |-> file.position, dirty |-> file.written_to = 1]
    BY <2>2 DEF Handles, HandleOf
  <2>5. QED
    BY <2>3, <2>4
<1>11. Handles' = [Handles EXCEPT ![s] = [Handles[s] EXCEPT !.pos = @ + Len(piece)]]
  BY <1>1, <1>5, <1>8, <1>9, <1>10, HandleChanges
<1>12. Handles[s] # None /\ Handles[s].data = data /\ Handles[s].pos = file.position
  BY <1>1, <1>2, OpenedHandle
<1>13. ret' = Store!Bytes(piece)
  BY <1>5 DEF Returns
<1> HIDE DEF full
<1>14. QED
  BY <1>1, <1>6, <1>11, <1>12, <1>13, ReadMaps

\* Three fields changed at once are three fields changed in turn.
LEMMA RecordChanges ==
  ASSUME NEW r, NEW data, NEW pos, NEW dirty
  PROVE  [r EXCEPT !.data = data, !.pos = pos, !.dirty = dirty]
         = [[[r EXCEPT !.data = data] EXCEPT !.pos = pos] EXCEPT !.dirty = dirty]
OBVIOUS

\* Every _write is a write of it.
LEMMA WriteStep ==
  ASSUME IInv, NEW s \in Slot, NEW bytes \in Chunk, Write(s, bytes)
  PROVE  Store!StoreNext
<1> DEFINE file == fileTab[s]
           old  == IF file.contents = None THEN << >> ELSE file.contents
<1>1. /\ file \in CircleFile /\ EntryOK(file) /\ Opened(s) /\ UNCHANGED disk
      /\ file.mode # "RDONLY"
  BY DEF Write, IInv, TypeOK, FilAsAssumed
<1>2. bytes \in Seq(Byte) /\ Len(bytes) \in Nat
  BY TableAssumption
<1>3. old = Data(file)
  BY <1>1 DEF Data
<1>4. old \in Seq(Byte) /\ file.position \in Nat /\ file.position <= Len(old)
  <2>1. << >> \in Seq(Byte)
    OBVIOUS
  <2>2. old \in Seq(Byte)
    BY <1>1, <2>1 DEF CircleFile
  <2>3. QED
    BY <1>1, <1>3, <2>2 DEF EntryOK, CircleFile
<1>5. PICK new : new = Store!Overwritten(old, file.position, bytes)
  OBVIOUS
<1>6. /\ Returns(Store!Done(Len(bytes)))
      /\ fileTab' = [fileTab EXCEPT ![s] =
           [file EXCEPT !.contents = new, !.position = @ + Len(bytes), !.written_to = 1]]
  BY <1>5 DEF Write, IInv, TypeOK
<1> HIDE DEF old
<1>7. new \in Seq(Byte) /\ new # None
  BY <1>2, <1>4, <1>5, OverwrittenType, NoneAssumption
<1>8. PICK end : end = file.position + Len(bytes) /\ end \in Nat
  BY <1>2, <1>4
<1>9. PICK e : e = [file EXCEPT !.contents = new, !.position = end, !.written_to = 1]
  OBVIOUS
<1>10. e \in CircleFile
  BY <1>1, <1>7, <1>8, <1>9 DEF CircleFile
<1>11. fileTab' = [fileTab EXCEPT ![s] = e]
  BY <1>6, <1>8, <1>9
<1>12. PICK h : h = [file |-> file.fname, mode |-> file.mode, data |-> new, pos |-> end,
                     dirty |-> TRUE]
  OBVIOUS
<1>13. HandleOf(e)' = h
  <2>1. /\ e.in_use # 0 /\ e.fname = file.fname /\ e.mode = file.mode /\ e.position = end
        /\ e.written_to = 1 /\ e.contents = new
    BY <1>1, <1>9 DEF CircleFile, Opened
  <2>2. Data(e)' = new
    BY <1>7, <2>1 DEF Data
  <2>3. HandleOf(e)' = [file |-> file.fname, mode |-> file.mode, data |-> new,
                        pos |-> end, dirty |-> e.written_to = 1]
    BY <2>1, <2>2 DEF HandleOf
  <2>4. (e.written_to = 1) = TRUE
    BY <2>1
  <2>5. QED
    BY <1>12, <2>3, <2>4, Zenon
<1>14. Handles' = [Handles EXCEPT ![s] = h]
  BY <1>1, <1>10, <1>11, <1>13, HandleChanges
<1>15. /\ Handles[s] # None /\ Handles[s].mode # "RDONLY" /\ Handles[s] \in Store!Handle
       /\ Handles[s].file = file.fname /\ Handles[s].mode = file.mode
       /\ Handles[s].data = old /\ Handles[s].pos = file.position
  BY <1>1, <1>3, OpenedHandle
<1>16. h = [Handles[s] EXCEPT !.data = Store!Overwritten(@, Handles[s].pos, bytes),
                              !.pos = @ + Len(bytes), !.dirty = TRUE]
  <2>1. /\ new = Store!Overwritten(Handles[s].data, Handles[s].pos, bytes)
        /\ end = Handles[s].pos + Len(bytes)
    BY <1>5, <1>8, <1>15
  <2>2. Handles[s] = [file |-> file.fname, mode |-> file.mode, data |-> Data(file),
                      pos |-> file.position, dirty |-> file.written_to = 1]
    BY <1>1 DEF Handles, HandleOf, Opened
  <2>3. h = [Handles[s] EXCEPT !.data = new, !.pos = end, !.dirty = TRUE]
    <3>1. PICK a : a = [Handles[s] EXCEPT !.data = new]
      OBVIOUS
    <3>2. a = [file |-> file.fname, mode |-> file.mode, data |-> new, pos |-> file.position,
               dirty |-> file.written_to = 1]
      BY <2>2, <3>1
    <3>3. PICK b : b = [a EXCEPT !.pos = end]
      OBVIOUS
    <3>4. b = [file |-> file.fname, mode |-> file.mode, data |-> new, pos |-> end,
               dirty |-> file.written_to = 1]
      BY <3>2, <3>3
    <3>5. h = [b EXCEPT !.dirty = TRUE]
      <4>1. PICK v, yes : v = (file.written_to = 1) /\ yes = TRUE
        OBVIOUS
      <4>2. b = [file |-> file.fname, mode |-> file.mode, data |-> new, pos |-> end,
                 dirty |-> v]
        BY <3>4, <4>1, Zenon
      <4>3. [b EXCEPT !.dirty = yes]
              = [file |-> file.fname, mode |-> file.mode, data |-> new, pos |-> end,
                 dirty |-> yes]
        BY <4>2
      <4>4. QED
        BY <1>12, <4>1, <4>3, Zenon
    <3>6. QED
      BY <3>1, <3>3, <3>5, RecordChanges, Zenon
  <2>4. QED
    BY <2>1, <2>3
<1>17. ret' = Store!Done(Len(bytes))
  BY <1>6 DEF Returns
<1>18. QED
  BY <1>1, <1>14, <1>15, <1>16, <1>17, WriteMaps

\* Every _lseek that succeeds is a seek of it: the move to memory does not show.
LEMMA LseekStep ==
  ASSUME IInv, NEW s \in Slot, NEW dir \in {"SEEK_SET", "SEEK_CUR", "SEEK_END"}, NEW ptr \in Int,
         Lseek(s, dir, ptr)
  PROVE  Store!StoreNext
<1> DEFINE file == fileTab[s]
<1>1. file \in CircleFile /\ EntryOK(file) /\ Opened(s)
  BY DEF Lseek, IInv, TypeOK, FilAsAssumed
<1>2. PICK target : target = Target(file, dir, ptr)
  OBVIOUS
<1>3. /\ fileTab' = [fileTab EXCEPT ![s] = [Sought(file) EXCEPT !.position = target]]
      /\ ret' = Store!Done(target) /\ UNCHANGED disk /\ target \in 0 .. Len(Data(file))
  BY <1>2 DEF Lseek, Returns
<1>4. Data(file) \in Seq(Byte)
  BY <1>1 DEF Data, EntryOK, CircleFile, IInv, TypeOK
<1>5. target \in Nat
  BY <1>3, <1>4
<1>6. /\ Sought(file) \in CircleFile /\ Data(Sought(file)) = Data(file)
      /\ Sought(file).fname = file.fname /\ Sought(file).mode = file.mode
      /\ Sought(file).in_use = 1 /\ Sought(file).written_to = file.written_to
  <2>1. CASE file.contents = None /\ file.mode = "RDONLY"
    <3>1. PICK new : new = Slurped(disk[file.fname])
      OBVIOUS
    <3>2. disk[file.fname] \in Seq(Byte) /\ new \in {None, disk[file.fname]}
      BY <1>1, <3>1 DEF EntryOK, IInv, TypeOK, CircleFile, Slurped
    <3>3. Sought(file) = [file EXCEPT !.contents = new]
      BY <2>1, <3>1 DEF Sought
    <3>4. Data(Sought(file)) = Data(file)
      BY <1>1, <2>1, <3>2, <3>3 DEF Data, CircleFile
    <3>5. QED
      BY <1>1, <3>2, <3>3, <3>4 DEF CircleFile, Opened
  <2>2. CASE ~(file.contents = None /\ file.mode = "RDONLY")
    BY <1>1, <2>2 DEF Sought, Opened
  <2>3. QED
    BY <2>1, <2>2
<1>7. PICK e : e = [Sought(file) EXCEPT !.position = target]
  OBVIOUS
<1>8. /\ e \in CircleFile /\ e.in_use = 1 /\ e.fname = file.fname /\ e.mode = file.mode
      /\ e.written_to = file.written_to /\ e.position = target
      /\ e.contents = Sought(file).contents
  BY <1>5, <1>6, <1>7 DEF CircleFile
<1>9. Data(e)' = Data(file)
  BY <1>3, <1>6, <1>8 DEF Data
<1>10. HandleOf(e)' = [Handles[s] EXCEPT !.pos = target]
  <2>1. HandleOf(e)' = [file |-> file.fname, mode |-> file.mode, data |-> Data(file),
                        pos |-> target, dirty |-> file.written_to = 1]
    BY <1>8, <1>9 DEF HandleOf
  <2>2. Handles[s] = [file |-> file.fname, mode |-> file.mode, data |-> Data(file),
                      pos |-> file.position, dirty |-> file.written_to = 1]
    BY <1>1 DEF Handles, HandleOf, Opened
  <2>3. QED
    BY <2>1, <2>2
<1>11. Handles' = [Handles EXCEPT ![s] = [Handles[s] EXCEPT !.pos = target]]
  BY <1>3, <1>7, <1>8, <1>10, HandleChanges
<1>12. Handles[s] # None /\ Handles[s].data = Data(file)
  BY <1>1, OpenedHandle
<1>13. QED
  BY <1>3, <1>11, <1>12, SeekMaps

\* Every _close is a close of it, whatever is left of its f_write.
LEMMA CloseStep ==
  ASSUME IInv, NEW s \in Slot,
         CloseUnwritten(s) \/ CloseWritten(s) \/ CloseCutShort(s) \/ CloseFails(s)
  PROVE  Store!StoreNext
<1> DEFINE file == fileTab[s]
<1>1. PICK result \in Result : Closes(s, result)
  BY ResultType DEF CloseUnwritten, CloseWritten, CloseCutShort, CloseFails
<1>2. file \in CircleFile /\ EntryOK(file) /\ Opened(s)
  BY <1>1 DEF Closes, IInv, TypeOK, FilAsAssumed
<1>3. Writes(file) <=> file.written_to = 1
  BY <1>2 DEF Writes, EntryOK, CircleFile, Store!Mode
<1>4. PICK e : e = Unused(file.fname)
  OBVIOUS
<1>5. e \in CircleFile /\ e.in_use = 0 /\ fileTab' = [fileTab EXCEPT ![s] = e]
  BY <1>1, <1>2, <1>4 DEF Closes, Unused, CircleFile, Store!Mode
<1>6. HandleOf(e)' = None
  BY <1>5 DEF HandleOf
<1>7. \/ UNCHANGED disk
      \/ /\ Writes(file)
         /\ \E kept \in 0 .. Len(file.contents) : Stored(file, kept)
  <2>1. Writes(file) => Len(file.contents) \in 0 .. Len(file.contents)
    BY <1>2 DEF Writes, CircleFile
  <2>2. QED
    BY <2>1 DEF CloseUnwritten, CloseWritten, CloseCutShort, CloseFails
<1>8. ASSUME NEW t \in Slot \ {s}, Opened(t)
      PROVE  \/ fileTab[t].mode # "RDONLY"
             \/ disk'[fileTab[t].fname] = disk[fileTab[t].fname]
  <2>1. CASE UNCHANGED disk
    BY <2>1
  <2>2. CASE fileTab[t].fname = file.fname /\ Writes(file)
    BY <1>2, <1>8, <2>2 DEF IInv, Unshared, Writes
  <2>3. CASE fileTab[t].fname # file.fname
    BY <1>7, <2>3 DEF Stored, IInv, TypeOK, CircleFile
  <2>4. QED
    BY <1>7, <2>1, <2>2, <2>3
<1>9. Handles' = [Handles EXCEPT ![s] = None]
  BY <1>5, <1>6, <1>8, HandleChanges
<1>10. /\ Handles[s] # None /\ Handles[s].file = file.fname
       /\ Handles[s].data = Data(file) /\ (Handles[s].dirty <=> Writes(file))
  BY <1>2, <1>3, OpenedHandle
<1>11. Writes(file) => Data(file) = file.contents /\ file.contents \in Seq(Byte)
  BY <1>2 DEF Writes, Data, CircleFile
<1>12. CASE CloseUnwritten(s)
  <2>1. ~Handles[s].dirty /\ UNCHANGED disk /\ ret' \in {Store!Done(0), Store!Failed}
    BY <1>10, <1>12 DEF CloseUnwritten, Closes
  <2>2. QED
    BY <1>9, <1>10, <2>1, CloseMaps
<1>13. CASE CloseWritten(s)
  <2>1. Handles[s].dirty /\ ret' = Store!Done(0)
    BY <1>10, <1>13 DEF CloseWritten, Closes
  <2>2. SubSeq(file.contents, 1, Len(file.contents)) = file.contents
    BY <1>11, <1>13, SubSeqFull DEF CloseWritten
  <2>3. disk' = [disk EXCEPT ![Handles[s].file] = Handles[s].data]
    BY <1>10, <1>11, <1>13, <2>2 DEF CloseWritten, Stored
  <2>4. QED
    BY <1>9, <1>10, <2>1, <2>3, CloseMaps
<1>14. CASE CloseFails(s)
  <2>1. Handles[s].dirty /\ ret' = Store!Failed
    BY <1>10, <1>14 DEF CloseFails, Closes
  <2>2. \/ UNCHANGED disk
        \/ \E kept \in 0 .. Len(Handles[s].data) :
             disk' = [disk EXCEPT ![Handles[s].file] = SubSeq(Handles[s].data, 1, kept)]
    BY <1>10, <1>11, <1>14 DEF CloseFails, Stored
  <2>3. QED
    BY <1>9, <1>10, <2>1, <2>2, CloseMaps
<1>15. CASE CloseCutShort(s)
  <2>1. "f_write" \in Faults /\ Handles[s].dirty /\ ret' = Store!Done(0)
    BY <1>10, <1>15 DEF CloseCutShort, Closes, MayFail
  <2>2. \E kept \in 0 .. Len(Handles[s].data) :
          disk' = [disk EXCEPT ![Handles[s].file] = SubSeq(Handles[s].data, 1, kept)]
    BY <1>10, <1>11, <1>15 DEF CloseCutShort, Stored
  <2>3. QED
    BY <1>9, <1>10, <2>1, <2>2, CloseMaps
<1>16. QED
  BY <1>12, <1>13, <1>14, <1>15

\* Every _stat answers for a file.
LEMMA StatStep ==
  ASSUME IInv, NEW f \in File, Stat(f)
  PROVE  Store!StoreNext
<1>1. UNCHANGED << disk, fileTab >>
  BY DEF Stat
<1>2. Handles' = Handles
  BY <1>1 DEF Handles, HandleOf, Data
<1>3. CASE ret' = Store!Failed
  BY <1>1, <1>2, <1>3, FailsMaps
<1>4. CASE ret' # Store!Failed /\ f \in Answered
  <2>1. FastStat(f) # {}
    BY <1>4 DEF Answered, FastStat
  <2>2. ret'.ok
    BY <1>4, <2>1 DEF Stat, FastStat, Store!Done
  <2>3. QED
    BY <1>1, <1>4, <2>2, StatMaps
<1>5. CASE f \notin Answered
  <2>1. FastStat(f) = {}
    BY <1>5 DEF Answered, FastStat
  <2>2. ret' = IF disk[f] = None THEN Store!Failed ELSE Store!Done(Len(disk[f]))
    BY <2>1 DEF Stat
  <2>3. QED
    BY <1>1, <1>5, <2>2, StatMaps
<1>6. QED
  BY <1>3, <1>4, <1>5

\* Whatever calls of FatFs fail, the file calls are those of a store whose
\* handles are copies of whole files that only a close puts on the card; one that
\* reports success has stored the whole, unless f_write is among them.
THEOREM FilesImplementStore == Spec => ImplementsStore
<1>1. IInv /\ [Next]_vars => [Store!StoreNext]_<< disk, Handles, ret >>
  <2> SUFFICES ASSUME IInv, [Next]_vars PROVE [Store!StoreNext]_<< disk, Handles, ret >>
    OBVIOUS
  <2>1. ASSUME NEW s \in Slot, NEW f \in File,
               \/ OpenRefused(f) \/ OpenReadWriteFails(s, f) \/ ReadFails(s) \/ LseekFails(s)
               \/ \E mode \in Store!Mode : OpenFails(s, f, mode)
        PROVE  Store!StoreNext
    BY <2>1, FailStep
  <2>2. CASE UNCHANGED vars
    BY <2>2 DEF vars, Handles, HandleOf, Data
  <2>3. ASSUME NEW f \in File, OpenRefused(f) PROVE Store!StoreNext
    <3>1. ret' = Store!Failed /\ UNCHANGED << disk, fileTab >>
      BY <2>3 DEF OpenRefused, Fails, Returns
    <3>2. Handles' = Handles
      BY <3>1 DEF Handles, HandleOf, Data
    <3>3. QED
      BY <3>1, <3>2, FailsMaps
  <2>4. ASSUME NEW f \in File, Stat(f) PROVE Store!StoreNext
    BY <2>4, StatStep
  <2>5. ASSUME NEW s \in Slot, NEW f \in File,
               OpenRead(s, f) \/ OpenWrite(s, f) \/ OpenReadWrite(s, f)
        PROVE  Store!StoreNext
    BY <2>5, OpenStep
  <2>6. ASSUME NEW s \in Slot, NEW n \in 0 .. MaxLen, Read(s, n) PROVE Store!StoreNext
    BY <2>6, ReadStep, TableAssumption
  <2>7. ASSUME NEW s \in Slot, ReadFails(s) \/ LseekFails(s) PROVE Store!StoreNext
    <3>1. fileTab[s].fname \in File
      BY DEF IInv, TypeOK, CircleFile
    <3>2. QED
      BY <2>7, <3>1, FailStep
  <2>8. ASSUME NEW s \in Slot, NEW bytes \in Chunk, Write(s, bytes) PROVE Store!StoreNext
    BY <2>8, WriteStep
  <2>9. ASSUME NEW s \in Slot, NEW dir \in {"SEEK_SET", "SEEK_CUR", "SEEK_END"},
               NEW ptr \in -MaxLen .. MaxLen, Lseek(s, dir, ptr)
        PROVE  Store!StoreNext
    BY <2>9, LseekStep, TableAssumption
  <2>10. ASSUME NEW s \in Slot,
                CloseUnwritten(s) \/ CloseWritten(s) \/ CloseCutShort(s) \/ CloseFails(s)
         PROVE  Store!StoreNext
    BY <2>10, CloseStep
  <2>11. QED
    BY <2>1, <2>2, <2>3, <2>4, <2>5, <2>6, <2>7, <2>8, <2>9, <2>10 DEF Next
<1>2. [Store!StoreNext]_<< disk, Handles, ret >> => [Store!StoreNext]_Store!storeVars
  BY DEF Handles, Store!storeVars
<1>3. QED
  BY <1>1, <1>2, InitInv, InitStore, StepInv, PTL DEF Spec, ImplementsStore, Store!StoreSpec
=============================================================================
