----------------------------- MODULE FileTableMC ----------------------------
(***************************************************************************)
(* Values of FileTable's constants: two files, what is written, and a    *)
(* boot list as bootstat.txt gives it.                                     *)
(***************************************************************************)
EXTENDS FileTable

CONSTANTS f1, f2, b1, b2

MCFile == {f1, f2}
MCChunk == {<< b1 >>, << b2, b1 >>}

\* A list that refuses one file.
FailList == << [what |-> "fail", name |-> f2, size |-> 0] >>
=============================================================================
