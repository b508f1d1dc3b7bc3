------------------------------ MODULE PageFile ------------------------------
(***************************************************************************)
(* A page file as storage_mgr.c leaves it on the disk: a number of whole   *)
(* 4096-byte blocks.  The bytes of a block are abstracted to a member of   *)
(* Content; Blank is the block of zeros.  Page numbers are bounded by      *)
(* LastPage, a bound of the model (the code's bound is the width of int).  *)
(***************************************************************************)
EXTENDS Integers

CONSTANTS
  Content,    \* what a block or a page-sized buffer may hold
  Blank,      \* 4096 zero bytes
  LastPage    \* BOUND: the largest page number a client asks for

ASSUME ContentAssumption == Blank \in Content
ASSUME LastPageAssumption == LastPage \in Nat

Pages == 0 .. LastPage

NoPage == -1                                     \* NO_PAGE, buffer_mgr.h

\* A file value: whether the name exists, its blocks, how many are there.
\* Blocks at and beyond the size are kept Blank.
FileValue ==
  [exists : BOOLEAN, size : 0 .. LastPage + 1, block : [Pages -> Content]]

AbsentFile ==
  [exists |-> FALSE, size |-> 0, block |-> [p \in Pages |-> Blank]]

\* fopen "wb+" followed by one fwrite of zeros.
CreatedFile ==
  [exists |-> TRUE, size |-> 1, block |-> [p \in Pages |-> Blank]]

\* MUTANT of WriteAt: fopen "w+" in place of "r+".
WriteTruncating(file, p, content) ==
  [file EXCEPT !.size = p + 1,
               !.block = [q \in Pages |-> IF q = p THEN content ELSE Blank]]

\* MUTANT of WriteAt: a write at the end does not make the file grow.
WriteWithinSize(file, p, content) ==
  IF p < file.size THEN [file EXCEPT !.block[p] = content] ELSE file

\* fwrite of one block at page p: the file grows to hold it, and the blocks
\* skipped by the seek read as zeros.
WriteAt(file, p, content) ==
  [file EXCEPT !.size = IF p < @ THEN @ ELSE p + 1, !.block[p] = content]

=============================================================================
