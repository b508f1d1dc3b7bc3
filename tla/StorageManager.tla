--------------------------- MODULE StorageManager ---------------------------
(***************************************************************************)
(* storage_mgr.c: file handles on one page file, and callers that open,    *)
(* read, write and close them in any order, and create or remove the file  *)
(* under open handles.  Nothing in a handle but its stream is tied to the  *)
(* operating system: reads and writes open the file again by its name.     *)
(*                                                                         *)
(* Every offset the code computes is a multiple of the page size, so that  *)
(* curPagePos, a number of bytes, is kept as a number of pages.  The       *)
(* product index * PAGE_SIZE is an int and wraps around, as it does in the *)
(* Makefile's unoptimised build; PageSize and IntSpan scale 4096 and 2^32. *)
(***************************************************************************)
EXTENDS PageFile

CONSTANTS
  Handles,    \* the SM_FileHandle variables of the callers
  PageSize,   \* PAGE_SIZE
  IntSpan,    \* how many values an int has
  Streams,    \* the FILE objects fopen can return
  NoStream,   \* a handle that was never opened
  Asked       \* BOUND: the page numbers the callers ask for; a read of one
              \* below 0 is refused by fseek and ends the process at once

ASSUME PageSizeAssumption == PageSize \in Nat \ {0}
ASSUME IntAssumption == IntSpan = 2 * PageSize * (LastPage + 1)
ASSUME NoStreamAssumption == NoStream \notin Streams
ASSUME AskedAssumption == Asked \subseteq Nat

VARIABLES
  process,   \* "running", "exited" by exit(1), or "crashed"
  file,      \* the page file
  open,      \* the FILE objects that are open between two calls
  handle,    \* the handles
  memory,    \* the page-sized buffer of the callers
  rc,        \* what the last call returned
  intact     \* GHOST: handles whose file was not re-created or removed since

vars == <<process, file, open, handle, memory, rc, intact>>

\* MUTANT of Wrapped: the product does not overflow.
Unbounded(n) == n

\* An int holds n bytes as this many; an offset of negative length is one that
\* fseek refuses.
Wrapped(n) == ((n + IntSpan \div 2) % IntSpan) - IntSpan \div 2

PagesOf(bytes) == bytes \div PageSize

SM_FileHandle ==
  [totalNumPages : Nat, curPagePos : Int, mgmtInfo : Streams \cup {NoStream}]

\* "undefined": the function ends without a return statement.
RC == {"RC_OK", "RC_FILE_NOT_FOUND", "RC_READ_NON_EXISTING_PAGE", "undefined"}

TypeOK ==
  /\ process \in {"running", "exited", "crashed"}
  /\ file \in FileValue
  /\ open \in SUBSET Streams
  /\ handle \in [Handles -> SM_FileHandle]
  /\ \A h \in Handles : /\ handle[h].totalNumPages <= LastPage + 1
                        /\ handle[h].curPagePos \in -(LastPage + 1) .. LastPage
  /\ memory \in Content
  /\ rc \in RC
  /\ intact \in SUBSET Handles

Init ==
  /\ process = "running"
  /\ file = AbsentFile
  /\ open = {}
  /\ handle = [h \in Handles |->
                 [totalNumPages |-> 0, curPagePos |-> 0, mgmtInfo |-> NoStream]]
  /\ memory \in Content
  /\ rc = "RC_OK"
  /\ intact = {}

Running == process = "running"

\* A caller uses a handle only once openPageFile has filled it.
Opened(h) == handle[h].mgmtInfo # NoStream

\* fopen finds the file and a FILE object.
CanOpen == file.exists /\ open # Streams

Ends(how) ==
  /\ process' = how
  /\ UNCHANGED <<file, open, handle, memory, rc, intact>>

Returns(code) == process' = process /\ rc' = code

\* fopen "wb+" truncates the file that other handles may have open.  Without a
\* stream isNull follows the NULL pointer.
CreatePageFile ==
  /\ Running
  /\ IF open = Streams THEN Ends("crashed")
     ELSE /\ file' = CreatedFile
          /\ intact' = {}
          /\ Returns("RC_OK")
          /\ UNCHANGED <<open, handle, memory>>

\* MUTANT of OpenPageFile: the page that is being opened is counted too.
OpenCountingOneMore(h) ==
  /\ Running
  /\ CanOpen
  /\ \E stream \in Streams \ open :
       /\ open' = open \cup {stream}
       /\ handle' = [handle EXCEPT ![h] = [totalNumPages |-> file.size + 1,
                                           curPagePos |-> 0,
                                           mgmtInfo |-> stream]]
  /\ intact' = intact \cup {h}
  /\ Returns("RC_OK")
  /\ UNCHANGED <<file, memory>>

\* A handle opened again forgets its stream without closing it.
OpenPageFile(h) ==
  /\ Running
  /\ IF CanOpen
     THEN \E stream \in Streams \ open :
            /\ open' = open \cup {stream}
            /\ handle' = [handle EXCEPT ![h] = [totalNumPages |-> file.size,
                                                curPagePos |-> 0,
                                                mgmtInfo |-> stream]]
            /\ intact' = intact \cup {h}
            /\ Returns("RC_OK")
            /\ UNCHANGED <<file, memory>>
     ELSE /\ Returns("RC_FILE_NOT_FOUND")
          /\ UNCHANGED <<file, open, handle, memory, intact>>

\* mgmtInfo is not reset: a second close meets a FILE object that is freed, or
\* that fopen has given to another handle in the meantime.
ClosePageFile(h) ==
  LET stream == handle[h].mgmtInfo
  IN  /\ Running
      /\ Opened(h)
      /\ IF stream \in open
         THEN /\ open' = open \ {stream}
              /\ Returns("RC_OK")
              /\ UNCHANGED <<file, handle, memory, intact>>
         ELSE \/ Ends("crashed")
              \/ /\ Returns("RC_FILE_NOT_FOUND")
                 /\ UNCHANGED <<file, open, handle, memory, intact>>

DestroyPageFile ==
  /\ Running
  /\ file' = AbsentFile
  /\ intact' = {}
  /\ Returns("undefined")
  /\ UNCHANGED <<open, handle, memory>>

\* A page one beyond the last is let through; there fread finds nothing and
\* the position stays where fseek has put it.
ReadBlock(h, page) ==
  LET offset == Wrapped(page * PageSize)
      at     == PagesOf(offset)
      after  == IF at < file.size THEN at + 1 ELSE at
  IN  /\ Running
      /\ Opened(h)
      /\ IF handle[h].totalNumPages < page
         THEN /\ Returns("RC_READ_NON_EXISTING_PAGE")
              /\ UNCHANGED <<file, open, handle, memory, intact>>
         ELSE IF ~CanOpen THEN Ends("crashed")
         ELSE IF offset < 0 THEN Ends("exited")
         ELSE /\ memory' = IF at < file.size THEN file.block[at] ELSE memory
              /\ handle' = [handle EXCEPT ![h].curPagePos =
                              PagesOf(Wrapped(after * PageSize))]
              /\ Returns("undefined")
              /\ UNCHANGED <<file, open, intact>>

ReadFirstBlock(h) == ReadBlock(h, 0)

\* The position is one page beyond the page last read or written.
ReadPreviousBlock(h) == ReadBlock(h, handle[h].curPagePos - 1)

ReadCurrentBlock(h) == ReadBlock(h, handle[h].curPagePos)

ReadNextBlock(h) == ReadBlock(h, handle[h].curPagePos + 1)

\* MUTANT of ReadLastBlock: the position is taken for the size.
ReadBehindPosition(h) == ReadBlock(h, handle[h].curPagePos - 2)

ReadLastBlock(h) == ReadBlock(h, handle[h].totalNumPages - 1)

\* The result of fseek is not looked at: an offset it refuses leaves the new
\* stream at the first page.
WriteBlock(h, index, content) ==
  LET offset == Wrapped(index * PageSize)
      at     == IF offset < 0 THEN 0 ELSE PagesOf(offset)
  IN  /\ Running
      /\ Opened(h)
      /\ IF index < 0
         THEN /\ Returns("RC_READ_NON_EXISTING_PAGE")
              /\ UNCHANGED <<file, open, handle, memory, intact>>
         ELSE IF ~CanOpen THEN Ends("crashed")
         ELSE /\ file' = WriteAt(file, at, content)
              /\ handle' = [handle EXCEPT ![h].curPagePos =
                              PagesOf(Wrapped((at + 1) * PageSize))]
              /\ Returns("RC_OK")
              /\ UNCHANGED <<open, memory, intact>>

\* The position in bytes is passed as a page number.
WriteCurrentBlock(h, content) ==
  WriteBlock(h, handle[h].curPagePos * PageSize, content)

\* caseCheck returns 0 whatever it is asked: the write is never reached.
AppendEmptyBlock(h) ==
  /\ Running
  /\ Opened(h)
  /\ Returns("undefined")
  /\ UNCHANGED <<file, open, handle, memory, intact>>

\* For the same reason this returns 1 at once.
EnsureCapacity(h) ==
  /\ Running
  /\ Opened(h)
  /\ Returns("RC_FILE_NOT_FOUND")
  /\ UNCHANGED <<file, open, handle, memory, intact>>

Next ==
  \/ CreatePageFile
  \/ DestroyPageFile
  \/ \E h \in Handles :
       \/ OpenPageFile(h)
       \/ ClosePageFile(h)
       \/ \E page \in Asked : ReadBlock(h, page)
       \/ ReadFirstBlock(h)
       \/ ReadPreviousBlock(h)
       \/ ReadCurrentBlock(h)
       \/ ReadNextBlock(h)
       \/ ReadLastBlock(h)
       \/ \E content \in Content :
            \/ \E index \in Asked : WriteBlock(h, index, content)
            \/ WriteCurrentBlock(h, content)
       \/ AppendEmptyBlock(h)
       \/ EnsureCapacity(h)

Spec == Init /\ [][Next]_vars

-----------------------------------------------------------------------------
(* Properties *)

\* totalNumPages is taken once, by openPageFile (storage_mgr.c:90), and guards
\* every read (:120).  It may fall behind the file, when another handle makes
\* it grow, but it is never ahead of it, and neither is the position, unless
\* the file was created anew or removed under the handle.
TotalNeverAhead ==
  \A h \in intact : /\ handle[h].totalNumPages \in 1 .. file.size
                    /\ handle[h].curPagePos <= file.size

\* The process ends in exit(1) only when a read goes back from the first page
\* or starts from a position that has wrapped around, or at the end of a file
\* of the greatest size an int allows; it crashes only when the file or the
\* streams are gone, or a handle is closed twice.
DeathStep ==
  /\ process' = "exited" =>
       \E h \in Handles : /\ Opened(h)
                          /\ \/ handle[h].curPagePos <= 0
                             \/ handle[h].totalNumPages = LastPage + 1
  /\ process' = "crashed" =>
       \/ ~CanOpen
       \/ \E h \in Handles : Opened(h) /\ handle[h].mgmtInfo \notin open

DeathHasCause == [][DeathStep]_vars

\* While the file is there, a step changes one block of it at most, and the
\* file grows by nothing but zeros before that block.
OneBlockStep ==
  intact # {} /\ intact' # {} =>
    /\ file.size <= file'.size
    /\ \A p, q \in Pages :
         /\ file'.block[p] # file.block[p]
         /\ file'.block[q] # file.block[q]
         => p = q

OneBlockPerWrite == [][OneBlockStep]_vars

=============================================================================
