------------------------ MODULE StorageManagerProofs ------------------------
(***************************************************************************)
(* Handles on one file, for every number of handles, streams and pages,    *)
(* every page size and the int that belongs to it: the offsets wrap around *)
(* and no handle is ever ahead of its file.                                *)
(***************************************************************************)
EXTENDS StorageManager, TLAPS

-----------------------------------------------------------------------------
(* Offsets *)

\* The quotient and the remainder are the only ones there are.
LEMMA DivisionIsUnique ==
  ASSUME NEW d \in Nat \ {0}, NEW q \in Int, NEW r \in 0 .. d - 1
  PROVE  (q * d + r) % d = r /\ (q * d + r) \div d = q
<1> DEFINE a == q * d + r
           p == a \div d
           m == a % d
           k == q - p
<1>1. a \in Int /\ p \in Int /\ m \in 0 .. d - 1 /\ a = d * p + m
  OBVIOUS
<1>2. k \in Int /\ k * d = m - r
  <2> HIDE DEF p, m
  <2> QED BY <1>1
<1>3. ~(k >= 1)
  <2> SUFFICES ASSUME k >= 1 PROVE FALSE
    OBVIOUS
  <2> HIDE DEF k, m
  <2>1. k * d >= d
    BY <1>2
  <2> QED BY <1>1, <1>2, <2>1
<1>4. ~(k <= -1)
  <2> SUFFICES ASSUME k <= -1 PROVE FALSE
    OBVIOUS
  <2> HIDE DEF k, m
  <2>1. k * d <= -d
    BY <1>2
  <2> QED BY <1>1, <1>2, <2>1
<1>5. k = 0
  <2> HIDE DEF k
  <2> QED BY <1>2, <1>3, <1>4
<1>6. p = q
  <2> HIDE DEF p
  <2> QED BY <1>1, <1>5
<1>7. m = r
  <2> HIDE DEF m, p
  <2> QED BY <1>1, <1>6
<1> QED BY <1>6, <1>7

\* How many pages an int can count, and where n pages wrap around to.
Span == LastPage + 1
PageAt(n) == ((n + Span) % (2 * Span)) - Span

LEMMA PageAtType ==
  ASSUME NEW n \in Int
  PROVE  PageAt(n) \in -Span .. LastPage
<1>1. Span \in Nat \ {0} /\ LastPage = Span - 1
  BY LastPageAssumption DEF Span
<1>2. 2 * Span \in Nat \ {0} /\ n + Span \in Int
  BY <1>1
<1>3. (n + Span) % (2 * Span) \in 0 .. 2 * Span - 1
  BY <1>2
<1> QED BY <1>1, <1>3 DEF PageAt

\* What an int can count stays, and the first pages beyond wrap around.
LEMMA PageAtSmall ==
  /\ \A n \in -Span .. LastPage : PageAt(n) = n
  /\ PageAt(Span) = -Span
  /\ PageAt(-Span - 1) = LastPage
<1>1. Span \in Nat \ {0} /\ LastPage = Span - 1
  BY LastPageAssumption DEF Span
<1> DEFINE d == 2 * Span
<1>2. d \in Nat \ {0}
  BY <1>1
<1>3. ASSUME NEW n \in -Span .. LastPage PROVE PageAt(n) = n
  <2>1. n + Span \in 0 .. d - 1
    BY <1>1
  <2>2. (n + Span) % d = n + Span
    BY <1>2, <2>1
  <2> QED BY <1>1, <2>2 DEF PageAt
<1>4. (Span + Span) % d = 0
  BY <1>1, <1>2
<1>5. (-Span - 1 + Span) % d = d - 1
  BY <1>1, <1>2
<1> QED BY <1>1, <1>3, <1>4, <1>5 DEF PageAt

\* A position in bytes is a position in pages.
LEMMA PagesOfPages ==
  ASSUME NEW n \in Int
  PROVE  PagesOf(n * PageSize) = n
BY PageSizeAssumption, DivisionIsUnique DEF PagesOf

\* The product of a page number and the page size, as an int holds it.
LEMMA WrappedPages ==
  ASSUME NEW n \in Int
  PROVE  /\ Wrapped(n * PageSize) = PageAt(n) * PageSize
         /\ PagesOf(Wrapped(n * PageSize)) = PageAt(n)
         /\ Wrapped(n * PageSize) < 0 <=> PageAt(n) < 0
<1> DEFINE q == (n + Span) \div (2 * Span)
           r == (n + Span) % (2 * Span)
<1>1. Span \in Nat \ {0} /\ PageSize \in Nat \ {0} /\ IntSpan = 2 * PageSize * Span
  BY LastPageAssumption, PageSizeAssumption, IntAssumption DEF Span
<1>2. 2 * Span \in Nat \ {0} /\ n + Span \in Int
  BY <1>1
<1>3. q \in Int /\ r \in 0 .. 2 * Span - 1 /\ n + Span = (2 * Span) * q + r
  BY <1>2
<1> HIDE DEF q, r
<1>4. IntSpan \in Nat \ {0} /\ IntSpan \div 2 = Span * PageSize
  <2>1. PageSize * Span \in Nat \ {0}
    BY <1>1
  <2>2. IntSpan = 2 * (PageSize * Span) /\ PageSize * Span = Span * PageSize
    BY <1>1
  <2> QED BY <2>1, <2>2
<1>5. n * PageSize + Span * PageSize = q * IntSpan + r * PageSize
  <2>1. (n + Span) * PageSize = ((2 * Span) * q + r) * PageSize
    BY <1>3
  <2>2. (n + Span) * PageSize = n * PageSize + Span * PageSize
    BY <1>1
  <2>3. ((2 * Span) * q + r) * PageSize = q * (2 * PageSize * Span) + r * PageSize
    BY <1>1, <1>3
  <2> QED BY <1>1, <2>1, <2>2, <2>3
<1>6. r * PageSize \in 0 .. IntSpan - 1
  <2>1. r * PageSize >= 0
    BY <1>1, <1>3
  <2>2. r * PageSize <= (2 * Span - 1) * PageSize
    BY <1>1, <1>3
  <2>3. (2 * Span - 1) * PageSize = IntSpan - PageSize
    BY <1>1
  <2> QED BY <1>1, <1>3, <1>4, <2>1, <2>2, <2>3
<1>7. (n * PageSize + Span * PageSize) % IntSpan = r * PageSize
  <2> DEFINE m == r * PageSize
  <2>1. (q * IntSpan + m) % IntSpan = m
    <3>1. m \in 0 .. IntSpan - 1
      BY <1>6
    <3> HIDE DEF m
    <3> QED BY <3>1, <1>3, <1>4, DivisionIsUnique
  <2> QED BY <1>5, <2>1, Zenon
<1>8. Wrapped(n * PageSize) = r * PageSize - Span * PageSize
  BY <1>4, <1>7 DEF Wrapped
<1>9. r * PageSize - Span * PageSize = (r - Span) * PageSize
  BY <1>1, <1>3
<1>10. PageAt(n) = r - Span /\ PageAt(n) \in Int
  BY <1>1, <1>3 DEF PageAt, r
<1>11. Wrapped(n * PageSize) = PageAt(n) * PageSize
  BY <1>8, <1>9, <1>10
<1>12. PageAt(n) * PageSize < 0 <=> PageAt(n) < 0
  BY <1>1, <1>10
<1> QED BY <1>10, <1>11, <1>12, PagesOfPages

-----------------------------------------------------------------------------
(* The invariant *)

\* A file that is there has a page, and so had it when a handle was filled.
NeverEmpty ==
  /\ file.exists => file.size >= 1
  /\ \A h \in Handles : Opened(h) => handle[h].totalNumPages >= 1
  /\ \A h \in intact : Opened(h)

\* A position that has wrapped around has come to the end of the greatest file.
\* A read before it wraps back to the last page, which that file has.
WrappedAtEnd ==
  \A h \in intact : handle[h].curPagePos < 0 =>
    handle[h].curPagePos = -Span /\ file.size = Span

IInv == TypeOK /\ NeverEmpty /\ WrappedAtEnd /\ TotalNeverAhead

LEMMA InitIInv == Init => IInv
<1> SUFFICES ASSUME Init PROVE IInv
  OBVIOUS
<1>1. file \in FileValue /\ ~file.exists
  BY ContentAssumption, LastPageAssumption DEF Init, FileValue, AbsentFile
<1>2. handle \in [Handles -> SM_FileHandle]
  BY DEF Init, SM_FileHandle
<1>3. \A h \in Handles : /\ ~Opened(h)
                         /\ handle[h].totalNumPages <= LastPage + 1
                         /\ handle[h].curPagePos \in -(LastPage + 1) .. LastPage
  BY LastPageAssumption DEF Init, Opened
<1>4. TypeOK
  BY <1>1, <1>2, <1>3 DEF Init, TypeOK, RC
<1>5. intact = {}
  BY DEF Init
<1> QED BY <1>1, <1>3, <1>4, <1>5
    DEF IInv, NeverEmpty, WrappedAtEnd, TotalNeverAhead

\* A call that leaves the file and the handles alone keeps all of it.
LEMMA EndsIInv ==
  ASSUME IInv, NEW how \in {"running", "exited", "crashed"}, Ends(how)
  PROVE  IInv'
BY DEF Ends, IInv, TypeOK, NeverEmpty, WrappedAtEnd, TotalNeverAhead, Opened

LEMMA NothingIInv ==
  ASSUME IInv, NEW code \in RC, Returns(code),
         UNCHANGED <<file, open, handle, memory, intact>>
  PROVE  IInv'
BY DEF Returns, IInv, TypeOK, NeverEmpty, WrappedAtEnd, TotalNeverAhead, Opened

\* So does one that leaves no handle intact, if the new file is one.
LEMMA ReplacedIInv ==
  ASSUME IInv, NEW code \in RC, Returns(code),
         file' \in {AbsentFile, CreatedFile}, intact' = {},
         UNCHANGED <<open, handle, memory>>
  PROVE  IInv'
<1>1. file' \in FileValue /\ (file'.exists => file'.size >= 1)
  <2>1. LastPage \in Nat /\ [p \in Pages |-> Blank] \in [Pages -> Content]
    BY ContentAssumption, LastPageAssumption
  <2>2. CASE file' = AbsentFile
    BY <2>1, <2>2 DEF FileValue, AbsentFile
  <2>3. CASE file' = CreatedFile
    <3>1. 1 \in 0 .. LastPage + 1
      BY <2>1
    <3> QED BY <2>1, <2>3, <3>1 DEF FileValue, CreatedFile
  <2> QED BY <2>2, <2>3
<1> QED BY <1>1 DEF Returns, IInv, TypeOK, NeverEmpty, WrappedAtEnd,
                    TotalNeverAhead, Opened

LEMMA OpenPageFileIInv ==
  ASSUME IInv, NEW h \in Handles, OpenPageFile(h)
  PROVE  IInv'
<1>1. CASE ~CanOpen
  BY <1>1, NothingIInv DEF OpenPageFile, RC
<1>2. CASE CanOpen
  <2> DEFINE new(stream) == [totalNumPages |-> file.size, curPagePos |-> 0,
                             mgmtInfo |-> stream]
  <2>1. PICK stream \in Streams \ open :
          /\ open' = open \cup {stream}
          /\ handle' = [handle EXCEPT ![h] = new(stream)]
    BY <1>2 DEF OpenPageFile
  <2>2. intact' = intact \cup {h} /\ Returns("RC_OK") /\ UNCHANGED <<file, memory>>
    BY <1>2 DEF OpenPageFile
  <2>3. /\ file \in FileValue /\ file.size \in 1 .. LastPage + 1
        /\ handle \in [Handles -> SM_FileHandle]
    BY <1>2 DEF IInv, TypeOK, NeverEmpty, CanOpen, FileValue
  <2>4. new(stream) \in SM_FileHandle /\ stream # NoStream
    BY <2>3, NoStreamAssumption, LastPageAssumption DEF SM_FileHandle
  <2>5. handle' \in [Handles -> SM_FileHandle]
    BY <2>1, <2>3, <2>4
  <2>6. handle'[h] = new(stream) /\ \A g \in Handles \ {h} : handle'[g] = handle[g]
    BY <2>1, <2>3
  <2> HIDE DEF new
  <2>7. /\ handle'[h].totalNumPages = file.size
        /\ handle'[h].curPagePos = 0
        /\ handle'[h].mgmtInfo = stream
    BY <2>6 DEF new
  <2>8. 0 \in -(LastPage + 1) .. LastPage /\ LastPage \in Nat
    BY LastPageAssumption
  <2>9. TypeOK'
    BY <2>1, <2>2, <2>3, <2>5, <2>6, <2>7, <2>8 DEF IInv, TypeOK, Returns, RC
  <2>10. (NeverEmpty /\ WrappedAtEnd /\ TotalNeverAhead)'
    BY <2>2, <2>3, <2>4, <2>6, <2>7, <2>8
    DEF IInv, TypeOK, NeverEmpty, WrappedAtEnd, TotalNeverAhead, Opened
  <2> QED BY <2>9, <2>10 DEF IInv
<1> QED BY <1>1, <1>2

\* A read, in pages: it is refused, it ends the process, or it moves the
\* position behind the page it found.
Refused ==
  /\ Returns("RC_READ_NON_EXISTING_PAGE")
  /\ UNCHANGED <<file, open, handle, memory, intact>>

ReadEnds(h, page) ==
  \/ ~CanOpen /\ Ends("crashed")
  \/ PageAt(page) < 0 /\ page <= handle[h].totalNumPages /\ Ends("exited")

Behind(at) == IF at < file.size THEN at + 1 ELSE at

ReadMoves(h, page) ==
  /\ CanOpen
  /\ page <= handle[h].totalNumPages
  /\ PageAt(page) \in Pages
  /\ memory' \in Content
  /\ handle' = [handle EXCEPT ![h].curPagePos = PageAt(Behind(PageAt(page)))]
  /\ Returns("undefined")
  /\ UNCHANGED <<file, open, intact>>

LEMMA ReadEffect ==
  ASSUME IInv, NEW h \in Handles, NEW page \in Int, ReadBlock(h, page)
  PROVE  Refused \/ ReadEnds(h, page) \/ ReadMoves(h, page)
<1> DEFINE offset == Wrapped(page * PageSize)
           at     == PagesOf(offset)
           after  == Behind(at)
<1>1. at = PageAt(page) /\ (offset < 0 <=> PageAt(page) < 0)
  BY WrappedPages
<1>2. PageAt(page) \in -Span .. LastPage /\ LastPage \in Nat /\ Span = LastPage + 1
  BY PageAtType, LastPageAssumption DEF Span
<1>3. /\ memory \in Content /\ file.block \in [Pages -> Content]
      /\ handle[h].totalNumPages \in Nat
  BY DEF IInv, TypeOK, FileValue, SM_FileHandle
<1>4. \/ Refused
      \/ ~CanOpen /\ Ends("crashed")
      \/ offset < 0 /\ ~(handle[h].totalNumPages < page) /\ Ends("exited")
      \/ /\ CanOpen /\ ~(handle[h].totalNumPages < page) /\ ~(offset < 0)
         /\ memory' = IF at < file.size THEN file.block[at] ELSE memory
         /\ handle' = [handle EXCEPT ![h].curPagePos =
                         PagesOf(Wrapped(after * PageSize))]
         /\ Returns("undefined")
         /\ UNCHANGED <<file, open, intact>>
  BY DEF ReadBlock, Refused, Behind
<1> HIDE DEF offset, at
<1>5. after \in Int /\ PagesOf(Wrapped(after * PageSize)) = PageAt(after)
  <2>1. after \in Int
    BY <1>1, <1>2 DEF Behind
  <2> HIDE DEF after
  <2> QED BY <2>1, WrappedPages
<1>6. ~(offset < 0) => at \in Pages
  BY <1>1, <1>2 DEF Pages
<1>7. page <= handle[h].totalNumPages <=> ~(handle[h].totalNumPages < page)
  BY <1>3
<1> QED BY <1>1, <1>3, <1>4, <1>5, <1>6, <1>7 DEF ReadEnds, ReadMoves

\* Moving a position keeps the rest, if the position is one the file has.
LEMMA MovedIInv ==
  ASSUME IInv, NEW h \in Handles, NEW n \in Int, Opened(h),
         file' \in FileValue, file'.exists, file'.size >= file.size,
         file'.size >= 1, memory' \in Content,
         handle' = [handle EXCEPT ![h].curPagePos = PageAt(n)],
         h \in intact => n \in 0 .. file'.size,
         NEW code \in RC, Returns(code), UNCHANGED <<open, intact>>
  PROVE  IInv'
<1> DEFINE pos == PageAt(n)
<1>1. pos \in -Span .. LastPage /\ LastPage \in Nat /\ Span = LastPage + 1
  BY PageAtType, LastPageAssumption DEF Span
<1>2. /\ handle \in [Handles -> SM_FileHandle]
      /\ file.size \in 0 .. Span /\ file'.size \in 0 .. Span
  BY <1>1 DEF IInv, TypeOK, FileValue
<1>3. h \in intact => /\ pos <= file'.size
                      /\ pos < 0 => pos = -Span /\ file'.size = Span
  <2> SUFFICES ASSUME h \in intact
               PROVE  /\ pos <= file'.size
                      /\ pos < 0 => pos = -Span /\ file'.size = Span
    OBVIOUS
  <2>1. n \in 0 .. Span /\ n <= file'.size
    BY <1>1, <1>2
  <2>2. CASE n = Span
    BY <1>1, <1>2, <2>1, <2>2, PageAtSmall
  <2>3. CASE n \in 0 .. LastPage
    BY <1>1, <1>2, <2>1, <2>3, PageAtSmall
  <2> QED BY <1>1, <2>1, <2>2, <2>3
<1> HIDE DEF pos
<1>4. /\ handle' \in [Handles -> SM_FileHandle]
      /\ handle'[h].curPagePos = pos
      /\ handle'[h].totalNumPages = handle[h].totalNumPages
      /\ handle'[h].mgmtInfo = handle[h].mgmtInfo
      /\ \A g \in Handles \ {h} : handle'[g] = handle[g]
  <2>1. handle' = [handle EXCEPT ![h].curPagePos = pos] /\ pos \in Int
    BY <1>1 DEF pos
  <2> QED BY <1>2, <2>1 DEF SM_FileHandle
<1>5. TypeOK'
  <2>1. \A g \in Handles :
          /\ handle'[g].totalNumPages <= LastPage + 1
          /\ handle'[g].curPagePos \in -(LastPage + 1) .. LastPage
    BY <1>1, <1>4 DEF IInv, TypeOK
  <2> QED BY <1>4, <2>1 DEF IInv, TypeOK, Returns
<1>6. NeverEmpty'
  BY <1>4 DEF IInv, NeverEmpty, Opened
<1>7. intact \subseteq Handles
  BY DEF IInv, TypeOK
<1>8. WrappedAtEnd'
  <2> SUFFICES ASSUME NEW g \in intact, handle'[g].curPagePos < 0
               PROVE  handle'[g].curPagePos = -Span /\ file'.size = Span
    BY DEF WrappedAtEnd
  <2>1. CASE g = h
    BY <1>3, <1>4, <2>1
  <2>2. CASE g # h
    BY <1>1, <1>2, <1>4, <1>7, <2>2 DEF IInv, WrappedAtEnd
  <2> QED BY <2>1, <2>2
<1>9. TotalNeverAhead'
  <2> SUFFICES ASSUME NEW g \in intact
               PROVE  /\ handle'[g].totalNumPages \in 1 .. file'.size
                      /\ handle'[g].curPagePos <= file'.size
    BY DEF TotalNeverAhead
  <2>1. /\ handle[g].totalNumPages \in 1 .. file'.size
        /\ handle[g].curPagePos <= file'.size
    <3>1. /\ handle[g].totalNumPages \in 1 .. file.size
          /\ handle[g].curPagePos <= file.size
          /\ handle[g].curPagePos \in Int
      BY <1>2, <1>7 DEF IInv, TotalNeverAhead, SM_FileHandle
    <3> QED BY <1>2, <3>1
  <2>2. CASE g = h
    BY <1>3, <1>4, <2>1, <2>2
  <2>3. CASE g # h
    BY <1>4, <1>7, <2>1, <2>3
  <2> QED BY <2>2, <2>3
<1> QED BY <1>5, <1>6, <1>8, <1>9 DEF IInv

\* A page may be asked for if it is not behind the first, or if it is the one
\* before a position that has wrapped around.
LEMMA ReadBlockIInv ==
  ASSUME IInv, NEW h \in Handles, NEW page \in Int, ReadBlock(h, page),
         h \in intact => page >= -Span \/ (page = -Span - 1 /\ file.size = Span)
  PROVE  IInv'
<1>1. CASE Refused
  BY <1>1, NothingIInv DEF RC, Refused
<1>2. CASE ReadEnds(h, page)
  BY <1>2, EndsIInv DEF ReadEnds
<1>3. CASE ReadMoves(h, page)
  <2> DEFINE at    == PageAt(page)
             after == Behind(at)
  <2>1. LastPage \in Nat /\ Span = LastPage + 1 /\ at \in 0 .. LastPage
    BY <1>3, LastPageAssumption DEF ReadMoves, Span, Pages
  <2>2. /\ Opened(h) /\ file \in FileValue /\ file.size \in 0 .. Span
        /\ handle[h].totalNumPages \in Nat /\ page <= handle[h].totalNumPages
    BY <1>3, <2>1
    DEF ReadBlock, ReadMoves, IInv, TypeOK, FileValue, SM_FileHandle
  <2>3. after \in Int
    BY <2>1 DEF Behind
  <2>4. ASSUME h \in intact PROVE after \in 0 .. file.size
    <3>1. handle[h].totalNumPages <= file.size
      BY <2>2, <2>4 DEF IInv, TotalNeverAhead
    <3>2. CASE page = -Span - 1 /\ file.size = Span
      BY <2>1, <2>2, <3>2 DEF Behind
    <3>3. CASE page >= -Span
      <4>1. page <= Span
        BY <2>1, <2>2, <3>1
      <4>2. CASE page = Span
        BY <2>1, <4>2, PageAtSmall
      <4>3. CASE page \in -Span .. LastPage
        <5>1. at = page
          BY <4>3, PageAtSmall
        <5> QED BY <2>1, <2>2, <3>1, <5>1 DEF Behind
      <4> QED BY <2>1, <3>3, <4>1, <4>2, <4>3
    <3> QED BY <2>4, <3>2, <3>3
  <2>5. file.exists /\ file.size >= 1
    BY <1>3 DEF ReadMoves, CanOpen, IInv, NeverEmpty
  <2>6. /\ file' \in FileValue /\ file'.exists
        /\ file'.size >= file.size /\ file'.size >= 1
        /\ memory' \in Content /\ Returns("undefined") /\ "undefined" \in RC
        /\ handle' = [handle EXCEPT ![h].curPagePos = PageAt(after)]
        /\ UNCHANGED <<open, intact>>
        /\ h \in intact => after \in 0 .. file'.size
    BY <1>3, <2>2, <2>4, <2>5 DEF ReadMoves, RC
  <2> HIDE DEF after
  <2> QED BY <2>2, <2>3, <2>6, MovedIInv
<1> QED BY <1>1, <1>2, <1>3, ReadEffect

\* A caller reads one of the pages asked for, or one that the handle names.
Reads(h) ==
  \/ \E page \in Asked : ReadBlock(h, page)
  \/ ReadFirstBlock(h)
  \/ ReadPreviousBlock(h)
  \/ ReadCurrentBlock(h)
  \/ ReadNextBlock(h)
  \/ ReadLastBlock(h)

\* Only a position at the first page, or one that has wrapped around, takes a
\* reader below page 0, and it takes the reader of an intact handle to a page
\* that an int can count, or to the last page.
LEMMA ReadsPage ==
  ASSUME IInv, NEW h \in Handles, Reads(h)
  PROVE  \E page \in Int :
           /\ ReadBlock(h, page)
           /\ page >= 0 \/ handle[h].curPagePos <= 0
           /\ h \in intact =>
                page >= -Span \/ (page = -Span - 1 /\ file.size = Span)
<1> DEFINE pos   == handle[h].curPagePos
           total == handle[h].totalNumPages
<1>1. Span \in Nat \ {0} /\ pos \in Int /\ total \in Nat /\ pos >= -Span
  BY LastPageAssumption DEF Span, IInv, TypeOK, SM_FileHandle
<1>2. h \in intact /\ pos < 0 => pos = -Span /\ file.size = Span
  BY DEF IInv, WrappedAtEnd
<1>3. Opened(h)
  BY DEF Reads, ReadBlock, ReadFirstBlock, ReadPreviousBlock, ReadCurrentBlock,
         ReadNextBlock, ReadLastBlock
<1>4. total >= 1
  BY <1>3 DEF IInv, NeverEmpty
<1>5. \E page \in Nat \cup {pos, pos - 1, pos + 1, total - 1} : ReadBlock(h, page)
  BY AskedAssumption DEF Reads, ReadFirstBlock, ReadPreviousBlock,
       ReadCurrentBlock, ReadNextBlock, ReadLastBlock, pos, total
<1> HIDE DEF pos, total
<1>6. \A page \in Nat \cup {pos, pos - 1, pos + 1, total - 1} :
        /\ page \in Int
        /\ page >= 0 \/ pos <= 0
        /\ h \in intact =>
             page >= -Span \/ (page = -Span - 1 /\ file.size = Span)
  BY <1>1, <1>2, <1>4
<1> QED BY <1>5, <1>6 DEF pos

\* A write, in pages.
LEMMA WriteBlockEffect ==
  ASSUME IInv, NEW h \in Handles, NEW index \in Int, NEW content \in Content,
         WriteBlock(h, index, content)
  PROVE  \/ Refused
         \/ ~CanOpen /\ Ends("crashed")
         \/ \E at \in Pages :
              /\ CanOpen
              /\ file' = WriteAt(file, at, content)
              /\ handle' = [handle EXCEPT ![h].curPagePos = PageAt(at + 1)]
              /\ Returns("RC_OK")
              /\ UNCHANGED <<open, memory, intact>>
<1> DEFINE offset == Wrapped(index * PageSize)
           at     == IF offset < 0 THEN 0 ELSE PagesOf(offset)
<1>1. LastPage \in Nat /\ Span = LastPage + 1
  BY LastPageAssumption DEF Span
<1>2. /\ PageAt(index) \in -Span .. LastPage
      /\ PagesOf(offset) = PageAt(index)
      /\ offset < 0 <=> PageAt(index) < 0
  BY WrappedPages, PageAtType
<1>3. \/ Refused
      \/ ~CanOpen /\ Ends("crashed")
      \/ /\ CanOpen
         /\ file' = WriteAt(file, at, content)
         /\ handle' = [handle EXCEPT ![h].curPagePos =
                         PagesOf(Wrapped((at + 1) * PageSize))]
         /\ Returns("RC_OK")
         /\ UNCHANGED <<open, memory, intact>>
  BY DEF WriteBlock, Refused
<1> HIDE DEF offset
<1>4. at \in Pages /\ at + 1 \in Int
  BY <1>1, <1>2 DEF Pages
<1> HIDE DEF at
<1>5. PagesOf(Wrapped((at + 1) * PageSize)) = PageAt(at + 1)
  BY <1>4, WrappedPages
<1> QED BY <1>3, <1>4, <1>5

LEMMA WriteAtType ==
  ASSUME NEW f \in FileValue, NEW at \in Pages, NEW content \in Content
  PROVE  LET g == WriteAt(f, at, content)
         IN  /\ g \in FileValue
             /\ g.exists = f.exists
             /\ g.size >= f.size /\ g.size >= at + 1
             /\ \A p \in Pages \ {at} : g.block[p] = f.block[p]
<1>1. LastPage \in Nat /\ at \in 0 .. LastPage
  BY LastPageAssumption DEF Pages
<1>2. f.size \in 0 .. LastPage + 1 /\ f.block \in [Pages -> Content]
  BY DEF FileValue
<1> DEFINE size    == IF at < f.size THEN f.size ELSE at + 1
           block   == [f.block EXCEPT ![at] = content]
           resized == [f EXCEPT !.size = size]
           g       == WriteAt(f, at, content)
<1>3. size \in 0 .. LastPage + 1 /\ size >= f.size /\ size >= at + 1
  BY <1>1, <1>2
<1>4. block \in [Pages -> Content] /\ \A p \in Pages \ {at} : block[p] = f.block[p]
  BY <1>2
<1>5. /\ resized \in FileValue /\ resized.exists = f.exists
      /\ resized.size = size /\ resized.block = f.block
  <2> HIDE DEF size
  <2> QED BY <1>3 DEF FileValue
<1>6. g = [resized EXCEPT !.block = block]
  BY <1>5 DEF WriteAt
<1> HIDE DEF resized, block, g, size
<1>7. /\ g \in FileValue /\ g.exists = f.exists
      /\ g.size = size /\ g.block = block
  BY <1>4, <1>5, <1>6 DEF FileValue
<1> QED BY <1>3, <1>4, <1>7 DEF g

LEMMA WriteBlockIInv ==
  ASSUME IInv, NEW h \in Handles, NEW index \in Int, NEW content \in Content,
         WriteBlock(h, index, content)
  PROVE  IInv'
<1>1. CASE Refused
  BY <1>1, NothingIInv DEF RC, Refused
<1>2. CASE Ends("crashed")
  BY <1>2, EndsIInv
<1>3. ASSUME NEW at \in Pages, CanOpen,
             file' = WriteAt(file, at, content),
             handle' = [handle EXCEPT ![h].curPagePos = PageAt(at + 1)],
             Returns("RC_OK"),
             UNCHANGED <<open, memory, intact>>
      PROVE  IInv'
  <2>1. file \in FileValue /\ file.size \in Nat /\ memory \in Content /\ at \in Nat
    BY LastPageAssumption DEF IInv, TypeOK, FileValue, Pages
  <2>2. /\ file' \in FileValue /\ file'.exists
        /\ file'.size >= file.size /\ file'.size >= at + 1 /\ file'.size \in Nat
    BY <1>3, <2>1, WriteAtType, LastPageAssumption DEF CanOpen, FileValue
  <2>3. Opened(h)
    BY DEF WriteBlock
  <2>4. at + 1 \in 0 .. file'.size /\ file'.size >= 1
    BY <2>1, <2>2
  <2>5. /\ memory' \in Content /\ "RC_OK" \in RC /\ at + 1 \in Int
        /\ UNCHANGED <<open, intact>>
    BY <1>3, <2>1 DEF RC
  <2> DEFINE n == at + 1
  <2>6. /\ n \in Int /\ n \in 0 .. file'.size
        /\ handle' = [handle EXCEPT ![h].curPagePos = PageAt(n)]
    BY <1>3, <2>4, <2>5
  <2> HIDE DEF n
  <2> QED BY <1>3, <2>2, <2>3, <2>4, <2>5, <2>6, MovedIInv
<1> QED BY <1>1, <1>2, <1>3, WriteBlockEffect

LEMMA NextIInv == IInv /\ [Next]_vars => IInv'
<1> SUFFICES ASSUME IInv, [Next]_vars PROVE IInv'
  OBVIOUS
<1>1. CASE CreatePageFile
  BY <1>1, EndsIInv, ReplacedIInv DEF CreatePageFile, RC
<1>2. CASE DestroyPageFile
  BY <1>2, ReplacedIInv DEF DestroyPageFile, RC
<1>3. ASSUME NEW h \in Handles, OpenPageFile(h) PROVE IInv'
  BY <1>3, OpenPageFileIInv
<1>4. ASSUME NEW h \in Handles, ClosePageFile(h) PROVE IInv'
  <2>1. CASE Ends("crashed")
    BY <2>1, EndsIInv
  <2>2. CASE /\ open' \in SUBSET Streams
             /\ \E code \in RC : Returns(code)
             /\ UNCHANGED <<file, handle, memory, intact>>
    BY <2>2 DEF Returns, IInv, TypeOK, NeverEmpty, WrappedAtEnd,
                TotalNeverAhead, Opened
  <2>3. open \in SUBSET Streams
    BY DEF IInv, TypeOK
  <2> QED BY <1>4, <2>1, <2>2, <2>3 DEF ClosePageFile, RC
<1>5. ASSUME NEW h \in Handles, Reads(h) PROVE IInv'
  BY <1>5, ReadsPage, ReadBlockIInv
<1>6. ASSUME NEW h \in Handles, NEW content \in Content,
             NEW index \in Asked, WriteBlock(h, index, content)
      PROVE  IInv'
  BY <1>6, AskedAssumption, WriteBlockIInv
<1>7. ASSUME NEW h \in Handles, NEW content \in Content,
             WriteCurrentBlock(h, content)
      PROVE  IInv'
  <2>1. handle[h].curPagePos * PageSize \in Int
    BY PageSizeAssumption DEF IInv, TypeOK, SM_FileHandle
  <2> QED BY <1>7, <2>1, WriteBlockIInv DEF WriteCurrentBlock
<1>8. ASSUME NEW h \in Handles, AppendEmptyBlock(h) \/ EnsureCapacity(h)
      PROVE  IInv'
  BY <1>8, NothingIInv DEF AppendEmptyBlock, EnsureCapacity, RC
<1>9. CASE UNCHANGED vars
  BY <1>9 DEF vars, IInv, TypeOK, NeverEmpty, WrappedAtEnd, TotalNeverAhead,
              Opened
<1> QED BY <1>1, <1>2, <1>3, <1>4, <1>5, <1>6, <1>7, <1>8, <1>9 DEF Next, Reads

-----------------------------------------------------------------------------
(* The theorems *)

\* The invariant holds in every reachable state.
THEOREM Invariance == Spec => []IInv
BY InitIInv, NextIInv, PTL DEF Spec

\* Every variable keeps to its type; a position stays within what an int can
\* count, however often the product of a page number wraps around.
THEOREM TypeCorrect == Spec => []TypeOK
BY Invariance, PTL DEF IInv

\* totalNumPages, which openPageFile counts once, is never ahead of the file a
\* handle was opened on, and neither is the position.
THEOREM NeverAhead == Spec => []TotalNeverAhead
BY Invariance, PTL DEF IInv

-----------------------------------------------------------------------------
(* What a step may do *)

\* Only a reader ends the process with exit(1), and only below page 0 or
\* behind the greatest file.
LEMMA ReadsDeath ==
  ASSUME IInv, NEW h \in Handles, Reads(h)
  PROVE  DeathStep
<1>1. PICK page \in Int : /\ ReadBlock(h, page)
                          /\ page >= 0 \/ handle[h].curPagePos <= 0
  BY ReadsPage
<1>2. Opened(h) /\ process = "running"
  BY <1>1 DEF ReadBlock, Running
<1>3. CASE Refused \/ ReadMoves(h, page)
  BY <1>2, <1>3 DEF Refused, ReadMoves, Returns, DeathStep
<1>4. CASE ~CanOpen /\ Ends("crashed")
  BY <1>4 DEF Ends, DeathStep
<1>5. CASE PageAt(page) < 0 /\ page <= handle[h].totalNumPages /\ Ends("exited")
  <2>1. /\ LastPage \in Nat /\ Span = LastPage + 1
        /\ handle[h].totalNumPages \in 0 .. Span
    BY LastPageAssumption DEF Span, IInv, TypeOK, SM_FileHandle
  <2>2. page >= 0 => page = Span
    BY <1>5, <2>1, PageAtSmall
  <2>3. handle[h].curPagePos <= 0 \/ handle[h].totalNumPages = LastPage + 1
    BY <1>1, <1>5, <2>1, <2>2
  <2> QED BY <1>2, <1>5, <2>3 DEF Ends, DeathStep
<1> QED BY <1>1, <1>3, <1>4, <1>5, ReadEffect DEF ReadEnds

LEMMA NextDeath == IInv /\ [Next]_vars => [DeathStep]_vars
<1> SUFFICES ASSUME IInv, Next PROVE DeathStep
  OBVIOUS
<1>1. ASSUME process = "running", process' = process PROVE DeathStep
  BY <1>1 DEF DeathStep
<1>2. CASE CreatePageFile \/ DestroyPageFile
  BY <1>2 DEF CreatePageFile, DestroyPageFile, CanOpen, Ends, Returns, Running,
              DeathStep
<1>3. ASSUME NEW h \in Handles, OpenPageFile(h) PROVE DeathStep
  BY <1>1, <1>3 DEF OpenPageFile, Returns, Running
<1>4. ASSUME NEW h \in Handles, ClosePageFile(h) PROVE DeathStep
  BY <1>4 DEF ClosePageFile, Ends, Returns, Running, DeathStep
<1>5. ASSUME NEW h \in Handles, Reads(h) PROVE DeathStep
  BY <1>5, ReadsDeath
<1>6. ASSUME NEW h \in Handles, NEW content \in Content,
             (\E index \in Asked : WriteBlock(h, index, content))
               \/ WriteCurrentBlock(h, content)
      PROVE  DeathStep
  BY <1>6 DEF WriteCurrentBlock, WriteBlock, Ends, Returns, Running, DeathStep
<1>7. ASSUME NEW h \in Handles, AppendEmptyBlock(h) \/ EnsureCapacity(h)
      PROVE  DeathStep
  BY <1>1, <1>7 DEF AppendEmptyBlock, EnsureCapacity, Returns, Running
<1> QED BY <1>2, <1>3, <1>4, <1>5, <1>6, <1>7 DEF Next, Reads

\* A read ends the process with exit(1) only behind the first page, from a
\* position that has wrapped around or at the end of the greatest file, and
\* nothing crashes but a lost file, exhausted streams or a second close.
THEOREM DeathCaused == Spec => DeathHasCause
BY Invariance, NextDeath, PTL DEF Spec, DeathHasCause

LEMMA NextOneBlock == IInv /\ [Next]_vars => [OneBlockStep]_vars
<1> SUFFICES ASSUME IInv, Next PROVE OneBlockStep
  OBVIOUS
<1>0. file \in FileValue /\ file.size \in Nat
  BY LastPageAssumption DEF IInv, TypeOK, FileValue
<1>1. ASSUME file' = file PROVE OneBlockStep
  BY <1>0, <1>1 DEF OneBlockStep
<1>2. CASE CreatePageFile \/ DestroyPageFile
  BY <1>1, <1>2 DEF CreatePageFile, DestroyPageFile, Ends, OneBlockStep
<1>3. ASSUME NEW h \in Handles,
             \/ OpenPageFile(h) \/ ClosePageFile(h)
             \/ AppendEmptyBlock(h) \/ EnsureCapacity(h)
      PROVE  OneBlockStep
  BY <1>1, <1>3 DEF OpenPageFile, ClosePageFile, AppendEmptyBlock,
                    EnsureCapacity, Ends
<1>4. ASSUME NEW h \in Handles, Reads(h) PROVE OneBlockStep
  BY <1>1, <1>4, ReadsPage, ReadEffect DEF Refused, ReadEnds, ReadMoves, Ends
<1>5. ASSUME NEW h \in Handles, NEW content \in Content, NEW index \in Int,
             WriteBlock(h, index, content)
      PROVE  OneBlockStep
  <2>1. ASSUME NEW at \in Pages, file' = WriteAt(file, at, content)
        PROVE  OneBlockStep
    BY <1>0, <2>1, WriteAtType DEF OneBlockStep
  <2> QED BY <1>1, <1>5, <2>1, WriteBlockEffect DEF Refused, Ends
<1>6. ASSUME NEW h \in Handles PROVE handle[h].curPagePos * PageSize \in Int
  BY PageSizeAssumption DEF IInv, TypeOK, SM_FileHandle
<1>7. ASSUME NEW h \in Handles, NEW content \in Content,
             (\E index \in Asked : WriteBlock(h, index, content))
               \/ WriteCurrentBlock(h, content)
      PROVE  OneBlockStep
  BY <1>5, <1>6, <1>7, AskedAssumption DEF WriteCurrentBlock
<1> QED BY <1>2, <1>3, <1>4, <1>7 DEF Next, Reads

\* While the file is there it never shrinks, and one call changes one block.
THEOREM OneBlock == Spec => OneBlockPerWrite
BY Invariance, NextOneBlock, PTL DEF Spec, OneBlockPerWrite

=============================================================================
