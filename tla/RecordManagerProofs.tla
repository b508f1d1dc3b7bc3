------------------------ MODULE RecordManagerProofs -------------------------
(***************************************************************************)
(* The record manager keeps its types and the shape of its pool, and does  *)
(* to the records what the calls say, for every number of frames, buffers, *)
(* pages, slots and streams, every uninitialised pivot and every content of*)
(* a fresh buffer.                                                         *)
(***************************************************************************)
EXTENDS RecordManager, BufferManagerProofs

\* What every lemma on the calls asks for.
USE FramesAssumption

\* What a call that has begun relies on in its later steps.
CallOK ==
  /\ call.op \in {"insert", "update"} => call.val \in Vals
  /\ call.op = "next" => scan.scanned <= X

\* The inductive invariant.
IInv == TypeOK /\ PoolShape /\ CallOK

-----------------------------------------------------------------------------
(* Pins *)

LEMMA NewBufIsSpare ==
  ASSUME pool \in Pool(N)
  PROVE  NewBuf \in Bufs /\ \A g \in Frames(N) : pool.frame[g].data # NewBuf
<1>1. [f \in Frames(N) |-> pool.frame[f].data] \in [Frames(N) -> Bufs \cup {Null}]
  BY PoolMembers, FrameMembers
<1>2. PICK b \in Bufs : \A f \in Frames(N) : [g \in Frames(N) |-> pool.frame[g].data][f] # b
  BY <1>1, SpareAssumption
<1>3. b \in Spare
  BY <1>2 DEF Spare, FrameBufs
<1>4. NewBuf \in Spare
  BY <1>3 DEF NewBuf
<1> QED BY <1>4, NullAssumption DEF Spare, FrameBufs

\* What is undefined in the record manager's pins is among what is undefined.
LEMMA JunkIsUndefined == Junk \subseteq Undefined
BY JunkPagesAssumption DEF Junk, Undefined

\* A pin of a page of the table keeps the pool good and hands out one of its
\* buffers.
LEMMA PinnedGood ==
  ASSUME Good(N, {}, pool), NEW p \in Pages, NEW s \in Pinned(p)
  PROVE  Good(N, {}, s) /\ Data(p) \in Bufs
<1>1. PICK u \in Junk : s = PinPage(N, pool, p, NewBuf, u)
  BY DEF Pinned
<1>2. u \in Undefined
  BY JunkIsUndefined
<1>3. pool \in Pool(N) /\ Shaped(N, {}, pool)
  BY DEF Good
<1>4. NewBuf \in Bufs /\ \A g \in Frames(N) : pool.frame[g].data # NewBuf
  BY <1>3, NewBufIsSpare
<1>5. Good(N, {}, s)
  BY <1>1, <1>2, <1>3, <1>4, PinPageGood
<1>6. Data(p) \in Bufs
  BY <1>3, <1>4, PinnedDataIsBuffer DEF Data
<1> QED BY <1>5, <1>6

\* A byte written into a buffer changes no frame.
LEMMA HeapGood ==
  ASSUME NEW s, Good(N, {}, s), NEW h \in [Bufs -> Content]
  PROVE  Good(N, {}, [s EXCEPT !.heap = h])
<1> DEFINE t == [s EXCEPT !.heap = h]
<1>1. t \in Pool(N)
  BY SetHeap DEF Good
<1>2. t.frame = s.frame
  BY DEF Good, Pool
<1> HIDE DEF t
<1>3. Good(N, {}, t)
  BY <1>1, <1>2, ShapeOfFrames DEF Good
<1> QED BY <1>3 DEF t

\* A record put into a slot of a page.
LEMMA PutGood ==
  ASSUME NEW s, Good(N, {}, s), NEW b \in Bufs, NEW i \in SlotIds, NEW cell \in Cell
  PROVE  Good(N, {}, Put(s, b, i, cell))
<1> DEFINE page == [s.heap[b] EXCEPT ![i] = cell]
           h == [s.heap EXCEPT ![b] = page]
<1>1. s.heap \in [Bufs -> [SlotIds -> Cell]]
  BY PoolMembers, PageAssumption DEF Good
<1>2. page \in Content
  BY <1>1, PageAssumption
<1>3. h \in [Bufs -> Content]
  BY <1>1, <1>2, PageAssumption
<1>4. Good(N, {}, [s EXCEPT !.heap = h])
  BY <1>3, HeapGood
<1> QED BY <1>4 DEF Put

LEMMA CellMembers ==
  ASSUME NEW s, Good(N, {}, s), NEW b \in Bufs, NEW i \in SlotIds
  PROVE  s.heap[b][i] \in Cell
<1>1. s.heap \in [Bufs -> [SlotIds -> Cell]]
  BY PoolMembers, PageAssumption DEF Good
<1> QED BY <1>1

\* The mark of a record replaced, and its value.
LEMMA MarkGood ==
  ASSUME NEW s, Good(N, {}, s), NEW b \in Bufs, NEW i \in SlotIds
  PROVE  Good(N, {}, [s EXCEPT !.heap[b][i].mark = "*"])
<1> DEFINE c == s.heap[b][i]
<1>1. c \in Cell
  BY CellMembers
<1>2. [c EXCEPT !.mark = "*"] \in Cell
  <2> HIDE DEF c
  <2> QED BY <1>1 DEF Cell
<1>3. Good(N, {}, Put(s, b, i, [c EXCEPT !.mark = "*"]))
  <2> HIDE DEF c
  <2> QED BY <1>2, PutGood
<1> QED BY <1>3 DEF Put

LEMMA ValGood ==
  ASSUME NEW s, Good(N, {}, s), NEW b \in Bufs, NEW i \in SlotIds, NEW v \in Vals
  PROVE  Good(N, {}, [s EXCEPT !.heap[b][i].val = v])
<1> DEFINE c == s.heap[b][i]
<1>1. c \in Cell
  BY CellMembers
<1>2. [c EXCEPT !.val = v] \in Cell
  <2> HIDE DEF c
  <2> QED BY <1>1 DEF Cell
<1>3. Good(N, {}, Put(s, b, i, [c EXCEPT !.val = v]))
  <2> HIDE DEF c
  <2> QED BY <1>2, PutGood
<1> QED BY <1>3 DEF Put

\* What a step leaves in pool' has the type, and the shape if it had it.
LEMMA BecomesPool ==
  ASSUME NEW s \in Pool(N), Becomes(s)
  PROVE  pool' \in Pool(N) /\ (Shaped(N, {}, s) => Shaped(N, {}, pool'))
<1> DEFINE r == [s EXCEPT !.pageCounter = 0]
           t == [r EXCEPT !.lastEntry = 0]
<1>1. r \in Pool(N)
  BY SetPageCounter
<1>2. t \in Pool(N)
  <2> HIDE DEF r
  <2> QED BY <1>1, SetLastEntry
<1>3. t.frame = s.frame
  BY DEF Pool
<1>4. pool' = Collect(t, FrameBufs(N, s))
  BY DEF Becomes
<1> HIDE DEF t
<1>5. Collect(t, FrameBufs(N, s)) \in Pool(N)
      /\ (Shaped(N, {}, t) => Shaped(N, {}, Collect(t, FrameBufs(N, s))))
  <2> DEFINE h == [b \in Bufs |-> IF b \in FrameBufs(N, s) THEN t.heap[b] ELSE Blank]
  <2>1. h \in [Bufs -> Content]
    BY <1>2, PoolMembers, ContentAssumption
  <2>2. Collect(t, FrameBufs(N, s)) = [t EXCEPT !.heap = h]
    BY DEF Collect
  <2>3. [t EXCEPT !.heap = h] \in Pool(N) /\ [t EXCEPT !.heap = h].frame = t.frame
    <3> HIDE DEF h
    <3> QED BY <1>2, <2>1, SetHeap DEF Pool
  <2> HIDE DEF h
  <2> QED BY <2>2, <2>3, ShapeOfFrames
<1> QED BY <1>3, <1>4, <1>5, ShapeOfFrames

LEMMA BecomesGood ==
  ASSUME NEW s, Good(N, {}, s), Becomes(s)
  PROVE  Good(N, {}, pool')
BY BecomesPool DEF Good

-----------------------------------------------------------------------------
(* The steps *)

LEMMA FileTypes == AbsentFile \in FileValue /\ HeaderFile \in FileValue
<1>1. HeaderPage \in Content
  BY PageAssumption DEF HeaderPage, Cell
<1>2. AbsentFile \in FileValue /\ CreatedFile \in FileValue
  BY ContentAssumption, LastPageAssumption DEF AbsentFile, CreatedFile, FileValue
<1> DEFINE bl == [CreatedFile.block EXCEPT ![0] = HeaderPage]
<1>3. bl \in [Pages -> Content]
  BY <1>1, <1>2, FileMembers
<1>4. HeaderFile = [CreatedFile EXCEPT !.block = bl]
  BY DEF HeaderFile
<1> HIDE DEF bl
<1> QED BY <1>2, <1>3, <1>4 DEF FileValue

\* A process has no table yet, and a pool without a file.
LEMMA InitIInv == Init => IInv
<1> SUFFICES ASSUME Init PROVE IInv
  OBVIOUS
<1>1. Good(N, {}, pool)
  BY FileTypes, FreshPoolGood DEF Init, Strategies
<1>2. 0 \in SlotIds /\ 1 \in 1 .. LastPage /\ 0 \in Pages
  BY SlotsAssumption, PagesAssumption, LastPageAssumption DEF SlotIds, Pages
<1>3. TypeOK
  BY <1>1, <1>2, ScanLengthAssumption, LastPageAssumption DEF TypeOK, Good, Init, OpenedManager, NoScan, Undone, Call
<1>4. PoolShape /\ CallOK
  BY <1>1, ShapedIsShape DEF PoolShape, CallOK, Good, Init, Undone
<1> QED BY <1>3, <1>4 DEF IInv

LEMMA PoolGood == IInv => Good(N, {}, pool)
BY ShapedIsShape DEF IInv, TypeOK, PoolShape, Good

LEMMA HeaderPinned ==
  ASSUME Good(N, {}, pool), PinHeader
  PROVE  Good(N, {}, pool')
<1>1. PICK s \in Pinned(0) : Becomes(ForcePage(N, s, 0))
  BY DEF PinHeader
<1>2. 0 \in Pages
  BY LastPageAssumption DEF Pages
<1>3. Good(N, {}, ForcePage(N, s, 0))
  BY <1>2, PinnedGood, ForcePageGood DEF Good
<1> QED BY <1>1, <1>3, BecomesGood

\* What a step has to show for the invariant.
LEMMA StepIInv ==
  ASSUME Good(N, {}, pool'),
         table' \in {"none", "closed", "open"},
         mgr' \in [tuples : {0, X}, pageID : 1 .. LastPage],
         scan' \in [open : BOOLEAN, scanned : 0 .. X + 1, slot : SlotIds,
                    last : Pages \cup {NoPage}],
         call' \in Call,
         call'.op \in {"insert", "update"} => call'.val \in Vals,
         call'.op = "next" => scan'.scanned <= X,
         ledger' \in [RID -> Vals \cup {"unused", "deleted"}]
  PROVE  IInv'
BY ShapedIsShape DEF IInv, TypeOK, PoolShape, CallOK, Good

\* The members other than the pool.
LEMMA Members ==
  ASSUME IInv
  PROVE  /\ table \in {"none", "closed", "open"}
         /\ mgr \in [tuples : {0, X}, pageID : 1 .. LastPage]
         /\ scan \in [open : BOOLEAN, scanned : 0 .. X + 1, slot : SlotIds,
                      last : Pages \cup {NoPage}]
         /\ call \in Call
         /\ call.op \in {"insert", "update"} => call.val \in Vals
         /\ call.op = "next" => scan.scanned <= X
         /\ ledger \in [RID -> Vals \cup {"unused", "deleted"}]
BY DEF IInv, TypeOK, CallOK

LEMMA CreateTableIInv == IInv /\ CreateTable => IInv'
<1> SUFFICES ASSUME IInv, CreateTable PROVE IInv'
  OBVIOUS
<1> DEFINE i == InitBufferPool(N, pool, "LRU")
           s == [i EXCEPT !.file = HeaderFile]
<1>1. Good(N, {}, pool)
  BY PoolGood DEF CreateTable
<1>2. Good(N, {}, i)
  BY <1>1, InitBufferPoolGood DEF Good, Strategies
<1>3. Good(N, {}, s)
  <2> HIDE DEF i
  <2>1. s \in Pool(N) /\ s.frame = i.frame
    BY <1>2, FileTypes, SetFile DEF Good, Pool
  <2> HIDE DEF s
  <2> QED BY <1>2, <2>1, ShapeOfFrames DEF Good
<1>4. Becomes(s) \/ Becomes(Crashed(s))
  BY DEF CreateTable
<1> HIDE DEF s
<1>5. Good(N, {}, pool')
  BY <1>3, <1>4, CrashedGood, BecomesGood DEF Good
<1> QED BY <1>5, Members, StepIInv DEF CreateTable

LEMMA OpenTableIInv == IInv /\ OpenTable => IInv'
<1> SUFFICES ASSUME IInv, OpenTable PROVE IInv'
  OBVIOUS
<1>1. Good(N, {}, pool')
  BY PoolGood, HeaderPinned DEF OpenTable
<1>2. OpenedManager \in [tuples : {0, X}, pageID : 1 .. LastPage]
  BY PagesAssumption, LastPageAssumption DEF OpenedManager
<1> QED BY <1>1, <1>2, Members, StepIInv DEF OpenTable

LEMMA CloseTableIInv == IInv /\ CloseTable => IInv'
<1> SUFFICES ASSUME IInv, CloseTable PROVE IInv'
  OBVIOUS
<1>1. Good(N, {}, pool')
  BY PoolGood, ForceFlushPoolGood, BecomesGood
  DEF CloseTable, ShutdownBufferPool, Good
<1> QED BY <1>1, Members, StepIInv DEF CloseTable

LEMMA DeleteTableIInv == IInv /\ DeleteTable => IInv'
<1> SUFFICES ASSUME IInv, DeleteTable PROVE IInv'
  OBVIOUS
<1> DEFINE s == [pool EXCEPT !.file = AbsentFile]
<1>1. Good(N, {}, pool)
  BY PoolGood DEF DeleteTable
<1>2. s \in Pool(N) /\ s.frame = pool.frame
  BY <1>1, FileTypes, SetFile DEF Good, Pool
<1>3. Becomes(s)
  BY DEF DeleteTable
<1> HIDE DEF s
<1>4. Good(N, {}, pool')
  BY <1>1, <1>2, <1>3, ShapeOfFrames, BecomesGood DEF Good
<1> QED BY <1>4, Members, StepIInv DEF DeleteTable

\* The types of the calls that take more than one step.
LEMMA BeginTypes ==
  ASSUME NEW op \in {"insert", "update", "next"}, NEW p \in Pages,
         NEW rid \in RID \cup {NoRID}, NEW v \in Vals \cup {NoVal}, Begin(op, p, rid, v)
  PROVE  /\ call' \in Call
         /\ call'.op = op /\ call'.val = v
BY LastPageAssumption DEF Begin, Call, Pages

LEMMA UndoneTypes ==
  /\ Undone \in Call
  /\ Undone.op = "none"
BY LastPageAssumption DEF Undone, Call

LEMMA InsertRecordIInv ==
  ASSUME IInv, NEW v \in Vals, NEW first \in Pivots, InsertRecord(v, first)
  PROVE  IInv'
<1>1. Good(N, {}, pool')
  BY PoolGood DEF InsertRecord, Good
<1>2. mgr.pageID \in 0 .. LastPage + 1 /\ first \in Nat
  BY Members, LastPageAssumption, PivotsAssumption
<1>3. call' \in Call /\ call'.op = "insert" /\ call'.val = v
  BY <1>2 DEF InsertRecord, Undone, Call
<1>4. table' = "open"
  BY DEF InsertRecord
<1>5. UNCHANGED <<mgr, scan, ledger>>
  BY DEF InsertRecord
<1> QED BY <1>1, <1>2, <1>3, <1>4, <1>5, Members, StepIInv

\* One round of insertRecord's search, whatever the pages show.
LEMMA InsertStepIInv == IInv /\ InsertStep => IInv'
<1> SUFFICES ASSUME IInv, InsertStep PROVE IInv'
  OBVIOUS
<1>1. Good(N, {}, pool) /\ call.at \in Pages /\ call.val \in Vals /\ call.first \in Nat
  BY PoolGood, Members DEF InsertStep, Call
<1>2. PICK s \in Pinned(call.at) :
        LET b    == Data(call.at)
            free == Free(s.heap[b], call.first)
            rid  == [page |-> call.at, slot |-> Least(free)]
        IN  IF free = {}
            THEN /\ Becomes(UnpinPage(N, s, call.at))
                 /\ call' = [call EXCEPT !.at = @ + 1]
                 /\ UNCHANGED ledger
            ELSE /\ Becomes(Put(s, b, rid.slot, [mark |-> "#", val |-> call.val]))
                 /\ call' = Undone
                 /\ ledger' = [ledger EXCEPT ![rid] = call.val]
  BY DEF InsertStep
<1> DEFINE b == Data(call.at)
           free == Free(s.heap[b], call.first)
           slot == Least(free)
           cell == [mark |-> "#", val |-> call.val]
<1>3. Good(N, {}, s) /\ b \in Bufs
  BY <1>1, PinnedGood
<1>4. UNCHANGED <<table, mgr, scan>> /\ call.op = "insert"
  BY DEF InsertStep
<1>5. table' \in {"none", "closed", "open"}
  BY <1>4, Members DEF IInv, CallOK
<1>6. CASE free = {}
  <2>1. Good(N, {}, pool')
    BY <1>1, <1>2, <1>3, <1>6, UnpinPageGood, BecomesGood DEF Good
  <2>2. call' = [call EXCEPT !.at = call.at + 1] /\ UNCHANGED ledger
    BY <1>2, <1>6
  <2>3. call.at + 1 \in 0 .. LastPage + 1
    BY <1>1, LastPageAssumption DEF Pages
  <2>4. call' \in Call
        /\ call'.op = "insert" /\ call'.val = call.val
    BY <1>4, <2>2, <2>3, Members DEF Call
  <2> QED BY <1>1, <1>4, <1>5, <2>1, <2>2, <2>4, Members, StepIInv
<1>7. CASE free # {}
  <2>1. free \subseteq SlotIds
    BY <1>1, SlotsAssumption DEF Free, SlotIds
  <2>2. slot \in SlotIds
    BY <1>7, <2>1, LeastIsMember, SlotsAssumption DEF SlotIds
  <2>3. cell \in Cell
    BY <1>1 DEF Cell
  <2>4. Becomes(Put(s, b, slot, cell)) /\ call' = Undone
        /\ ledger' = [ledger EXCEPT ![[page |-> call.at, slot |-> slot]] = call.val]
    BY <1>2, <1>7
  <2>5. Good(N, {}, pool')
    <3>1. Good(N, {}, Put(s, b, slot, cell))
      <4> HIDE DEF cell, b, slot
      <4> QED BY <1>3, <2>2, <2>3, PutGood
    <3> HIDE DEF cell, b, slot
    <3> QED BY <2>4, <3>1, BecomesGood
  <2>6. ledger' \in [RID -> Vals \cup {"unused", "deleted"}]
    BY <1>1, <2>4, Members
  <2> QED BY <1>4, <1>5, <2>4, <2>5, <2>6, Members, UndoneTypes, StepIInv
<1> QED BY <1>6, <1>7

LEMMA RIDMembers ==
  ASSUME NEW rid \in RID
  PROVE  rid.page \in Pages /\ rid.page \in 1 .. LastPage /\ rid.slot \in SlotIds
BY LastPageAssumption DEF RID, Pages

\* The tombstone goes into a buffer of the pool, though the pin is gone.
LEMMA DeleteRecordIInv ==
  ASSUME IInv, NEW rid \in RID, DeleteRecord(rid)
  PROVE  IInv'
<1> DEFINE p == rid.page
<1>1. Good(N, {}, pool) /\ p \in Pages /\ rid.slot \in SlotIds
  BY PoolGood, RIDMembers DEF DeleteRecord
<1>2. PICK s \in Pinned(p) :
        LET t == UnpinPage(N, UnpinPage(N, MarkDirty(N, s, p), p), p)
        IN  IF rid.slot >= SlotLimit
            THEN Becomes(UnpinPage(N, s, p)) /\ UNCHANGED ledger
            ELSE /\ Becomes([t EXCEPT !.heap[Data(p)][rid.slot].mark = "*"])
                 /\ ledger' = [ledger EXCEPT ![rid] = "deleted"]
  BY DEF DeleteRecord
<1> DEFINE t == UnpinPage(N, UnpinPage(N, MarkDirty(N, s, p), p), p)
<1>3. Good(N, {}, s) /\ Data(p) \in Bufs
  BY <1>1, PinnedGood
<1>4. Good(N, {}, t) /\ Good(N, {}, UnpinPage(N, s, p))
  BY <1>1, <1>3, MarkDirtyGood, UnpinPageGood DEF Good
<1>5. UNCHANGED <<table, scan, call>> /\ table = "open" /\ call.op = "none"
      /\ mgr' = [mgr EXCEPT !.pageID = p]
  BY DEF DeleteRecord, Ready
<1>6. mgr' \in [tuples : {0, X}, pageID : 1 .. LastPage]
  BY <1>5, Members, RIDMembers
<1>7. CASE rid.slot >= SlotLimit
  <2>1. Good(N, {}, pool') /\ UNCHANGED ledger
    BY <1>2, <1>4, <1>7, BecomesGood
  <2> QED BY <1>5, <1>6, <2>1, Members, StepIInv
<1>8. CASE ~(rid.slot >= SlotLimit)
  <2> DEFINE r == [t EXCEPT !.heap[Data(p)][rid.slot].mark = "*"]
  <2>1. Becomes(r) /\ ledger' = [ledger EXCEPT ![rid] = "deleted"]
    BY <1>2, <1>8
  <2>2. Good(N, {}, r)
    <3> HIDE DEF t
    <3> QED BY <1>1, <1>3, <1>4, MarkGood
  <2>3. Good(N, {}, pool')
    <3> HIDE DEF r
    <3> QED BY <2>1, <2>2, BecomesGood
  <2>4. ledger' \in [RID -> Vals \cup {"unused", "deleted"}]
    BY <2>1, Members
  <2> QED BY <1>5, <1>6, <2>3, <2>4, Members, StepIInv
<1> QED BY <1>7, <1>8

LEMMA GetRecordIInv ==
  ASSUME IInv, NEW rid \in RID, GetRecord(rid)
  PROVE  IInv'
<1>1. PICK s \in Pinned(rid.page) : Becomes(UnpinPage(N, s, rid.page))
  BY DEF GetRecord
<1>2. Good(N, {}, pool')
  BY <1>1, PoolGood, RIDMembers, PinnedGood, UnpinPageGood, BecomesGood
  DEF GetRecord, Good
<1> QED BY <1>2, Members, StepIInv DEF GetRecord

LEMMA UpdateRecordIInv ==
  ASSUME IInv, NEW rid \in RID, NEW v \in Vals, UpdateRecord(rid, v)
  PROVE  IInv'
<1>1. Good(N, {}, pool')
  BY PoolGood DEF UpdateRecord, Good
<1>2. 0 \in Pages
  BY LastPageAssumption DEF Pages
<1>3. Begin("update", 0, rid, v)
  BY DEF UpdateRecord
<1> QED BY <1>1, <1>2, <1>3, Members, BeginTypes, StepIInv DEF UpdateRecord

\* A walk to a record's page passes pages only.
LEMMA WalkPages ==
  ASSUME IInv, call.at < call.rid.page
  PROVE  call.at \in Pages
<1>1. call.at \in Nat /\ call.rid \in RID \cup {NoRID}
  BY Members, LastPageAssumption DEF Call
<1>2. call.rid.page <= LastPage /\ call.rid.page \in Int
  BY <1>1, LastPageAssumption DEF RID, NoRID, NoPage
<1> QED BY <1>1, <1>2, LastPageAssumption DEF Pages

\* A walk of pins stays below the page it leads to.
LEMMA PinBelowIInv == IInv /\ PinBelow => IInv'
<1> SUFFICES ASSUME IInv, PinBelow PROVE IInv'
  OBVIOUS
<1>1. Good(N, {}, pool)
  BY PoolGood DEF PinBelow
<1>2. call.at \in Pages
  BY WalkPages DEF PinBelow
<1>3. call.at + 1 \in 0 .. LastPage + 1
  BY <1>2, LastPageAssumption DEF Pages
<1>4. Good(N, {}, pool')
  BY <1>1, <1>2, PinnedGood, BecomesGood DEF PinBelow
<1>5. call' = [call EXCEPT !.at = call.at + 1]
  BY DEF PinBelow
<1>6. call' \in Call
      /\ call'.op = call.op /\ call'.val = call.val
  BY <1>3, <1>5, Members DEF Call
<1>7. UNCHANGED <<table, mgr, scan, ledger>> /\ call.op # "none"
  BY DEF PinBelow
<1>8. table' \in {"none", "closed", "open"}
  BY <1>7, Members DEF IInv, CallOK
<1> QED BY <1>4, <1>6, <1>7, <1>8, Members, StepIInv

\* The id an update or a read has reached is one of the caller's.
LEMMA ReachedRID ==
  ASSUME IInv, call.at = call.rid.page
  PROVE  call.rid \in RID /\ call.at \in Pages /\ call.rid.slot \in SlotIds
<1>1. call.at \in Nat /\ call.rid \in RID \cup {NoRID}
  BY Members, LastPageAssumption DEF Call
<1>2. NoRID.page \notin Nat
  BY DEF NoRID, NoPage
<1> QED BY <1>1, <1>2, RIDMembers

LEMMA UpdateStepIInv == IInv /\ UpdateStep => IInv'
<1> SUFFICES ASSUME IInv, UpdateStep PROVE IInv'
  OBVIOUS
<1> DEFINE p == call.at
           i == call.rid.slot
<1>1. Good(N, {}, pool) /\ call.val \in Vals /\ call.op = "update"
  BY PoolGood, Members DEF UpdateStep
<1>2. call.rid \in RID /\ p \in Pages /\ i \in SlotIds
  BY ReachedRID DEF UpdateStep
<1>3. PICK s \in Pinned(p) :
        Becomes(UnpinPage(N, [MarkDirty(N, s, p) EXCEPT
                             !.heap[Data(p)][i].val = call.val], p))
  BY DEF UpdateStep
<1> DEFINE d == MarkDirty(N, s, p)
           t == [d EXCEPT !.heap[Data(p)][i].val = call.val]
<1>4. Good(N, {}, d) /\ Data(p) \in Bufs
  BY <1>1, <1>2, PinnedGood, MarkDirtyGood DEF Good
<1>5. Good(N, {}, t)
  <2> HIDE DEF d, i
  <2> QED BY <1>1, <1>2, <1>4, ValGood
<1>6. Good(N, {}, pool')
  <2>1. Becomes(UnpinPage(N, t, p))
    BY <1>3
  <2> HIDE DEF t
  <2>2. Good(N, {}, UnpinPage(N, t, p))
    BY <1>2, <1>5, UnpinPageGood DEF Good
  <2> QED BY <2>1, <2>2, BecomesGood
<1>7. ledger' \in [RID -> Vals \cup {"unused", "deleted"}]
  BY <1>1, <1>2, Members DEF UpdateStep
<1>8. UNCHANGED <<table, mgr, scan>> /\ call' = Undone
  BY DEF UpdateStep
<1>9. table' \in {"none", "closed", "open"}
  BY <1>1, <1>8, Members DEF IInv, CallOK
<1> QED BY <1>6, <1>7, <1>8, <1>9, Members, UndoneTypes, StepIInv

-----------------------------------------------------------------------------
(* Scans *)

LEMMA NoScanTypes ==
  /\ NoScan \in [open : BOOLEAN, scanned : 0 .. X + 1, slot : SlotIds,
                 last : Pages \cup {NoPage}]
  /\ [NoScan EXCEPT !.open = TRUE] \in
       [open : BOOLEAN, scanned : 0 .. X + 1, slot : SlotIds,
        last : Pages \cup {NoPage}]
<1>1. 0 \in 0 .. X + 1 /\ 0 \in SlotIds
  BY ScanLengthAssumption, SlotsAssumption DEF SlotIds
<1> QED BY <1>1 DEF NoScan

LEMMA StartScanIInv == IInv /\ StartScan => IInv'
<1> SUFFICES ASSUME IInv, StartScan PROVE IInv'
  OBVIOUS
<1>1. Good(N, {}, pool')
  BY PoolGood, HeaderPinned DEF StartScan
<1>2. mgr' \in [tuples : {0, X}, pageID : 1 .. LastPage]
  BY PagesAssumption, LastPageAssumption DEF StartScan, OpenedManager
<1>3. call.op = "none" /\ table' = "open" /\ UNCHANGED <<call, ledger>>
      /\ scan' = [NoScan EXCEPT !.open = TRUE]
  BY DEF StartScan, Ready
<1> QED BY <1>1, <1>2, <1>3, Members, NoScanTypes, StepIInv

\* The scan's slot starts over on every page.
LEMMA NextSlotTypes ==
  ASSUME IInv
  PROVE  NextSlot \in SlotIds
BY Members, SlotsAssumption DEF NextSlot, SlotIds

LEMMA NextKnownIInv ==
  ASSUME IInv, NEW rid \in RID, NextKnown(rid)
  PROVE  IInv'
<1>1. Good(N, {}, pool') /\ table' = "open" /\ UNCHANGED <<mgr, ledger>>
  BY PoolGood DEF NextKnown, Scanning, Good
<1>2. scan.scanned <= X
  BY Members, ScanLengthAssumption DEF NextKnown
<1>3. scan' = [scan EXCEPT !.slot = NextSlot] /\ Begin("next", 0, rid, NoVal)
  BY DEF NextKnown
<1>4. scan' \in [open : BOOLEAN, scanned : 0 .. X + 1, slot : SlotIds,
                last : Pages \cup {NoPage}] /\ scan'.scanned = scan.scanned
  BY <1>3, Members, NextSlotTypes
<1>5. 0 \in Pages
  BY LastPageAssumption DEF Pages
<1> QED BY <1>1, <1>2, <1>3, <1>4, <1>5, Members, BeginTypes, StepIInv

\* The record of another slot goes over the one that was asked for, in a
\* buffer of the pool, and the two surplus unpins move no frame.
LEMMA NextStepIInv == IInv /\ NextStep => IInv'
<1> SUFFICES ASSUME IInv, NextStep PROVE IInv'
  OBVIOUS
<1> DEFINE p == call.at
           i == call.rid.slot
<1>1. Good(N, {}, pool) /\ call.op = "next"
  BY PoolGood DEF NextStep
<1>2. p \in Pages /\ i \in SlotIds /\ scan.slot \in SlotIds
  BY ReachedRID, Members DEF NextStep
<1>3. PICK s \in Pinned(p) :
        Becomes(Put(UnpinPage(N, UnpinPage(N, UnpinPage(N, s, p), p), p), Data(p), i,
                    [mark |-> "*", val |-> s.heap[Data(p)][scan.slot].val]))
  BY DEF NextStep
<1> DEFINE t == UnpinPage(N, UnpinPage(N, UnpinPage(N, s, p), p), p)
           read == s.heap[Data(p)][scan.slot]
           cell == [mark |-> "*", val |-> read.val]
<1>4. Good(N, {}, s) /\ Data(p) \in Bufs
  BY <1>1, <1>2, PinnedGood
<1>5. Good(N, {}, t)
  BY <1>2, <1>4, UnpinPageGood DEF Good
<1>6. read \in Cell
  BY <1>2, <1>4, CellMembers
<1>7. cell \in Cell
  <2> HIDE DEF read
  <2> QED BY <1>6 DEF Cell
<1>8. Good(N, {}, Put(t, Data(p), i, cell))
  <2> HIDE DEF t, i, cell
  <2> QED BY <1>2, <1>4, <1>5, <1>7, PutGood
<1>9. Good(N, {}, pool')
  <2> HIDE DEF t, i, cell
  <2> QED BY <1>3, <1>8, BecomesGood DEF t, cell, i
<1>10. scan' = [scan EXCEPT !.scanned = scan.scanned + 1, !.last = p]
       /\ call' = Undone /\ UNCHANGED <<table, mgr, ledger>>
  BY DEF NextStep
<1>11. scan.scanned + 1 \in 0 .. X + 1
  BY <1>1, Members, ScanLengthAssumption
<1>12. scan' \in [open : BOOLEAN, scanned : 0 .. X + 1, slot : SlotIds,
                 last : Pages \cup {NoPage}]
  BY <1>2, <1>10, <1>11, Members
<1>13. table' \in {"none", "closed", "open"}
  BY <1>1, <1>10, Members DEF IInv, CallOK
<1> QED BY <1>9, <1>10, <1>12, <1>13, Members, UndoneTypes, StepIInv

\* next() unpins the page it last pinned.
LEMMA NextEndIInv == IInv /\ NextEnd => IInv'
<1> SUFFICES ASSUME IInv, NextEnd PROVE IInv'
  OBVIOUS
<1> DEFINE p == scan.last
<1>1. Good(N, {}, pool) /\ table' = "open" /\ call.op = "none"
      /\ UNCHANGED <<mgr, scan, call, ledger>>
  BY PoolGood DEF NextEnd, Scanning, Ready
<1>2. CASE p = NoPage
  <2>1. Good(N, {}, pool')
    BY <1>1, <1>2 DEF NextEnd, Good
  <2> QED BY <1>1, <2>1, Members, StepIInv
<1>3. CASE p # NoPage
  <2>1. p \in Pages
    BY <1>3, Members
  <2>2. Becomes(UnpinPage(N, UnpinPage(N, pool, p), p))
    BY <1>3 DEF NextEnd
  <2>3. Good(N, {}, pool')
    BY <1>1, <2>1, <2>2, UnpinPageGood, BecomesGood DEF Good
  <2> QED BY <1>1, <2>3, Members, StepIInv
<1> QED BY <1>2, <1>3

LEMMA CloseScanIInv == IInv /\ CloseScan => IInv'
<1> SUFFICES ASSUME IInv, CloseScan PROVE IInv'
  OBVIOUS
<1>1. Good(N, {}, pool) /\ UNCHANGED <<pool, table, mgr, call, ledger>>
      /\ scan' = NoScan /\ call.op = "none"
  BY PoolGood DEF CloseScan, Ready
<1>2. Good(N, {}, pool')
  BY <1>1 DEF Good
<1> QED BY <1>1, <1>2, Members, NoScanTypes, StepIInv

LEMMA NextUnsetIInv == IInv /\ NextUnset => IInv'
<1> SUFFICES ASSUME IInv, NextUnset PROVE IInv'
  OBVIOUS
<1>1. Good(N, {}, pool) /\ Becomes(Crashed(pool)) /\ call.op = "none"
      /\ UNCHANGED <<table, mgr, scan, call, ledger>>
  BY PoolGood DEF NextUnset, Scanning, Ready
<1>2. Good(N, {}, pool')
  BY <1>1, CrashedGood, BecomesGood DEF Good
<1> QED BY <1>1, <1>2, Members, StepIInv

-----------------------------------------------------------------------------
(* The theorems *)

LEMMA NextIInv == IInv /\ [Next]_vars => IInv'
<1> SUFFICES ASSUME IInv, [Next]_vars PROVE IInv'
  OBVIOUS
<1>1. \A rid \in Known : rid \in RID
  BY DEF Known
<1>2. CASE UNCHANGED vars
  BY <1>2 DEF vars, IInv, TypeOK, PoolShape, CallOK
<1>3. CASE CreateTable \/ OpenTable \/ CloseTable \/ DeleteTable
  BY <1>3, CreateTableIInv, OpenTableIInv, CloseTableIInv, DeleteTableIInv
<1>4. CASE \E v \in Vals, first \in Pivots : InsertRecord(v, first)
  BY <1>4, InsertRecordIInv
<1>5. CASE \E rid \in Known : DeleteRecord(rid) \/ GetRecord(rid) \/ NextKnown(rid)
  BY <1>1, <1>5, DeleteRecordIInv, GetRecordIInv, NextKnownIInv
<1>6. CASE \E rid \in Known, v \in Vals : UpdateRecord(rid, v)
  BY <1>1, <1>6, UpdateRecordIInv
<1>7. CASE StartScan \/ NextUnset \/ NextEnd \/ CloseScan
  BY <1>7, StartScanIInv, NextUnsetIInv, NextEndIInv, CloseScanIInv
<1>8. CASE InsertStep \/ PinBelow \/ UpdateStep \/ NextStep
  BY <1>8, InsertStepIInv, PinBelowIInv, UpdateStepIInv, NextStepIInv
<1> QED BY <1>2, <1>3, <1>4, <1>5, <1>6, <1>7, <1>8 DEF Next, CallStep

THEOREM Invariance == Spec => []IInv
<1> QED BY InitIInv, NextIInv, PTL DEF Spec

\* Every table, every scan and every call keep the types of their state.
THEOREM TypeCorrect == Spec => []TypeOK
<1>1. IInv => TypeOK
  BY DEF IInv
<1> QED BY <1>1, Invariance, PTL

\* Whatever the record manager does to its pool, the pins that updatePage and
\* updateRecord leak and the surplus unpins of deleteRecord and next()
\* included, pinPage's search stays right (buffer_mgr.c:132).
THEOREM ShapeCorrect == Spec => []PoolShape
<1>1. IInv => PoolShape
  BY DEF IInv
<1> QED BY <1>1, Invariance, PTL
-----------------------------------------------------------------------------
(* What the calls do to the records: a deleted record stays deleted,        *)
(* insertRecord hands out no slot that is in use, and a record is lost in   *)
(* the two known ways only.  A record shows in the pool when its page is    *)
(* there and in the file when it is not; a pin may change which of the two  *)
(* it is, for the page of any record: the steps are followed record by      *)
(* record.                                                                  *)

\* What the next pin of the record's page shows of it, what the file has of
\* it, and whether its page will be written back when it leaves the pool.
Reads(s, r) == Shown(s, r.page)[r.slot]

Stored(s, r) == s.file.block[r.page][r.slot]

Unsaved(s, q) == \E f \in Holding(N, s, q) : s.frame[f].dirty

\* A record no call touches: it reads the same, and what is stored of it is
\* what it was, or what it reads, or is still to be written.
Stays(s, t, r) ==
  /\ Reads(t, r) = Reads(s, r)
  /\ r.page < s.file.size => r.page < t.file.size
  /\ \/ Unsaved(t, r.page)
     \/ ~Unsaved(s, r.page) /\ Stored(t, r) = Stored(s, r)
     \/ r.page < t.file.size /\ Stored(t, r) = Reads(t, r)

\* Its page leaves the pool unwritten.
Dropped(s, t, r) ==
  /\ Holding(N, s, r.page) # {} /\ ~Unsaved(s, r.page)
  /\ Holding(N, t, r.page) = {}
  /\ r.page < s.file.size => r.page < t.file.size
  /\ Stored(t, r) = Stored(s, r)

\* Its page is neither in the pool nor in the file.
Nowhere(s, r) == Holding(N, s, r.page) = {} /\ s.file.size <= r.page

Moves(s, t, r) == Stays(s, t, r) \/ Dropped(s, t, r) \/ Nowhere(s, r)

\* A slot without a record, and without one in the file that could come back.
Tomb(s, r) ==
  /\ Reads(s, r).mark # "#"
  /\ ~Unsaved(s, r.page) => r.page < s.file.size /\ Stored(s, r).mark # "#"

\* insertRecord looks at the pages of records only.
SearchOK == call.op = "insert" => call.at # 0

\* The inductive invariant.
CInv ==
  Running(pool) =>
    /\ pool.strategy = "LRU"
    /\ Sparse(pool.file)
    /\ \A r \in RID : ledger[r] = "deleted" => Tomb(pool, r)

-----------------------------------------------------------------------------
(* Moves *)

LEMMA RecordPage ==
  ASSUME NEW r \in RID
  PROVE  /\ r.page \in Pages /\ r.page # 0 /\ r.page \in Int
         /\ r.slot \in SlotIds
         /\ r = [page |-> r.page, slot |-> r.slot]
BY LastPageAssumption DEF RID, Pages

\* A page that is in no frame is read from the file.
LEMMA Unheld ==
  ASSUME NEW s, NEW r, Holding(N, s, r.page) = {}
  PROVE  Reads(s, r) = Stored(s, r) /\ ~Unsaved(s, r.page)
BY DEF Reads, Shown, Stored, Unsaved

\* A page is in one frame.
LEMMA Held ==
  ASSUME NEW s \in Pool(N), Shaped(N, {}, s), NEW r \in RID, NEW f \in Holding(N, s, r.page)
  PROVE  /\ Holding(N, s, r.page) = {f} /\ f \in Occupied(N, s)
         /\ Least(Holding(N, s, r.page)) = f
         /\ Reads(s, r) = s.heap[s.frame[f].data][r.slot]
         /\ Unsaved(s, r.page) <=> s.frame[f].dirty
<1>1. r.page \in Pages /\ r.page # NoPage
  BY RecordPage DEF Pages, NoPage
<1>2. \A g \in Holding(N, s, r.page) : g \in Occupied(N, s) /\ s.frame[g].page = r.page
  BY <1>1 DEF Holding, Occupied
<1>3. Holding(N, s, r.page) = {f}
  BY <1>2 DEF Shaped, OneFrameBut
<1>4. Least(Holding(N, s, r.page)) = f
  <2>1. Holding(N, s, r.page) \in SUBSET Nat
    BY DEF Holding, Frames
  <2> QED BY <1>3, <2>1, LeastIsMember
<1> QED BY <1>2, <1>3, <1>4 DEF Reads, Shown, Unsaved

\* Calls that move no page and change nothing of this record.
LEMMA FramesStay ==
  ASSUME NEW s \in Pool(N), Shaped(N, {}, s), NEW t, NEW r \in RID,
         \A f \in Frames(N) : t.frame[f].page = s.frame[f].page,
         \A f \in Holding(N, s, r.page) :
           /\ t.frame[f].data = s.frame[f].data
           /\ s.frame[f].dirty => t.frame[f].dirty
           /\ t.heap[s.frame[f].data][r.slot] = s.heap[s.frame[f].data][r.slot],
         t.file.block[r.page] = s.file.block[r.page],
         r.page < s.file.size => r.page < t.file.size
  PROVE  Stays(s, t, r) /\ Holding(N, t, r.page) = Holding(N, s, r.page)
<1>1. Holding(N, t, r.page) = Holding(N, s, r.page)
  BY DEF Holding
<1>2. CASE Holding(N, s, r.page) = {}
  <2>1. Reads(t, r) = Stored(t, r) /\ Reads(s, r) = Stored(s, r) /\ ~Unsaved(s, r.page)
    BY <1>1, <1>2, Unheld
  <2> QED BY <1>1, <2>1 DEF Stays, Stored
<1>3. ASSUME NEW f \in Holding(N, s, r.page) PROVE Stays(s, t, r)
  <2>1. /\ Least(Holding(N, s, r.page)) = f
        /\ Reads(s, r) = s.heap[s.frame[f].data][r.slot]
        /\ Unsaved(s, r.page) <=> s.frame[f].dirty
    BY <1>3, Held
  <2>2. Reads(t, r) = t.heap[t.frame[f].data][r.slot]
    BY <1>1, <1>3, <2>1 DEF Reads, Shown
  <2>3. s.frame[f].dirty => Unsaved(t, r.page)
    BY <1>1, <1>3 DEF Unsaved
  <2> QED BY <1>3, <2>1, <2>2, <2>3 DEF Stays, Stored
<1> QED BY <1>1, <1>2, <1>3

LEMMA StaysStays ==
  ASSUME NEW s, NEW t, NEW w, NEW r, Stays(s, t, r), Stays(t, w, r)
  PROVE  Stays(s, w, r)
BY DEF Stays

\* A pin, and then calls that keep the page where it is.
LEMMA MovesStays ==
  ASSUME NEW s, NEW t, NEW w, NEW r, Moves(s, t, r), Stays(t, w, r),
         Holding(N, w, r.page) = Holding(N, t, r.page)
  PROVE  Moves(s, w, r)
<1>1. CASE Stays(s, t, r)
  BY <1>1, StaysStays DEF Moves
<1>2. CASE Dropped(s, t, r)
  <2>1. Reads(t, r) = Stored(t, r) /\ Reads(w, r) = Stored(w, r)
    BY <1>2, Unheld DEF Dropped
  <2> QED BY <1>2, <2>1 DEF Moves, Stays, Dropped
<1>3. CASE Nowhere(s, r)
  BY <1>3 DEF Moves
<1> QED BY <1>1, <1>2, <1>3 DEF Moves

\* A tombstone outlives whatever moves its page.
LEMMA TombMoves ==
  ASSUME NEW s \in Pool(N), NEW t, NEW r \in RID, Tomb(s, r), Moves(s, t, r)
  PROVE  Tomb(t, r)
<1>1. CASE Stays(s, t, r)
  BY <1>1 DEF Stays, Tomb
<1>2. CASE Dropped(s, t, r)
  BY <1>2, Unheld DEF Dropped, Tomb
<1>3. CASE Nowhere(s, r)
  <2>1. ~Unsaved(s, r.page)
    BY <1>3, Unheld DEF Nowhere
  <2>2. r.page < s.file.size /\ s.file.size <= r.page
    BY <1>3, <2>1 DEF Tomb, Nowhere
  <2>3. r.page \in Int /\ s.file.size \in Int
    BY RecordPage, PoolMembers, FileMembers, LastPageAssumption
  <2> QED BY <2>2, <2>3
<1> QED BY <1>1, <1>2, <1>3 DEF Moves

\* A record that is there has a page somewhere.
LEMMA Somewhere ==
  ASSUME NEW s \in Pool(N), Sparse(s.file), NEW r \in RID, Reads(s, r).mark = "#"
  PROVE  ~Nowhere(s, r)
<1> SUFFICES ASSUME Nowhere(s, r) PROVE FALSE
  OBVIOUS
<1>1. r.page >= s.file.size
  BY RecordPage, PoolMembers, FileMembers, LastPageAssumption DEF Nowhere
<1>2. Reads(s, r) = Blank[r.slot]
  BY <1>1, Unheld, RecordPage DEF Nowhere, Sparse, Stored
<1> QED BY <1>2, BlankAssumption, RecordPage
-----------------------------------------------------------------------------
(* The calls of the buffer manager, record by record *)

\* A frame touched in another member than its page and its buffer.
LEMMA TouchStays ==
  ASSUME NEW s \in Pool(N), Shaped(N, {}, s), NEW g \in Frames(N), NEW fr \in Frame,
         fr.page = s.frame[g].page, fr.data = s.frame[g].data,
         s.frame[g].dirty => fr.dirty,
         NEW t, t = [s EXCEPT !.frame = [s.frame EXCEPT ![g] = fr]],
         NEW r \in RID
  PROVE  Stays(s, t, r) /\ Holding(N, t, r.page) = Holding(N, s, r.page)
<1>1. t.heap = s.heap /\ t.file = s.file /\ t.frame = [s.frame EXCEPT ![g] = fr]
  BY DEF Pool
<1>2. \A f \in Frames(N) : /\ t.frame[f].page = s.frame[f].page
                           /\ t.frame[f].data = s.frame[f].data
                           /\ s.frame[f].dirty => t.frame[f].dirty
  BY <1>1, PoolMembers
<1>3. \A f \in Holding(N, s, r.page) :
        /\ t.frame[f].data = s.frame[f].data
        /\ s.frame[f].dirty => t.frame[f].dirty
        /\ t.heap[s.frame[f].data][r.slot] = s.heap[s.frame[f].data][r.slot]
  BY <1>1, <1>2 DEF Holding
<1>4. /\ t.file.block[r.page] = s.file.block[r.page]
      /\ r.page < s.file.size => r.page < t.file.size
  BY <1>1
<1> QED BY <1>2, <1>3, <1>4, FramesStay

LEMMA UnpinStays ==
  ASSUME NEW s \in Pool(N), Shaped(N, {}, s), NEW p \in Pages, NEW r \in RID
  PROVE  /\ Stays(s, UnpinPage(N, s, p), r)
         /\ Holding(N, UnpinPage(N, s, p), r.page) = Holding(N, s, r.page)
<1>1. CASE Holding(N, s, p) = {}
  BY <1>1 DEF UnpinPage, Stays, Stored
<1>2. CASE Holding(N, s, p) # {}
  <2> DEFINE g == Least(Holding(N, s, p))
             fr == [s.frame[g] EXCEPT !.clientCount = @ - 1]
  <2>1. g \in Frames(N) /\ s.frame[g] \in Frame
    BY <1>2, LeastHolding, PoolMembers DEF Occupied
  <2>2. UnpinPage(N, s, p) = [s EXCEPT !.frame = [s.frame EXCEPT ![g] = fr]]
    BY <1>2 DEF UnpinPage
  <2> HIDE DEF g
  <2>3. fr \in Frame /\ fr.page = s.frame[g].page /\ fr.data = s.frame[g].data
        /\ fr.dirty = s.frame[g].dirty
    BY <2>1 DEF Frame
  <2> HIDE DEF fr
  <2> QED BY <2>1, <2>2, <2>3, TouchStays
<1> QED BY <1>1, <1>2

LEMMA MarkStays ==
  ASSUME NEW s \in Pool(N), Shaped(N, {}, s), NEW p \in Pages, NEW r \in RID
  PROVE  /\ Stays(s, MarkDirty(N, s, p), r)
         /\ Holding(N, MarkDirty(N, s, p), r.page) = Holding(N, s, r.page)
         /\ r.page = p /\ Holding(N, s, p) # {} => Unsaved(MarkDirty(N, s, p), p)
<1>1. CASE Holding(N, s, p) = {}
  BY <1>1 DEF MarkDirty, Stays, Stored
<1>2. CASE Holding(N, s, p) # {}
  <2> DEFINE g == Least(Holding(N, s, p))
             fr == [s.frame[g] EXCEPT !.dirty = TRUE]
             t == MarkDirty(N, s, p)
  <2>1. g \in Frames(N) /\ s.frame[g] \in Frame /\ s.frame[g].page = p
    BY <1>2, LeastHolding, PoolMembers DEF Occupied
  <2>2. t = [s EXCEPT !.frame = [s.frame EXCEPT ![g] = fr]]
    BY <1>2 DEF MarkDirty
  <2> HIDE DEF g, t
  <2>3. fr \in Frame /\ fr.page = s.frame[g].page /\ fr.data = s.frame[g].data
        /\ fr.dirty
    BY <2>1 DEF Frame
  <2> HIDE DEF fr
  <2>4. Stays(s, t, r) /\ Holding(N, t, r.page) = Holding(N, s, r.page)
    BY <2>1, <2>2, <2>3, TouchStays
  <2>5. t.frame[g] = fr
    BY <2>1, <2>2, PoolMembers DEF Pool
  <2>6. Unsaved(t, p)
    BY <2>1, <2>3, <2>5 DEF Unsaved, Holding
  <2> QED BY <2>4, <2>6 DEF t
<1> QED BY <1>1, <1>2

\* openTable forces page 0, which holds no record.
LEMMA ForceStays ==
  ASSUME NEW s \in Pool(N), Shaped(N, {}, s), NEW r \in RID
  PROVE  Stays(s, ForcePage(N, s, 0), r)
         /\ Holding(N, ForcePage(N, s, 0), r.page) = Holding(N, s, r.page)
<1> DEFINE t == ForcePage(N, s, 0)
           g == Least(Holding(N, s, 0))
<1>1. CASE Holding(N, s, 0) = {}
  BY <1>1 DEF ForcePage, Stays, Stored
<1>2. CASE Holding(N, s, 0) # {}
  <2>1. g \in Occupied(N, s) /\ s.frame[g].page = 0 /\ 0 \in Pages
    BY <1>2, LeastHolding, LastPageAssumption DEF Pages
  <2>2. t = WriteFrame(s, g)
    BY <1>2 DEF ForcePage
  <2> HIDE DEF g, t
  <2>3. WritesBack(N, s, t, {g})
    BY <2>1, <2>2, WriteFrameWritesBack
  <2>4. \A f \in Frames(N) : /\ t.frame[f].page = s.frame[f].page
                             /\ t.frame[f].data = s.frame[f].data
    BY <2>1, <2>2, WriteFrameGood
  <2>5. /\ t.heap = s.heap
        /\ \A f \in Frames(N) \ {g} : t.frame[f].dirty = s.frame[f].dirty
    BY <2>2, PoolMembers DEF WriteFrame, Crashed, Pool
  <2>6. \A f \in Holding(N, s, r.page) : f \in Frames(N) \ {g}
    BY <2>1, RecordPage DEF Holding
  <2>7. t.file.block[r.page] = s.file.block[r.page]
    BY <2>3, <2>6, RecordPage DEF WritesBack
  <2>8. r.page < s.file.size => r.page < t.file.size
    <3>1. t \in Pool(N)
      BY <2>1, <2>2, WriteFrameGood DEF Good
    <3>2. s.file.size \in Int /\ t.file.size \in Int
      BY <3>1, PoolMembers, FileMembers, LastPageAssumption
    <3> QED BY <2>3, <3>2, RecordPage DEF WritesBack
  <2>9. Stays(s, t, r) /\ Holding(N, t, r.page) = Holding(N, s, r.page)
    BY <2>4, <2>5, <2>6, <2>7, <2>8, FramesStay
  <2> QED BY <2>9 DEF t
<1> QED BY <1>1, <1>2

\* A flush writes to a page what the pool shows of it.
LEMMA FlushStays ==
  ASSUME NEW s \in Pool(N), Shaped(N, {}, s), NEW r \in RID
  PROVE  /\ Stays(s, ForceFlushPool(N, s), r)
         /\ Holding(N, ForceFlushPool(N, s), r.page) = Holding(N, s, r.page)
<1> DEFINE t == ForceFlushPool(N, s)
<1>1. PICK W \in SUBSET Frames(N) :
        /\ t.heap = s.heap
        /\ s.file.size <= t.file.size
        /\ \A f \in Frames(N) :
             /\ t.frame[f].page = s.frame[f].page
             /\ t.frame[f].data = s.frame[f].data
             /\ t.frame[f].dirty = (s.frame[f].dirty /\ f \notin W)
        /\ \A f \in W :
             /\ s.frame[f].page < t.file.size
             /\ t.file.block[s.frame[f].page] = s.heap[s.frame[f].data]
        /\ \A p \in Pages : \/ t.file.block[p] = s.file.block[p]
                            \/ \E f \in W : s.frame[f].page = p
  BY FlushEffect
<1>2. t \in Pool(N)
  BY ForceFlushPoolGood DEF Good
<1> HIDE DEF t
<1>3. r.page < s.file.size => r.page < t.file.size
  <2>1. s.file.size \in Int /\ t.file.size \in Int
    BY <1>2, PoolMembers, FileMembers, LastPageAssumption
  <2> QED BY <1>1, <2>1, RecordPage
<1>4. Holding(N, t, r.page) = Holding(N, s, r.page)
  BY <1>1 DEF Holding
<1>5. CASE Holding(N, s, r.page) \cap W = {}
  <2>1. t.file.block[r.page] = s.file.block[r.page]
    BY <1>1, <1>5, RecordPage DEF Holding
  <2>2. \A f \in Holding(N, s, r.page) :
          /\ t.frame[f].data = s.frame[f].data
          /\ s.frame[f].dirty => t.frame[f].dirty
    <3> TAKE f \in Holding(N, s, r.page)
    <3>1. f \in Frames(N) /\ f \notin W
      BY <1>5 DEF Holding
    <3>2. t.frame[f].dirty = (s.frame[f].dirty /\ f \notin W)
      BY <1>1, <3>1
    <3> QED BY <1>1, <3>1, <3>2
  <2>3. Stays(s, t, r)
    BY <1>1, <1>3, <2>1, <2>2, FramesStay
  <2> QED BY <1>4, <2>3 DEF t
<1>6. ASSUME NEW f \in Holding(N, s, r.page) \cap W PROVE Stays(s, t, r)
  <2>1. s.frame[f].page = r.page
    BY <1>6 DEF Holding
  <2>2. /\ Least(Holding(N, s, r.page)) = f
        /\ Reads(s, r) = s.heap[s.frame[f].data][r.slot]
    BY <1>6, Held
  <2>3. Reads(t, r) = Reads(s, r)
    BY <1>1, <1>4, <1>6, <2>2 DEF Reads, Shown
  <2>4. r.page < t.file.size /\ Stored(t, r) = Reads(t, r)
    BY <1>1, <1>6, <2>1, <2>2, <2>3 DEF Stored
  <2> QED BY <2>3, <2>4 DEF Stays
<1> QED BY <1>4, <1>5, <1>6 DEF t

\* The buffer of the frame that holds p.
Sits(s, p, b) == \E f \in Holding(N, s, p) : s.frame[f].data = b

LEMMA CallsSit ==
  ASSUME NEW s \in Pool(N), Shaped(N, {}, s), NEW p \in Pages, NEW b, Sits(s, p, b)
  PROVE  Sits(UnpinPage(N, s, p), p, b) /\ Sits(MarkDirty(N, s, p), p, b)
<1> DEFINE g == Least(Holding(N, s, p))
           fr == [s.frame[g] EXCEPT !.clientCount = @ - 1]
           dr == [s.frame[g] EXCEPT !.dirty = TRUE]
           u == UnpinPage(N, s, p)
           m == MarkDirty(N, s, p)
<1>1. Holding(N, s, p) # {}
  BY DEF Sits
<1>2. g \in Frames(N) /\ s.frame[g] \in Frame
  BY <1>1, LeastHolding, PoolMembers DEF Occupied
<1>3. u.frame = [s.frame EXCEPT ![g] = fr] /\ m.frame = [s.frame EXCEPT ![g] = dr]
  BY <1>1 DEF UnpinPage, MarkDirty, Pool
<1> HIDE DEF g
<1>4. /\ fr.page = s.frame[g].page /\ fr.data = s.frame[g].data
      /\ dr.page = s.frame[g].page /\ dr.data = s.frame[g].data
  BY <1>2 DEF Frame
<1> HIDE DEF fr, dr, u, m
<1>5. \A f \in Frames(N) :
        /\ u.frame[f].page = s.frame[f].page /\ u.frame[f].data = s.frame[f].data
        /\ m.frame[f].page = s.frame[f].page /\ m.frame[f].data = s.frame[f].data
  BY <1>2, <1>3, <1>4, PoolMembers
<1>6. Sits(u, p, b) /\ Sits(m, p, b)
  BY <1>5 DEF Sits, Holding
<1> QED BY <1>6 DEF u, m

\* A slot written into the buffer that shows page p.
LEMMA PutStays ==
  ASSUME NEW s \in Pool(N), Shaped(N, {}, s), NEW p \in Pages, NEW b \in Bufs, Sits(s, p, b),
         NEW i \in SlotIds, NEW cell, NEW r \in RID
  PROVE  LET t == Put(s, b, i, cell) IN
         /\ Holding(N, t, r.page) = Holding(N, s, r.page)
         /\ r # [page |-> p, slot |-> i] => Stays(s, t, r)
         /\ r = [page |-> p, slot |-> i] =>
              /\ Reads(t, r) = cell
              /\ Stored(t, r) = Stored(s, r)
              /\ Unsaved(t, p) <=> Unsaved(s, p)
              /\ t.file.size = s.file.size
<1> DEFINE t == Put(s, b, i, cell)
           page == [s.heap[b] EXCEPT ![i] = cell]
<1>1. PICK f \in Holding(N, s, p) : s.frame[f].data = b
  BY DEF Sits
<1>2. s.heap \in [Bufs -> [SlotIds -> Cell]]
  BY PoolMembers, PageAssumption
<1>3. t.frame = s.frame /\ t.file = s.file /\ t.heap = [s.heap EXCEPT ![b] = page]
  BY DEF Put, Pool
<1>4. page[i] = cell /\ \A j \in SlotIds \ {i} : page[j] = s.heap[b][j]
  BY <1>2
<1>5. t.heap[b] = page /\ \A c \in Bufs \ {b} : t.heap[c] = s.heap[c]
  BY <1>2, <1>3
<1> HIDE DEF t, page
<1>6. Holding(N, t, r.page) = Holding(N, s, r.page)
  BY <1>3 DEF Holding
<1>7. ASSUME r # [page |-> p, slot |-> i] PROVE Stays(s, t, r)
  <2>1. \A g \in Holding(N, s, r.page) :
          t.heap[s.frame[g].data][r.slot] = s.heap[s.frame[g].data][r.slot]
    <3> TAKE g \in Holding(N, s, r.page)
    <3>1. g \in Occupied(N, s) /\ s.frame[g].page = r.page
      BY RecordPage, Held DEF Holding
    <3>2. f \in Occupied(N, s) /\ s.frame[f].page = p
      BY <1>1 DEF Holding, Occupied, Pages, NoPage
    <3>3. s.frame[g].data \in Bufs
      BY <3>1, OccupiedMembers
    <3>4. CASE g = f
      <4>1. r.slot \in SlotIds \ {i}
        BY <1>7, <3>1, <3>2, <3>4, RecordPage
      <4> QED BY <1>1, <1>4, <1>5, <3>4, <4>1
    <3>5. CASE g # f
      <4>1. s.frame[g].data # b
        BY <1>1, <3>1, <3>2, <3>5 DEF Shaped, OneBufferPerFrame
      <4> QED BY <1>5, <3>3, <4>1
    <3> QED BY <3>4, <3>5
  <2> QED BY <1>3, <2>1, FramesStay
<1>8. ASSUME r = [page |-> p, slot |-> i]
      PROVE  /\ Reads(t, r) = cell
             /\ Stored(t, r) = Stored(s, r)
             /\ Unsaved(t, p) <=> Unsaved(s, p)
             /\ t.file.size = s.file.size
  <2>1. r.page = p /\ r.slot = i
    BY <1>8
  <2>2. Least(Holding(N, s, r.page)) = f
    BY <1>1, <2>1, Held
  <2>3. Reads(t, r) = t.heap[b][i]
    BY <1>1, <1>3, <1>6, <2>1, <2>2 DEF Reads, Shown
  <2>4. Unsaved(t, p) <=> Unsaved(s, p)
    BY <1>3 DEF Unsaved, Holding
  <2> QED BY <1>3, <1>4, <1>5, <2>3, <2>4 DEF Stored
<1> QED BY <1>6, <1>7, <1>8 DEF t

\* Dropping what no frame points to.
LEMMA BecomesStays ==
  ASSUME NEW s, Good(N, {}, s), Becomes(s), NEW r \in RID
  PROVE  /\ Stays(s, pool', r) /\ Holding(N, pool', r.page) = Holding(N, s, r.page)
         /\ pool'.status = s.status /\ pool'.strategy = s.strategy
         /\ pool'.file = s.file /\ pool'.frame = s.frame
<1> DEFINE h == [b \in Bufs |-> IF b \in FrameBufs(N, s) THEN s.heap[b] ELSE Blank]
<1>1. s \in Pool(N) /\ Shaped(N, {}, s)
  BY DEF Good
<1>2. /\ pool'.status = s.status /\ pool'.strategy = s.strategy
      /\ pool'.file = s.file /\ pool'.frame = s.frame /\ pool'.heap = h
  BY <1>1 DEF Becomes, Collect, Pool
<1>3. \A f \in Holding(N, s, r.page) : h[s.frame[f].data] = s.heap[s.frame[f].data]
  <2> TAKE f \in Holding(N, s, r.page)
  <2>1. f \in Occupied(N, s) /\ s.frame[f].data \in Bufs
    BY <1>1, Held, OccupiedMembers
  <2>2. s.frame[f].data \in FrameBufs(N, s)
    BY <2>1, NullAssumption DEF FrameBufs, Occupied
  <2> QED BY <2>1, <2>2
<1> HIDE DEF h
<1> QED BY <1>1, <1>2, <1>3, FramesStay

-----------------------------------------------------------------------------
(* Pins, record by record *)

\* What a pin of page p does to a record, once it is known to have found the
\* page or to have read it into a frame.
LEMMA PutInMoves ==
  ASSUME NEW s \in Pool(N), Shaped(N, {}, s), NEW p \in Pages, NEW b \in Bufs,
         \A g \in Frames(N) : s.frame[g].data # b,
         NEW u, NEW t, NEW f \in Frames(N), PutIn(N, s, t, f, p, b, u),
         NEW r \in RID
  PROVE  Moves(s, t, r)
<1>1. /\ t.frame[f].page = p
      /\ \A g \in Frames(N) \ {f} : t.frame[g] = s.frame[g]
  BY DEF PutIn
<1>2. r.page \in Pages /\ r.page # NoPage
  BY RecordPage DEF Pages, NoPage
<1>3. CASE Found(s, t, f, p)
  <2>1. \A g \in Frames(N) : /\ t.frame[g].page = s.frame[g].page
                             /\ t.frame[g].data = s.frame[g].data
                             /\ t.frame[g].dirty = s.frame[g].dirty
    BY <1>1, <1>3 DEF Found
  <2>2. \A g \in Holding(N, s, r.page) : g \in Frames(N)
    BY DEF Holding
  <2>3. t.heap = s.heap /\ t.file = s.file
    BY <1>3 DEF Found
  <2>4. Stays(s, t, r)
    BY <2>1, <2>2, <2>3, FramesStay
  <2> QED BY <2>4 DEF Moves
<1>4. CASE Took(N, s, t, f, p, b, u)
  <2> DEFINE o == s.frame[f].page
  <2>1. s.heap \in [Bufs -> Content] /\ s.file \in FileValue
    BY PoolMembers
  <2>2. s.frame[f].dirty => f \in Occupied(N, s) /\ o \in Pages
    <3>1. s.frame[f].dirty => f \in Occupied(N, s)
      BY DEF Shaped, EmptyIsBlank, EmptyFrame
    <3> QED BY <3>1, OccupiedMembers
  <2>3. s.frame[f].dirty => t.file = WriteAt(s.file, o, s.heap[s.frame[f].data])
    BY <1>4 DEF Took
  <2>4. ~s.frame[f].dirty => t.file = s.file
    BY <1>4 DEF Took
  <2>5. t.file \in FileValue
    BY <2>1, <2>2, <2>3, <2>4, OccupiedMembers, PoolMembers, WriteAtType
  <2>6. /\ s.frame[f].dirty => /\ t.file.block[o] = s.heap[s.frame[f].data]
                               /\ o < t.file.size
        /\ \A q \in Pages : q < s.file.size => q < t.file.size
        /\ \A q \in Pages \ {o} : t.file.block[q] = s.file.block[q]
    <3>1. CASE s.frame[f].dirty
      <4> DEFINE bl == [s.file.block EXCEPT ![o] = s.heap[s.frame[f].data]]
                 n == IF o < s.file.size THEN s.file.size ELSE o + 1
      <4>1. t.file = [s.file EXCEPT !.size = n, !.block = bl]
        BY <2>3, <3>1 DEF WriteAt
      <4>2. o \in Pages
        BY <2>2, <3>1
      <4> HIDE DEF o
      <4>3. /\ bl[o] = s.heap[s.frame[f].data]
            /\ \A q \in Pages \ {o} : bl[q] = s.file.block[q]
        BY <2>1, <4>2, FileMembers
      <4>4. o < n /\ \A q \in Pages : q < s.file.size => q < n
        BY <2>1, <4>2, FileMembers, LastPageAssumption DEF Pages
      <4> HIDE DEF bl, n
      <4>5. t.file.size = n /\ t.file.block = bl
        BY <2>1, <4>1 DEF FileValue
      <4> QED BY <4>3, <4>4, <4>5
    <3>2. CASE ~s.frame[f].dirty
      BY <2>4, <3>2
    <3> QED BY <3>1, <3>2
  <2>7. /\ Holding(N, s, p) = {} /\ t.frame[f].data = b /\ ~t.frame[f].dirty
        /\ t.heap = [s.heap EXCEPT ![b] = IF p < s.file.size THEN s.file.block[p] ELSE u.content]
    BY <1>4 DEF Took
  <2>8. CASE r.page = p
    <3>1. Holding(N, t, p) = {f}
      BY <1>1, <2>7 DEF Holding
    <3>2. Least({f}) = f
      BY FramesAssumption DEF Least, Frames
    <3>3. Reads(t, r) = t.heap[b][r.slot] /\ ~Unsaved(t, p)
      BY <2>7, <2>8, <3>1, <3>2 DEF Reads, Shown, Unsaved
    <3>4. Reads(s, r) = Stored(s, r) /\ ~Unsaved(s, p)
      BY <2>7, <2>8, Unheld
    <3>5. CASE p < s.file.size
      <4>1. t.heap[b] = s.file.block[p]
        BY <2>1, <2>7, <3>5
      <4>2. p # o
        BY <2>7 DEF Holding
      <4>3. t.file.block[p] = s.file.block[p] /\ p < t.file.size
        BY <2>6, <3>5, <4>2
      <4>4. Stays(s, t, r)
        BY <2>8, <3>3, <3>4, <4>1, <4>3 DEF Stays, Stored
      <4> QED BY <4>4 DEF Moves
    <3>6. CASE ~(p < s.file.size)
      <4>1. s.file.size <= p
        BY <2>1, <3>6, FileMembers, LastPageAssumption DEF Pages
      <4> QED BY <2>7, <2>8, <4>1 DEF Moves, Nowhere
    <3> QED BY <3>5, <3>6
  <2>9. CASE r.page # p /\ r.page = o
    <3>1. f \in Holding(N, s, r.page)
      BY <2>9 DEF Holding
    <3>2. Holding(N, t, r.page) = {}
      <4>1. Holding(N, s, r.page) = {f}
        BY <3>1, Held
      <4> QED BY <1>1, <2>9, <4>1 DEF Holding
    <3>3. Reads(t, r) = Stored(t, r)
      BY <3>2, Unheld
    <3>4. /\ Reads(s, r) = s.heap[s.frame[f].data][r.slot]
          /\ Unsaved(s, r.page) <=> s.frame[f].dirty
      BY <3>1, Held
    <3>5. CASE s.frame[f].dirty
      <4>1. Stored(t, r) = Reads(s, r) /\ r.page < t.file.size
        BY <2>6, <2>9, <3>4, <3>5 DEF Stored
      <4> QED BY <3>3, <4>1 DEF Moves, Stays
    <3>6. CASE ~s.frame[f].dirty
      <4>1. Dropped(s, t, r)
        BY <2>4, <3>1, <3>2, <3>4, <3>6 DEF Dropped, Stored
      <4> QED BY <4>1 DEF Moves
    <3> QED BY <3>5, <3>6
  <2>10. CASE r.page # p /\ r.page # o
    <3>1. Holding(N, t, r.page) = Holding(N, s, r.page) /\ f \notin Holding(N, s, r.page)
      BY <1>1, <2>10 DEF Holding
    <3>2. t.file.block[r.page] = s.file.block[r.page]
          /\ (r.page < s.file.size => r.page < t.file.size)
      BY <1>2, <2>6, <2>10
    <3>3. CASE Holding(N, s, r.page) = {}
      <4>1. Reads(t, r) = Stored(t, r) /\ Reads(s, r) = Stored(s, r)
            /\ ~Unsaved(s, r.page)
        BY <3>1, <3>3, Unheld
      <4> QED BY <3>2, <4>1 DEF Moves, Stays, Stored
    <3>4. ASSUME NEW g \in Holding(N, s, r.page) PROVE Moves(s, t, r)
      <4>1. g \in Frames(N) \ {f} /\ t.frame[g] = s.frame[g]
        BY <1>1, <3>1, <3>4 DEF Holding
      <4>2. s.frame[g].data \in Bufs \ {b}
        BY <3>4, <4>1, Held, OccupiedMembers
      <4>3. t.heap[s.frame[g].data] = s.heap[s.frame[g].data]
        BY <2>1, <2>7, <4>2
      <4>4. /\ Least(Holding(N, s, r.page)) = g
            /\ Reads(s, r) = s.heap[s.frame[g].data][r.slot]
            /\ Unsaved(s, r.page) <=> s.frame[g].dirty
        BY <3>4, Held
      <4>5. Reads(t, r) = Reads(s, r)
        BY <3>1, <3>4, <4>1, <4>3, <4>4 DEF Reads, Shown
      <4>6. Unsaved(s, r.page) => Unsaved(t, r.page)
        BY <3>1, <3>4, <4>1, <4>4 DEF Unsaved
      <4>7. Stays(s, t, r)
        BY <3>2, <4>5, <4>6 DEF Stays, Stored
      <4> QED BY <4>7 DEF Moves
    <3> QED BY <3>3, <3>4
  <2> QED BY <2>8, <2>9, <2>10
<1> QED BY <1>3, <1>4 DEF PutIn

\* The pins of the record manager: a pool that goes on has found the page or
\* had a stream to read it, and LRU always has a place.
LEMMA PinnedMoves ==
  ASSUME IInv, CInv, Running(pool), NEW p \in Pages, NEW s \in Pinned(p), Running(s)
  PROVE  /\ Good(N, {}, s) /\ s.strategy = "LRU" /\ Sparse(s.file)
         /\ Data(p) \in Bufs /\ Sits(s, p, Data(p))
         /\ \A r \in RID : Moves(pool, s, r)
<1>1. PICK u \in Junk : s = PinPage(N, pool, p, NewBuf, u)
  BY DEF Pinned
<1>2. u \in Undefined /\ u.luck = "crash"
  BY JunkIsUndefined DEF Junk
<1>3. pool \in Pool(N) /\ Shaped(N, {}, pool)
  BY PoolGood DEF Good
<1>4. NewBuf \in Bufs /\ \A g \in Frames(N) : pool.frame[g].data # NewBuf
  BY <1>3, NewBufIsSpare
<1>5. Good(N, {}, s) /\ Data(p) \in Bufs
  BY <1>3, PoolGood, PinnedGood
<1>6. Kept(pool, s) /\ WritesBack(N, pool, s, Dirty(N, pool))
  BY <1>1, <1>2, <1>3, <1>4, PinPageKeeps, PinPageWritesBack
<1>7. s.strategy = "LRU" /\ Sparse(s.file)
  BY <1>3, <1>5, <1>6, SparseKept DEF CInv, Kept, Good
<1>8. Holding(N, pool, p) # {} \/ (pool.file.exists /\ pool.streams < MaxStreams)
  <2> SUFFICES ASSUME Holding(N, pool, p) = {},
                      ~(pool.file.exists /\ pool.streams < MaxStreams)
               PROVE  FALSE
    OBVIOUS
  <2> DEFINE f == Least(Stops(N, pool, p))
             x == ReadInto(pool, p, NewBuf, u)
  <2>1. ~Running(x)
    BY <1>2, <1>3 DEF ReadInto, Crashed, Running, Pool
  <2>2. ~(Stops(N, pool, p) # {} /\ pool.frame[f].page = p)
    <3>1. Stops(N, pool, p) \in SUBSET Nat
      BY FramesAssumption DEF Stops, Frames
    <3>2. Stops(N, pool, p) # {} => f \in Stops(N, pool, p)
      BY <3>1, LeastIsMember
    <3> HIDE DEF f
    <3> QED BY <3>2 DEF Stops, Holding
  <2>3. s = x
    BY <1>1, <2>1, <2>2 DEF PinPage
  <2> QED BY <2>1, <2>3
<1>9. Holding(N, s, p) # {}
  <2>1. ~NoPlace(N, pool)
    BY DEF NoPlace, CInv
  <2> QED BY <1>1, <1>2, <1>3, <1>4, <1>8, <2>1, PinPlaces
<1>10. PICK f \in Frames(N) : PutIn(N, pool, s, f, p, NewBuf, u)
  BY <1>1, <1>2, <1>3, <1>4, <1>8, <1>9, PinShows
<1>11. \A r \in RID : Moves(pool, s, r)
  BY <1>3, <1>4, <1>10, PutInMoves
<1>12. Sits(s, p, Data(p))
  BY <1>10 DEF PutIn, Sits, Holding, Data
<1> QED BY <1>5, <1>7, <1>11, <1>12

\* What the caller of pinPage finds in the buffer.
LEMMA SitsReads ==
  ASSUME NEW s \in Pool(N), Shaped(N, {}, s), NEW r \in RID, NEW b, Sits(s, r.page, b)
  PROVE  Reads(s, r) = s.heap[b][r.slot] /\ Holding(N, s, r.page) # {}
BY Held DEF Sits

\* A record that is there is what the pin of its page shows.
LEMMA Surfaces ==
  ASSUME NEW s \in Pool(N), Sparse(s.file), NEW t, NEW r \in RID, Moves(s, t, r),
         Holding(N, t, r.page) # {}, Reads(s, r).mark = "#"
  PROVE  Reads(t, r) = Reads(s, r)
BY Somewhere DEF Moves, Dropped, Stays

\* Calls that touch no record.
Rests(s, t) ==
  \A r \in RID : Stays(s, t, r) /\ Holding(N, t, r.page) = Holding(N, s, r.page)

LEMMA CallsRest ==
  ASSUME NEW s, Good(N, {}, s), NEW p \in Pages
  PROVE  /\ Rests(s, UnpinPage(N, s, p)) /\ Rests(s, MarkDirty(N, s, p))
         /\ UnpinPage(N, s, p).file = s.file /\ MarkDirty(N, s, p).file = s.file
         /\ Kept(s, UnpinPage(N, s, p)) /\ Kept(s, MarkDirty(N, s, p))
         /\ UnpinPage(N, s, p).status = s.status /\ MarkDirty(N, s, p).status = s.status
<1>1. s \in Pool(N) /\ Shaped(N, {}, s)
  BY DEF Good
<1> QED BY <1>1, UnpinStays, MarkStays DEF Rests, Kept, UnpinPage, MarkDirty, Pool

LEMMA RestsRests ==
  ASSUME NEW s, NEW t, NEW w, Rests(s, t), Rests(t, w)
  PROVE  Rests(s, w)
BY StaysStays DEF Rests

LEMMA MovesRests ==
  ASSUME NEW s, NEW t, NEW w, \A r \in RID : Moves(s, t, r), Rests(t, w)
  PROVE  \A r \in RID : Moves(s, w, r)
BY MovesStays DEF Rests

LEMMA BecomesRests ==
  ASSUME NEW s, Good(N, {}, s), Becomes(s)
  PROVE  /\ Rests(s, pool') /\ pool'.status = s.status
         /\ pool'.strategy = s.strategy /\ pool'.file = s.file
<1>1. \E r : r \in RID
  <2>1. [page |-> 1, slot |-> 0] \in RID
    BY PagesAssumption, LastPageAssumption, SlotsAssumption DEF RID, SlotIds
  <2> QED BY <2>1
<1> QED BY <1>1, BecomesStays DEF Rests

-----------------------------------------------------------------------------
(* The steps *)

\* What becomes of a record in a step.
Settled(r) ==
  \/ ledger'[r] = "unused"
  \/ ledger'[r] = ledger[r] /\ Moves(pool, pool', r)
  \/ ledger'[r] = "deleted" /\ Tomb(pool', r)
  \/ /\ ledger'[r] \in Vals
     /\ \/ Reads(pool', r) = [mark |-> "#", val |-> ledger'[r]]
        \/ r \in Lost
        \/ call.op = "next" /\ call.rid = r

\* What a step that the process survives has to show.
Sound ==
  Running(pool') =>
    /\ pool'.strategy = "LRU"
    /\ Sparse(pool'.file)
    /\ \A r \in RID : Settled(r)

LEMMA CreateTableSound == IInv /\ CInv /\ CreateTable => Sound
<1> SUFFICES ASSUME IInv, CreateTable, Running(pool')
             PROVE  /\ pool'.strategy = "LRU" /\ Sparse(pool'.file)
                    /\ \A r \in RID : ledger'[r] = "unused"
  BY DEF Sound, Settled
<1> DEFINE s == [InitBufferPool(N, pool, "LRU") EXCEPT !.file = HeaderFile]
<1>1. InitBufferPool(N, pool, "LRU") \in Pool(N)
  BY PoolGood, InitBufferPoolGood DEF Good, Strategies
<1>2. s.strategy = "LRU" /\ s.file = HeaderFile
  BY <1>1, PoolGood DEF InitBufferPool, Pool, Good
<1>3. /\ Crashed(s).strategy = s.strategy /\ Crashed(s).file = s.file
  BY <1>1 DEF Crashed, Pool
<1>4. PICK t \in {s, Crashed(s)} : Becomes(t)
  BY DEF CreateTable
<1> HIDE DEF s
<1>5. pool'.strategy = "LRU" /\ pool'.file = HeaderFile
  BY <1>2, <1>3, <1>4 DEF Becomes, Collect
<1>6. Sparse(HeaderFile)
  BY DEF Sparse, HeaderFile, CreatedFile, Pages
<1> QED BY <1>5, <1>6 DEF CreateTable

LEMMA DeleteTableSound == IInv /\ CInv /\ DeleteTable => Sound
<1> SUFFICES ASSUME IInv, CInv, DeleteTable, Running(pool')
             PROVE  /\ pool'.strategy = "LRU" /\ Sparse(pool'.file)
                    /\ \A r \in RID : ledger'[r] = "unused"
  BY DEF Sound, Settled
<1> DEFINE s == [pool EXCEPT !.file = AbsentFile]
<1>1. pool \in Pool(N) /\ pool.strategy = "LRU"
  BY PoolGood DEF Good, CInv, DeleteTable, Ready
<1>2. s.strategy = "LRU" /\ s.file = AbsentFile /\ Becomes(s)
  BY <1>1 DEF DeleteTable, Pool
<1> HIDE DEF s
<1>3. pool'.strategy = "LRU" /\ pool'.file = AbsentFile
  BY <1>2 DEF Becomes, Collect
<1>4. Sparse(AbsentFile)
  BY DEF Sparse, AbsentFile
<1> QED BY <1>3, <1>4 DEF DeleteTable

LEMMA Restful == \A s : Rests(s, s) /\ \A r \in RID : Moves(s, s, r)
BY DEF Rests, Moves, Stays, Stored

\* Steps that write no record.
LEMMA QuietSound == IInv /\ CInv /\ UNCHANGED <<pool, ledger>> => Sound
<1> SUFFICES ASSUME CInv, UNCHANGED <<pool, ledger>> PROVE Sound
  OBVIOUS
<1>1. \A r \in RID : Moves(pool, pool', r)
  BY Restful
<1> QED BY <1>1 DEF Sound, Settled, CInv, Running

LEMMA RestSound ==
  ASSUME NEW s, \A r \in RID : Moves(pool, s, r), NEW t, Good(N, {}, t), Rests(s, t),
         t.strategy = "LRU", Sparse(t.file), Becomes(t), UNCHANGED ledger
  PROVE  Sound
<1>1. /\ Rests(t, pool') /\ pool'.strategy = "LRU" /\ pool'.file = t.file
  BY BecomesRests
<1>2. Rests(s, pool')
  BY <1>1, RestsRests
<1>3. \A r \in RID : Moves(pool, pool', r)
  BY <1>2, MovesRests
<1> QED BY <1>1, <1>3 DEF Sound, Settled

\* openTable forces the page it pins.
LEMMA HeaderSound == IInv /\ CInv /\ Ready /\ PinHeader /\ UNCHANGED ledger => Sound
<1> SUFFICES ASSUME IInv, CInv, Ready, PinHeader, UNCHANGED ledger, Running(pool')
             PROVE  Sound
  BY DEF Sound
<1>1. PICK s \in Pinned(0) : Becomes(ForcePage(N, s, 0))
  BY DEF PinHeader
<1> DEFINE t == ForcePage(N, s, 0)
<1>2. 0 \in Pages /\ Running(pool)
  BY LastPageAssumption DEF Pages, Ready
<1>3. Good(N, {}, s) /\ s \in Pool(N) /\ Shaped(N, {}, s)
  BY <1>2, PoolGood, PinnedGood DEF Good
<1>4. Good(N, {}, t) /\ Kept(s, t) /\ \E W : WritesBack(N, s, t, W)
  <2>1. Good(N, {}, t)
    BY <1>2, <1>3, ForcePageGood
  <2>2. CASE Holding(N, s, 0) = {}
    BY <1>3, <2>1, <2>2, SameWritesBack DEF ForcePage, Kept
  <2>3. CASE Holding(N, s, 0) # {}
    <3>1. Least(Holding(N, s, 0)) \in Occupied(N, s) /\ Least(Holding(N, s, 0)) \in Frames(N)
      BY <1>2, <1>3, <2>3, LeastHolding DEF Occupied
    <3> QED BY <1>3, <2>1, <2>3, <3>1, WriteFrameWritesBack, WriteFrameKeeps DEF ForcePage
  <2> QED BY <2>1, <2>2, <2>3
<1>5. Becomes(t)
  BY <1>1
<1>6. Rests(s, t)
  BY <1>3, ForceStays DEF Rests
<1> HIDE DEF t
<1>7. Running(s)
  BY <1>4, <1>5, BecomesRests DEF Kept, Running
<1>8. /\ s.strategy = "LRU" /\ Sparse(s.file)
      /\ \A r \in RID : Moves(pool, s, r)
  BY <1>2, <1>7, PinnedMoves
<1>9. t.strategy = "LRU" /\ Sparse(t.file)
  BY <1>3, <1>4, <1>8, SparseKept DEF Kept, Good
<1> QED BY <1>4, <1>5, <1>6, <1>8, <1>9, RestSound

\* closeTable flushes.
LEMMA CloseTableSound == IInv /\ CInv /\ CloseTable => Sound
<1> SUFFICES ASSUME IInv, CInv, CloseTable PROVE Sound
  OBVIOUS
<1> DEFINE t == ForceFlushPool(N, pool)
<1>1. pool \in Pool(N) /\ Shaped(N, {}, pool) /\ Good(N, {}, t) /\ Becomes(t)
      /\ pool.strategy = "LRU" /\ Sparse(pool.file)
  BY PoolGood, ForceFlushPoolGood
  DEF Good, CInv, CloseTable, Ready, ShutdownBufferPool
<1>2. Rests(pool, t)
  BY <1>1, FlushStays DEF Rests
<1>3. t.strategy = "LRU" /\ WritesBack(N, pool, t, Dirty(N, pool))
  BY <1>1, FlushEffect, ForceFlushPoolWritesBack
<1> HIDE DEF t
<1>4. Sparse(t.file)
  BY <1>1, <1>3, SparseKept DEF Good
<1> QED BY <1>1, <1>2, <1>3, <1>4, Restful, RestSound DEF CloseTable

LEMMA GetRecordSound ==
  ASSUME IInv, CInv, NEW rid \in RID, GetRecord(rid)
  PROVE  Sound
<1> SUFFICES ASSUME Running(pool') PROVE Sound
  BY DEF Sound
<1>1. PICK s \in Pinned(rid.page) : Becomes(UnpinPage(N, s, rid.page))
  BY DEF GetRecord
<1> DEFINE t == UnpinPage(N, s, rid.page)
<1>2. Running(pool) /\ UNCHANGED ledger /\ rid.page \in Pages
  BY RIDMembers DEF GetRecord, Ready
<1>3. Good(N, {}, s) /\ Good(N, {}, t)
  BY <1>2, PoolGood, PinnedGood, UnpinPageGood DEF Good
<1>4. Rests(s, t) /\ Kept(s, t) /\ t.status = s.status /\ t.file = s.file /\ Becomes(t)
  BY <1>1, <1>2, <1>3, CallsRest
<1> HIDE DEF t
<1>5. Running(s)
  BY <1>3, <1>4, BecomesRests DEF Running
<1>6. /\ s.strategy = "LRU" /\ Sparse(s.file)
      /\ \A r \in RID : Moves(pool, s, r)
  BY <1>2, <1>5, PinnedMoves
<1> QED BY <1>2, <1>3, <1>4, <1>6, RestSound DEF Kept

LEMMA PinBelowSound == IInv /\ CInv /\ PinBelow => Sound
<1> SUFFICES ASSUME IInv, CInv, PinBelow, Running(pool') PROVE Sound
  BY DEF Sound
<1>1. PICK s \in Pinned(call.at) : Becomes(s)
  BY DEF PinBelow
<1>2. Running(pool) /\ UNCHANGED ledger /\ call.at \in Pages
  BY WalkPages DEF PinBelow
<1>3. Good(N, {}, s)
  BY <1>2, PoolGood, PinnedGood
<1>4. Running(s)
  BY <1>1, <1>3, BecomesRests DEF Running
<1>5. /\ s.strategy = "LRU" /\ Sparse(s.file)
      /\ \A r \in RID : Moves(pool, s, r)
  BY <1>2, <1>4, PinnedMoves
<1> QED BY <1>1, <1>2, <1>3, <1>5, Restful, RestSound

\* The surplus unpins at the end of a scan.
LEMMA NextEndSound == IInv /\ CInv /\ NextEnd => Sound
<1> SUFFICES ASSUME IInv, CInv, NextEnd PROVE Sound
  OBVIOUS
<1> DEFINE p == scan.last
           t == UnpinPage(N, UnpinPage(N, pool, p), p)
<1>1. Good(N, {}, pool) /\ UNCHANGED ledger /\ pool.strategy = "LRU" /\ Sparse(pool.file)
  BY PoolGood DEF NextEnd, Scanning, Ready, CInv
<1>2. CASE p = NoPage
  BY <1>2, QuietSound DEF NextEnd
<1>3. CASE p # NoPage
  <2>1. p \in Pages /\ Becomes(t)
    BY <1>3, Members DEF NextEnd
  <2> DEFINE s == UnpinPage(N, pool, p)
  <2>2. /\ Good(N, {}, s) /\ Rests(pool, s) /\ s.strategy = "LRU" /\ s.file = pool.file
    BY <1>1, <2>1, UnpinPageGood, CallsRest DEF Kept, Good
  <2>3. t = UnpinPage(N, s, p)
    OBVIOUS
  <2> HIDE DEF p, s, t
  <2>4. /\ Good(N, {}, t) /\ Rests(s, t) /\ t.strategy = "LRU" /\ t.file = s.file
    BY <2>1, <2>2, <2>3, UnpinPageGood, CallsRest DEF Kept, Good
  <2>5. Rests(pool, t)
    BY <2>2, <2>4, RestsRests
  <2> QED BY <1>1, <2>1, <2>2, <2>4, <2>5, Restful, RestSound
<1> QED BY <1>2, <1>3

LEMMA UnpinUnsaved ==
  ASSUME NEW s \in Pool(N), Shaped(N, {}, s), NEW p \in Pages, Unsaved(s, p)
  PROVE  Unsaved(UnpinPage(N, s, p), p)
<1> DEFINE g == Least(Holding(N, s, p))
           fr == [s.frame[g] EXCEPT !.clientCount = @ - 1]
           t == UnpinPage(N, s, p)
<1>1. Holding(N, s, p) # {}
  BY DEF Unsaved
<1>2. g \in Frames(N) /\ s.frame[g] \in Frame
  BY <1>1, LeastHolding, PoolMembers DEF Occupied
<1>3. t.frame = [s.frame EXCEPT ![g] = fr]
  BY <1>1 DEF UnpinPage, Pool
<1> HIDE DEF g, t
<1>4. fr.page = s.frame[g].page /\ fr.dirty = s.frame[g].dirty
  BY <1>2 DEF Frame
<1> HIDE DEF fr
<1>5. \A f \in Frames(N) : t.frame[f].page = s.frame[f].page
                        /\ t.frame[f].dirty = s.frame[f].dirty
  BY <1>2, <1>3, <1>4, PoolMembers
<1>6. Unsaved(t, p)
  BY <1>5 DEF Unsaved, Holding
<1> QED BY <1>6 DEF t

\* The steps that pin a page and write into one of its slots.  Every other
\* record only moves.
LEMMA SlotWritten ==
  ASSUME IInv, CInv, Running(pool), NEW r \in RID,
         NEW s \in Pinned(r.page), Running(s),
         NEW t, Good(N, {}, t), Rests(s, t), t.file = s.file, t.strategy = s.strategy,
         NEW b \in Bufs, Sits(t, r.page, b), NEW cell,
         NEW w, w = Put(t, b, r.slot, cell), Good(N, {}, w),
         NEW x, Good(N, {}, x), Rests(w, x), x.file = w.file, x.strategy = w.strategy,
         Becomes(x)
  PROVE  /\ pool'.strategy = "LRU" /\ Sparse(pool'.file)
         /\ \A q \in RID \ {r} : Moves(pool, pool', q)
         /\ Reads(pool', r) = cell
         /\ Reads(pool, r).mark = "#" => t.heap[b][r.slot] = Reads(pool, r)
         /\ Tomb(pool, r) => t.heap[b][r.slot].mark # "#"
         /\ cell.mark # "#" /\ (Tomb(pool, r) \/ Unsaved(t, r.page)) => Tomb(pool', r)
<1>1. /\ pool \in Pool(N) /\ s \in Pool(N) /\ t \in Pool(N) /\ Shaped(N, {}, t) /\ w \in Pool(N)
      /\ x \in Pool(N) /\ r.page \in Pages /\ r.slot \in SlotIds
  BY PoolGood, PinnedGood, RecordPage DEF Good
<1>2. /\ s.strategy = "LRU" /\ Sparse(s.file) /\ Sits(s, r.page, Data(r.page))
      /\ \A q \in RID : Moves(pool, s, q)
  BY <1>1, PinnedMoves
<1>3. /\ w.file = t.file /\ w.strategy = t.strategy
  BY <1>1 DEF Put, Pool
<1>4. /\ Rests(x, pool') /\ pool'.strategy = x.strategy /\ pool'.file = x.file
  BY BecomesRests
<1>5. Rests(w, pool')
  BY <1>4, RestsRests
<1>6. \A q \in RID : /\ Holding(N, w, q.page) = Holding(N, t, q.page)
                     /\ q # r => Stays(t, w, q)
  BY <1>1, PutStays, RecordPage
<1>7. \A q \in RID \ {r} : Moves(pool, pool', q)
  <2> TAKE q \in RID \ {r}
  <2>1. Moves(pool, t, q)
    BY <1>2, MovesRests
  <2>2. Moves(pool, w, q)
    BY <1>6, <2>1, MovesStays
  <2> QED BY <1>5, <2>2, MovesStays DEF Rests
<1>8. /\ Reads(w, r) = cell /\ Stored(w, r) = Stored(t, r)
      /\ Unsaved(w, r.page) <=> Unsaved(t, r.page)
      /\ w.file.size = t.file.size
  BY <1>1, PutStays, RecordPage
<1>9. Reads(pool', r) = cell
  BY <1>5, <1>8 DEF Rests, Stays
<1>10. Reads(t, r) = t.heap[b][r.slot] /\ Reads(t, r) = Reads(s, r)
  BY <1>1, SitsReads DEF Rests, Stays
<1>11. Reads(pool, r).mark = "#" => Reads(s, r) = Reads(pool, r)
  <2>1. Holding(N, s, r.page) # {}
    BY <1>2 DEF Sits
  <2> QED BY <1>1, <1>2, <2>1, Surfaces DEF CInv
<1>12. Tomb(pool, r) => Tomb(t, r)
  <2>1. Moves(s, t, r)
    BY DEF Rests, Moves
  <2> QED BY <1>1, <1>2, <2>1, TombMoves
<1>13. ASSUME cell.mark # "#", Tomb(pool, r) \/ Unsaved(t, r.page)
       PROVE  Tomb(pool', r)
  <2>1. Tomb(w, r)
    BY <1>8, <1>12, <1>13 DEF Tomb
  <2>2. Moves(w, pool', r)
    BY <1>5 DEF Rests, Moves
  <2> QED BY <1>1, <2>1, <2>2, TombMoves
<1> QED BY <1>2, <1>3, <1>4, <1>7, <1>9, <1>10, <1>11, <1>12, <1>13 DEF Tomb

\* The ledger of a call that has reached its record.
LEMMA LedgerOf ==
  ASSUME IInv, NEW r \in RID
  PROVE  /\ ledger[r] \in Vals \cup {"unused", "deleted"}
         /\ r \in Live <=> ledger[r] \in Vals
         /\ r \in Live /\ r \notin Lost => Reads(pool, r) = [mark |-> "#", val |-> ledger[r]]
BY Members DEF Live, Lost, InPlace, Reads

\* insertRecord writes into a slot that holds no record.
LEMMA InsertStepSound ==
  ASSUME IInv, CInv, SearchOK, InsertStep
  PROVE  Sound /\ (Running(pool') => FreshStep)
<1> SUFFICES ASSUME Running(pool') PROVE Sound /\ FreshStep
  BY DEF Sound
<1> DEFINE p == call.at
           b == Data(p)
<1>1. PICK s \in Pinned(p) :
        LET free == Free(s.heap[b], call.first)
            rid  == [page |-> p, slot |-> Least(free)]
        IN  IF free = {}
            THEN /\ Becomes(UnpinPage(N, s, p))
                 /\ call' = [call EXCEPT !.at = @ + 1]
                 /\ UNCHANGED ledger
            ELSE /\ Becomes(Put(s, b, rid.slot, [mark |-> "#", val |-> call.val]))
                 /\ call' = Undone
                 /\ ledger' = [ledger EXCEPT ![rid] = call.val]
  BY DEF InsertStep
<1> DEFINE free == Free(s.heap[b], call.first)
           i == Least(free)
           r == [page |-> p, slot |-> i]
           cell == [mark |-> "#", val |-> call.val]
           w == Put(s, b, i, cell)
<1>2. Running(pool) /\ p \in Pages /\ call.val \in Vals /\ call.first \in Nat
  BY Members DEF InsertStep, Call
<1>3. Good(N, {}, s) /\ b \in Bufs /\ s \in Pool(N) /\ Shaped(N, {}, s)
  BY <1>2, PoolGood, PinnedGood DEF Good
<1>4. CASE free = {}
  <2> DEFINE t == UnpinPage(N, s, p)
  <2>1. Becomes(t) /\ UNCHANGED ledger
    BY <1>1, <1>4
  <2>2. Good(N, {}, t)
    BY <1>2, <1>3, UnpinPageGood
  <2>3. Rests(s, t) /\ Kept(s, t) /\ t.status = s.status /\ t.file = s.file
    BY <1>2, <1>3, CallsRest
  <2> HIDE DEF t
  <2>4. Running(s)
    BY <2>1, <2>2, <2>3, BecomesRests DEF Running
  <2>5. /\ s.strategy = "LRU" /\ Sparse(s.file)
        /\ \A q \in RID : Moves(pool, s, q)
    BY <1>2, <2>4, PinnedMoves
  <2>6. Sound
    BY <2>1, <2>2, <2>3, <2>5, RestSound DEF Kept
  <2> QED BY <2>1, <2>6 DEF FreshStep
<1>5. CASE free # {}
  <2>1. i \in free /\ i \in SlotIds /\ s.heap[b][i].mark # "#"
    <3>1. free \subseteq SlotIds /\ SlotIds \subseteq Nat
      BY <1>2, SlotsAssumption DEF Free, SlotIds
    <3>2. i \in free
      BY <1>5, <3>1, LeastIsMember
    <3> HIDE DEF i
    <3> QED BY <3>1, <3>2 DEF Free
  <2>2. Becomes(w) /\ ledger' = [ledger EXCEPT ![r] = call.val]
    BY <1>1, <1>5
  <2> HIDE DEF i, free
  <2>3. r \in RID /\ r.page = p /\ r.slot = i
    BY <1>2, <2>1, LastPageAssumption DEF RID, Pages, SearchOK, InsertStep
  <2>4. cell \in Cell /\ cell.mark = "#"
    BY <1>2 DEF Cell
  <2> HIDE DEF cell
  <2>5. Good(N, {}, w)
    BY <1>3, <2>1, <2>4, PutGood
  <2>6. w.status = s.status
    BY <1>3 DEF Put, Pool
  <2> HIDE DEF b, w
  <2>7. Running(s)
    BY <2>2, <2>5, <2>6, BecomesRests DEF Running
  <2>8. Sits(s, p, b)
    BY <1>2, <2>7, PinnedMoves DEF b
  <2>9. Rests(s, s) /\ Rests(w, w)
    BY Restful
  <2>10. s \in Pinned(r.page) /\ w = Put(s, b, r.slot, cell)
    BY <2>3 DEF w
  <2> HIDE DEF r, p
  <2>11. /\ pool'.strategy = "LRU" /\ Sparse(pool'.file)
         /\ \A q \in RID \ {r} : Moves(pool, pool', q)
         /\ Reads(pool', r) = cell
         /\ Reads(pool, r).mark = "#" => s.heap[b][r.slot] = Reads(pool, r)
    BY <1>2, <1>3, <2>2, <2>3, <2>5, <2>7, <2>8, <2>9, <2>10, SlotWritten
  <2>12. \A q \in RID : q # r => ledger'[q] = ledger[q]
    BY <2>2, Members
  <2>13. ledger'[r] = call.val
    BY <2>2, <2>3, Members
  <2>14. Settled(r)
    BY <1>2, <2>11, <2>13 DEF Settled, cell
  <2>15. Sound
    BY <2>11, <2>12, <2>14 DEF Sound, Settled
  <2>16. r \notin Live \ Lost
    <3> SUFFICES ASSUME r \in Live \ Lost PROVE FALSE
      OBVIOUS
    <3>1. Reads(pool, r).mark = "#"
      BY <2>3, LedgerOf
    <3> QED BY <2>1, <2>3, <2>11, <3>1
  <2> QED BY <2>12, <2>15, <2>16 DEF FreshStep
<1> QED BY <1>4, <1>5

\* deleteRecord leaves a tombstone on a page that is marked dirty.
LEMMA DeleteRecordSound ==
  ASSUME IInv, CInv, NEW r \in RID, DeleteRecord(r)
  PROVE  Sound
<1> SUFFICES ASSUME Running(pool') PROVE Sound
  BY DEF Sound
<1> DEFINE p == r.page
           b == Data(p)
<1>1. PICK s \in Pinned(p) :
        LET t == UnpinPage(N, UnpinPage(N, MarkDirty(N, s, p), p), p)
        IN  IF r.slot >= SlotLimit
            THEN Becomes(UnpinPage(N, s, p)) /\ UNCHANGED ledger
            ELSE /\ Becomes([t EXCEPT !.heap[b][r.slot].mark = "*"])
                 /\ ledger' = [ledger EXCEPT ![r] = "deleted"]
  BY DEF DeleteRecord
<1>2. Running(pool) /\ p \in Pages /\ r.slot \in SlotIds
  BY RIDMembers DEF DeleteRecord, Ready
<1>3. Good(N, {}, s) /\ b \in Bufs
  BY <1>2, PoolGood, PinnedGood
<1>4. CASE r.slot >= SlotLimit
  <2> DEFINE t == UnpinPage(N, s, p)
  <2>1. Becomes(t) /\ UNCHANGED ledger
    BY <1>1, <1>4
  <2>2. Good(N, {}, t) /\ Rests(s, t) /\ Kept(s, t) /\ t.status = s.status /\ t.file = s.file
    BY <1>2, <1>3, UnpinPageGood, CallsRest DEF Good
  <2> HIDE DEF t
  <2>3. Running(s)
    BY <2>1, <2>2, BecomesRests DEF Running
  <2>4. /\ s.strategy = "LRU" /\ Sparse(s.file)
        /\ \A q \in RID : Moves(pool, s, q)
    BY <1>2, <2>3, PinnedMoves
  <2> QED BY <2>1, <2>2, <2>4, RestSound DEF Kept
<1>5. CASE ~(r.slot >= SlotLimit)
  <2> DEFINE m == MarkDirty(N, s, p)
             v == UnpinPage(N, m, p)
             t == UnpinPage(N, v, p)
             c == t.heap[b][r.slot]
             cell == [c EXCEPT !.mark = "*"]
             w == Put(t, b, r.slot, cell)
  <2>1. Becomes(w) /\ ledger' = [ledger EXCEPT ![r] = "deleted"]
    BY <1>1, <1>5 DEF Put
  <2>2. /\ Good(N, {}, m) /\ Rests(s, m) /\ m.file = s.file
        /\ m.strategy = s.strategy /\ m.status = s.status
    BY <1>2, <1>3, MarkDirtyGood, CallsRest DEF Good, Kept
  <2> HIDE DEF m
  <2>3. /\ Good(N, {}, v) /\ Rests(m, v) /\ v.file = m.file
        /\ v.strategy = m.strategy /\ v.status = m.status
    BY <1>2, <2>2, UnpinPageGood, CallsRest DEF Good, Kept
  <2> HIDE DEF v
  <2>4. /\ Good(N, {}, t) /\ Rests(v, t) /\ t.file = v.file
        /\ t.strategy = v.strategy /\ t.status = v.status
    BY <1>2, <2>3, UnpinPageGood, CallsRest DEF Good, Kept
  <2> HIDE DEF t
  <2>5. c \in Cell
    BY <1>2, <1>3, <2>4, CellMembers
  <2> HIDE DEF c
  <2>6. cell \in Cell /\ cell.mark = "*"
    BY <2>5 DEF Cell
  <2> HIDE DEF cell
  <2>7. Good(N, {}, w) /\ w.status = t.status
    BY <1>2, <1>3, <2>4, <2>6, PutGood DEF Put, Pool, Good
  <2>8. Rests(s, t)
    BY <2>2, <2>3, <2>4, RestsRests
  <2> HIDE DEF w, b
  <2>9. Running(s)
    BY <2>1, <2>2, <2>3, <2>4, <2>7, BecomesRests DEF Running
  <2>10. Sits(s, p, b)
    BY <1>2, <2>9, PinnedMoves DEF b
  <2>11. Sits(m, p, b) /\ Unsaved(m, p)
    <3>1. s \in Pool(N) /\ Shaped(N, {}, s) /\ Holding(N, s, p) # {}
      BY <1>3, <2>10 DEF Good, Sits
    <3> QED BY <1>2, <2>10, <3>1, CallsSit, MarkStays DEF m
  <2>12. Sits(v, p, b) /\ Unsaved(v, p)
    BY <1>2, <2>2, <2>11, CallsSit, UnpinUnsaved DEF v, Good
  <2>13. Sits(t, p, b) /\ Unsaved(t, p)
    BY <1>2, <2>3, <2>12, CallsSit, UnpinUnsaved DEF t, Good
  <2>14. Rests(w, w)
    BY Restful
  <2>15. w = Put(t, b, r.slot, cell)
    BY DEF w
  <2>16. t.file = s.file /\ t.strategy = s.strategy
    BY <2>2, <2>3, <2>4
  <2>17. /\ pool'.strategy = "LRU" /\ Sparse(pool'.file)
         /\ \A q \in RID \ {r} : Moves(pool, pool', q)
         /\ cell.mark # "#" /\ (Tomb(pool, r) \/ Unsaved(t, r.page)) => Tomb(pool', r)
    BY <1>2, <1>3, <2>1, <2>4, <2>7, <2>8, <2>9, <2>13, <2>14, <2>15, <2>16, SlotWritten
  <2>18. /\ \A q \in RID : q # r => ledger'[q] = ledger[q]
         /\ ledger'[r] = "deleted"
    BY <2>1, Members
  <2> QED BY <2>6, <2>13, <2>17, <2>18 DEF Sound, Settled
<1> QED BY <1>4, <1>5

\* updateRecord leaves the mark as it is.
LEMMA UpdateStepSound == IInv /\ CInv /\ UpdateStep => Sound
<1> SUFFICES ASSUME IInv, CInv, UpdateStep, Running(pool') PROVE Sound
  BY DEF Sound
<1> DEFINE r == call.rid
           p == r.page
           b == Data(p)
<1>1. PICK s \in Pinned(p) :
        Becomes(UnpinPage(N, [MarkDirty(N, s, p) EXCEPT !.heap[b][r.slot].val = call.val], p))
  BY DEF UpdateStep
<1>2. /\ Running(pool) /\ r \in RID /\ p \in Pages /\ r.slot \in SlotIds
      /\ call.val \in Vals
      /\ ledger' = IF r \in Live THEN [ledger EXCEPT ![r] = call.val] ELSE ledger
  BY ReachedRID, Members, RIDMembers DEF UpdateStep
<1>3. Good(N, {}, s) /\ b \in Bufs
  BY <1>2, PoolGood, PinnedGood
<1> DEFINE t == MarkDirty(N, s, p)
           c == t.heap[b][r.slot]
           cell == [c EXCEPT !.val = call.val]
           w == Put(t, b, r.slot, cell)
           x == UnpinPage(N, w, p)
<1>4. Becomes(x)
  BY <1>1 DEF Put
<1>5. /\ Good(N, {}, t) /\ Rests(s, t) /\ t.file = s.file
      /\ t.strategy = s.strategy /\ t.status = s.status
  BY <1>2, <1>3, MarkDirtyGood, CallsRest DEF Good, Kept
<1> HIDE DEF r, b, t
<1>6. c \in Cell
  BY <1>2, <1>3, <1>5, CellMembers
<1> HIDE DEF c
<1>7. /\ cell \in Cell /\ cell.mark = c.mark
      /\ c.mark = "#" => cell = [mark |-> "#", val |-> call.val]
  BY <1>2, <1>6 DEF Cell
<1> HIDE DEF cell
<1>8. Good(N, {}, w) /\ w.status = t.status
  BY <1>2, <1>3, <1>5, <1>7, PutGood DEF Put, Pool, Good
<1>9. w = Put(t, b, r.slot, cell)
  OBVIOUS
<1> HIDE DEF w
<1>10. /\ Good(N, {}, x) /\ Rests(w, x) /\ x.file = w.file
       /\ x.strategy = w.strategy /\ x.status = w.status
  BY <1>2, <1>8, UnpinPageGood, CallsRest DEF Good, Kept
<1> HIDE DEF x
<1>11. Running(s)
  BY <1>4, <1>5, <1>8, <1>10, BecomesRests DEF Running
<1>12. Sits(s, p, b)
  BY <1>2, <1>11, PinnedMoves DEF b
<1>13. Sits(t, p, b) /\ Unsaved(t, p)
  <2>1. s \in Pool(N) /\ Shaped(N, {}, s) /\ Holding(N, s, p) # {}
    BY <1>3, <1>12 DEF Good, Sits
  <2> QED BY <1>2, <1>12, <2>1, CallsSit, MarkStays DEF t
<1>14. /\ pool'.strategy = "LRU" /\ Sparse(pool'.file)
       /\ \A q \in RID \ {r} : Moves(pool, pool', q)
       /\ Reads(pool', r) = cell
       /\ Reads(pool, r).mark = "#" => c = Reads(pool, r)
       /\ Tomb(pool, r) => c.mark # "#"
       /\ cell.mark # "#" /\ (Tomb(pool, r) \/ Unsaved(t, r.page)) => Tomb(pool', r)
  BY <1>2, <1>3, <1>4, <1>5, <1>8, <1>9, <1>10, <1>11, <1>13, SlotWritten DEF c
<1>15. \A q \in RID : q # r => ledger'[q] = ledger[q]
  BY <1>2, Members
<1>16. Settled(r)
  <2>1. CASE r \in Live
    <3>1. ledger'[r] = call.val
      BY <1>2, <2>1, Members
    <3>2. r \notin Lost => Reads(pool, r).mark = "#"
      BY <1>2, <2>1, LedgerOf
    <3> QED BY <1>2, <1>7, <1>14, <3>1, <3>2 DEF Settled
  <2>2. CASE r \notin Live
    <3>1. ledger'[r] = ledger[r] /\ ledger[r] \in {"unused", "deleted"}
      BY <1>2, <2>2, LedgerOf
    <3>2. ledger[r] = "deleted" => Tomb(pool, r)
      BY <1>2 DEF CInv
    <3> QED BY <1>7, <1>14, <3>1, <3>2 DEF Settled
  <2> QED BY <2>1, <2>2
<1> QED BY <1>14, <1>15, <1>16 DEF Sound, Settled

\* next() puts a tombstone over the record it is asked for, without marking
\* the page dirty.
LEMMA NextStepSound == IInv /\ CInv /\ NextStep => Sound
<1> SUFFICES ASSUME IInv, CInv, NextStep, Running(pool') PROVE Sound
  BY DEF Sound
<1> DEFINE r == call.rid
           p == r.page
           b == Data(p)
<1>1. PICK s \in Pinned(p) :
        Becomes(Put(UnpinPage(N, UnpinPage(N, UnpinPage(N, s, p), p), p), b, r.slot,
                    [mark |-> "*", val |-> s.heap[b][scan.slot].val]))
  BY DEF NextStep
<1>2. /\ Running(pool) /\ r \in RID /\ p \in Pages /\ r.slot \in SlotIds
      /\ call.op = "next" /\ UNCHANGED ledger /\ scan.slot \in SlotIds
  BY ReachedRID, Members, RIDMembers DEF NextStep
<1>3. Good(N, {}, s) /\ b \in Bufs
  BY <1>2, PoolGood, PinnedGood
<1> DEFINE m == UnpinPage(N, s, p)
           v == UnpinPage(N, m, p)
           t == UnpinPage(N, v, p)
           c == s.heap[b][scan.slot]
           cell == [mark |-> "*", val |-> c.val]
           w == Put(t, b, r.slot, cell)
<1>4. Becomes(w)
  BY <1>1
<1> HIDE DEF r, b
<1>5. /\ Good(N, {}, m) /\ Rests(s, m) /\ m.file = s.file
      /\ m.strategy = s.strategy /\ m.status = s.status
  BY <1>2, <1>3, UnpinPageGood, CallsRest DEF Good, Kept
<1> HIDE DEF m
<1>6. /\ Good(N, {}, v) /\ Rests(m, v) /\ v.file = m.file
      /\ v.strategy = m.strategy /\ v.status = m.status
  BY <1>2, <1>5, UnpinPageGood, CallsRest DEF Good, Kept
<1> HIDE DEF v
<1>7. /\ Good(N, {}, t) /\ Rests(v, t) /\ t.file = v.file
      /\ t.strategy = v.strategy /\ t.status = v.status
  BY <1>2, <1>6, UnpinPageGood, CallsRest DEF Good, Kept
<1> HIDE DEF t
<1>8. c \in Cell
  BY <1>2, <1>3, CellMembers
<1> HIDE DEF c
<1>9. cell \in Cell /\ cell.mark = "*"
  BY <1>8 DEF Cell
<1> HIDE DEF cell
<1>10. Good(N, {}, w) /\ w.status = t.status
  BY <1>2, <1>3, <1>7, <1>9, PutGood DEF Put, Pool, Good
<1>11. Rests(s, t) /\ t.file = s.file /\ t.strategy = s.strategy
  BY <1>5, <1>6, <1>7, RestsRests
<1> HIDE DEF w
<1>12. Running(s)
  BY <1>4, <1>5, <1>6, <1>7, <1>10, BecomesRests DEF Running
<1>13. Sits(s, p, b)
  BY <1>2, <1>12, PinnedMoves DEF b
<1>14. Sits(m, p, b)
  BY <1>2, <1>3, <1>13, CallsSit DEF m, Good
<1>15. Sits(v, p, b)
  BY <1>2, <1>5, <1>14, CallsSit DEF v, Good
<1>16. Sits(t, p, b)
  BY <1>2, <1>6, <1>15, CallsSit DEF t, Good
<1>17. Rests(w, w) /\ w = Put(t, b, r.slot, cell)
  BY Restful DEF w
<1>18. /\ pool'.strategy = "LRU" /\ Sparse(pool'.file)
       /\ \A q \in RID \ {r} : Moves(pool, pool', q)
       /\ cell.mark # "#" /\ (Tomb(pool, r) \/ Unsaved(t, r.page)) => Tomb(pool', r)
  BY <1>2, <1>3, <1>4, <1>7, <1>10, <1>11, <1>12, <1>16, <1>17, SlotWritten
<1>19. Settled(r)
  <2>1. ledger'[r] = ledger[r] /\ ledger[r] \in Vals \cup {"unused", "deleted"}
    BY <1>2, LedgerOf
  <2>2. ledger[r] = "deleted" => Tomb(pool, r)
    BY <1>2 DEF CInv
  <2> QED BY <1>2, <1>9, <1>18, <2>1, <2>2 DEF Settled, r
<1> QED BY <1>2, <1>18, <1>19 DEF Sound, Settled

-----------------------------------------------------------------------------
(* The theorems *)

LEMMA NextRuns == Next => Running(pool)
BY DEF Next, CallStep, CreateTable, OpenTable, CloseTable, DeleteTable,
       InsertRecord, DeleteRecord, GetRecord, NextKnown, UpdateRecord, StartScan,
       NextUnset, NextEnd, CloseScan, InsertStep, PinBelow, UpdateStep, NextStep,
       Scanning, Ready

LEMMA NextSound == IInv /\ CInv /\ SearchOK /\ Next => Sound
<1> SUFFICES ASSUME IInv, CInv, SearchOK, Next PROVE Sound
  OBVIOUS
<1>1. \A rid \in Known : rid \in RID
  BY DEF Known
<1>2. CASE CreateTable \/ CloseTable \/ DeleteTable
  BY <1>2, CreateTableSound, CloseTableSound, DeleteTableSound
<1>3. CASE OpenTable \/ StartScan
  BY <1>3, HeaderSound DEF OpenTable, StartScan
<1>4. CASE \/ \E v \in Vals, first \in Pivots : InsertRecord(v, first)
           \/ \E rid \in Known : NextKnown(rid)
           \/ \E rid \in Known, v \in Vals : UpdateRecord(rid, v)
           \/ CloseScan
  <2>1. UNCHANGED <<pool, ledger>>
    BY <1>4 DEF InsertRecord, NextKnown, UpdateRecord, CloseScan
  <2> QED BY <2>1, QuietSound
<1>5. CASE \E rid \in Known : DeleteRecord(rid) \/ GetRecord(rid)
  BY <1>1, <1>5, DeleteRecordSound, GetRecordSound
<1>6. CASE NextUnset
  <2>1. Good(N, {}, pool) /\ Becomes(Crashed(pool))
    BY <1>6, PoolGood DEF NextUnset
  <2>2. Good(N, {}, Crashed(pool)) /\ Crashed(pool).status = "crashed"
    BY <2>1, CrashedGood DEF Good, Crashed, Pool
  <2>3. ~Running(pool')
    BY <2>1, <2>2, BecomesRests DEF Running
  <2> QED BY <2>3 DEF Sound
<1>7. CASE NextEnd \/ PinBelow
  BY <1>7, NextEndSound, PinBelowSound
<1>8. CASE InsertStep \/ UpdateStep \/ NextStep
  BY <1>8, InsertStepSound, UpdateStepSound, NextStepSound
<1> QED BY <1>2, <1>3, <1>4, <1>5, <1>6, <1>7, <1>8 DEF Next, CallStep

LEMMA SearchStep == IInv /\ SearchOK /\ [Next]_vars => SearchOK'
<1> SUFFICES ASSUME IInv, SearchOK, [Next]_vars, call'.op = "insert"
             PROVE  call'.at # 0
  BY DEF SearchOK
<1>1. CASE UNCHANGED call
  BY <1>1 DEF SearchOK
<1>2. CASE \E v \in Vals, first \in Pivots : InsertRecord(v, first)
  BY <1>2, Members DEF InsertRecord, Undone
<1>3. CASE \E rid \in Known : NextKnown(rid)
  BY <1>3 DEF NextKnown, Begin
<1>4. CASE \E rid \in Known, v \in Vals : UpdateRecord(rid, v)
  BY <1>4 DEF UpdateRecord, Begin
<1>5. CASE call' = Undone
  BY <1>5 DEF Undone
<1>6. CASE (InsertStep \/ PinBelow) /\ call' = [call EXCEPT !.at = call.at + 1]
  BY <1>6, Members, LastPageAssumption DEF Call
<1>7. CASE Next
  <2>1. InsertStep => call' = Undone \/ call' = [call EXCEPT !.at = call.at + 1]
    BY DEF InsertStep
  <2> QED
    BY <1>1, <1>2, <1>3, <1>4, <1>5, <1>6, <1>7, <2>1
    DEF Next, CallStep, CreateTable, OpenTable, CloseTable, DeleteTable,
        DeleteRecord, GetRecord, StartScan, NextUnset, NextEnd, CloseScan,
        PinBelow, UpdateStep, NextStep
<1> QED BY <1>1, <1>7 DEF vars

LEMMA SoundTombs == IInv /\ CInv /\ Running(pool) /\ Sound => CInv'
<1> SUFFICES ASSUME IInv, CInv, Running(pool), Sound, Running(pool'),
                    NEW r \in RID, ledger'[r] = "deleted"
             PROVE  Tomb(pool', r)
  BY DEF Sound, CInv, Tomb, Reads, Shown, Stored, Unsaved, Holding
<1>1. Settled(r)
  BY DEF Sound
<1>2. pool \in Pool(N)
  BY PoolGood DEF Good
<1>3. ledger[r] = "deleted" => Tomb(pool, r)
  BY DEF CInv
<1> QED BY <1>1, <1>2, <1>3, TombMoves, ValsAssumption DEF Settled

LEMMA SoundLoss == IInv /\ CInv /\ Running(pool) /\ Sound => LossStep
<1> SUFFICES ASSUME IInv, CInv, Running(pool), Sound, Running(pool'),
                    NEW r \in RID, r \in Lost', r \notin Lost,
                    ~(call.op = "next" /\ call.rid = r)
             PROVE  /\ Holding(N, pool', r.page) = {}
                    /\ \E f \in Holding(N, pool, r.page) : ~pool.frame[f].dirty
  BY DEF LossStep, Followed, Lost, Live
<1>1. /\ ledger'[r] \in Vals
      /\ Reads(pool', r) # [mark |-> "#", val |-> ledger'[r]]
  BY DEF Lost, Live, InPlace, Reads
<1>2. ledger'[r] = ledger[r] /\ Moves(pool, pool', r)
  BY <1>1, ValsAssumption DEF Sound, Settled
<1>3. Reads(pool, r) = [mark |-> "#", val |-> ledger[r]]
  BY <1>1, <1>2, LedgerOf
<1>4. ~Stays(pool, pool', r)
  BY <1>1, <1>2, <1>3 DEF Stays
<1>5. ~Nowhere(pool, r)
  <2>1. pool \in Pool(N) /\ Sparse(pool.file) /\ Reads(pool, r).mark = "#"
    BY <1>3, PoolGood DEF Good, CInv
  <2> QED BY <2>1, Somewhere
<1>6. Dropped(pool, pool', r)
  BY <1>2, <1>4, <1>5 DEF Moves
<1> QED BY <1>6 DEF Dropped, Unsaved

LEMMA NextFresh == IInv /\ CInv /\ SearchOK /\ Next => FreshStep
<1> SUFFICES ASSUME IInv, CInv, SearchOK, Next, Running(pool'),
                    call.op = "insert"
             PROVE  FreshStep
  BY DEF FreshStep, Followed
<1>1. InsertStep
  BY DEF Next, CallStep, CreateTable, OpenTable, CloseTable, DeleteTable,
         InsertRecord, DeleteRecord, GetRecord, NextKnown, UpdateRecord, StartScan,
         NextUnset, NextEnd, CloseScan, PinBelow, UpdateStep, NextStep,
         Scanning, Ready
<1> QED BY <1>1, InsertStepSound

\* The invariant with what the pool's files and frames have of the records.
RecordsInv == IInv /\ CInv /\ SearchOK

LEMMA InitRecordsInv == Init => RecordsInv
<1> SUFFICES ASSUME Init PROVE RecordsInv
  OBVIOUS
<1>1. pool.strategy = "LRU" /\ Sparse(pool.file)
  BY DEF Init, FreshPool, Sparse, AbsentFile
<1>2. \A r \in RID : ledger[r] # "deleted"
  BY DEF Init
<1> QED BY <1>1, <1>2, InitIInv DEF RecordsInv, CInv, SearchOK, Init, Undone

LEMMA NextRecordsInv == RecordsInv /\ [Next]_vars => RecordsInv'
<1> SUFFICES ASSUME RecordsInv, [Next]_vars PROVE RecordsInv'
  OBVIOUS
<1>1. IInv' /\ SearchOK'
  BY NextIInv, SearchStep DEF RecordsInv
<1>2. CASE Next
  BY <1>1, <1>2, NextRuns, NextSound, SoundTombs DEF RecordsInv
<1>3. CASE UNCHANGED vars
  <2>1. CInv'
    BY <1>3 DEF vars, RecordsInv, CInv, Running, Tomb, Reads, Shown, Stored,
                Unsaved, Holding
  <2> QED BY <1>1, <2>1 DEF RecordsInv
<1> QED BY <1>2, <1>3

THEOREM RecordsInvariance == Spec => []RecordsInv
<1> QED BY InitRecordsInv, NextRecordsInv, PTL DEF Spec

\* A deleted record stays deleted until its slot is used again: no older
\* version of its page comes back from the file (record_mgr.c:316).
THEOREM DeletesLast == Spec => []DeletedStaysDeleted
<1>1. RecordsInv => DeletedStaysDeleted
  BY DEF RecordsInv, CInv, DeletedStaysDeleted, Followed, Tomb, Reads
<1> QED BY <1>1, RecordsInvariance, PTL

\* A record is lost in the two ways only that the source explains: a page that
\* insertRecord did not mark dirty (record_mgr.c:36) leaves the pool, or next()
\* writes over the record (record_mgr.c:477).
THEOREM LossCaused == Spec => LossHasCause
<1>1. RecordsInv /\ Next => LossStep
  BY NextRuns, NextSound, SoundLoss DEF RecordsInv
<1>2. RecordsInv /\ [Next]_vars => [LossStep]_vars
  BY <1>1
<1> QED BY <1>2, RecordsInvariance, PTL DEF Spec, LossHasCause

\* insertRecord's search (record_mgr.c, checkCase) hands out no slot that still
\* holds a record of the caller's.
THEOREM SlotsFresh == Spec => FreshSlot
<1>1. RecordsInv /\ [Next]_vars => [FreshStep]_vars
  BY NextFresh DEF RecordsInv
<1> QED BY <1>1, RecordsInvariance, PTL DEF Spec, FreshSlot
=============================================================================
