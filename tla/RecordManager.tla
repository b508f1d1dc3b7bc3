--------------------------- MODULE RecordManager ----------------------------
(***************************************************************************)
(* The record manager (record_mgr.c) on its own buffer pool: one table,    *)
(* the one manager the code has (the global recordManager), one scan and   *)
(* one caller.  A call that pins page after page takes a step for each;    *)
(* the program is one thread, so nothing but the call's own steps comes    *)
(* between them.                                                           *)
(*                                                                         *)
(* A page is its slots.  Of a record there is the mark in its first byte   *)
(* and, for all the others, one value.  RecordLayout has the bytes.        *)
(***************************************************************************)
EXTENDS BufferManager

CONSTANTS
  N,         \* pageInfo.maxPgFrs, the number of frames
  Vals,        \* what the attributes of a record may hold together
  NoVal,       \* bytes that are no record's: zeros, or never written
  HeaderVal,   \* the bytes of page 0, read as slots
  Slots,       \* PAGE_SIZE / getRecordSize(schema)
  Pivots,      \* what the uninitialised pivot of checkCase may hold
  SlotLimit,   \* getNumSlotsPerPage()
  X,           \* the global x
  JunkPages,   \* what a page-sized buffer fresh from malloc may hold
  MaxPins,     \* BOUND: on pageInfo.lastPg
  MaxOver      \* BOUND: how far below 0 the end of a scan takes a clientCount

SlotIds == 0 .. Slots - 1

\* '#', '*', or any other byte
Cell == [mark : {"#", "*", "0"}, val : Vals \cup {NoVal, HeaderVal}]

ASSUME FramesAssumption == N \in Nat \ {0}
ASSUME SlotsAssumption == Slots \in Nat \ {0} /\ SlotLimit \in Nat
ASSUME ValsAssumption == Vals \cap {"unused", "deleted"} = {}
ASSUME PivotsAssumption == Pivots \subseteq Nat
ASSUME ScanLengthAssumption == X \in Nat \ {0}
ASSUME PageAssumption == Content = [SlotIds -> Cell]
ASSUME BlankAssumption ==
  Blank = [i \in SlotIds |-> [mark |-> "0", val |-> NoVal]]
ASSUME JunkPagesAssumption == JunkPages \subseteq Content
ASSUME MaxPinsAssumption == MaxPins \in Nat /\ MaxOver \in Nat
ASSUME PagesAssumption == LastPage >= 1

\* malloc has room for one more page than the frames hold.
ASSUME SpareAssumption ==
  \A held \in [Frames(N) -> Bufs \cup {Null}] :
    \E b \in Bufs : \A f \in Frames(N) : held[f] # b

VARIABLES
  pool,    \* recordManager->buffMgr, the pool of the table
  table,   \* "none": no manager yet; "closed"; "open"
  mgr,     \* numOfTuples and pageID of the manager
  scan,    \* the scan's own record_mgr
  call,    \* the call under way, the page it pins next, and its pivot
  ledger   \* GHOST: of each record id, the value last stored through it

vars == <<pool, table, mgr, scan, call, ledger>>

RID == [page : 1 .. LastPage, slot : SlotIds]
NoRID == [page |-> NoPage, slot |-> NoPage]        \* createRecord's

Call ==
  [op : {"none", "insert", "update", "next"}, at : 0 .. LastPage + 1,
   rid : RID \cup {NoRID}, val : Vals \cup {NoVal}, first : Nat]

Undone == [op |-> "none", at |-> 0, rid |-> NoRID, val |-> NoVal, first |-> 0]

NoScan == [open |-> FALSE, scanned |-> 0, slot |-> 0, last |-> NoPage]

TypeOK ==
  /\ pool \in Pool(N)
  /\ table \in {"none", "closed", "open"}
  /\ mgr \in [tuples : {0, X}, pageID : 1 .. LastPage]
  /\ scan \in [open : BOOLEAN, scanned : 0 .. X + 1, slot : SlotIds,
               last : Pages \cup {NoPage}]
  /\ call \in Call
  /\ ledger \in [RID -> Vals \cup {"unused", "deleted"}]

HeaderPage == [i \in SlotIds |-> [mark |-> "0", val |-> HeaderVal]]

HeaderFile == [CreatedFile EXCEPT !.block[0] = HeaderPage]

OpenedManager == [tuples |-> 0, pageID |-> 1]

Init ==
  /\ pool = FreshPool(N, AbsentFile, "LRU")
  /\ table = "none"
  /\ mgr = OpenedManager
  /\ scan = NoScan
  /\ call = Undone
  /\ ledger = [rid \in RID |-> "unused"]

-----------------------------------------------------------------------------
(* Pages and slots *)

\* RS_LRU reads neither pageCounter nor lastEntry: they are not kept.
Becomes(s) ==
  pool' = Collect([s EXCEPT !.pageCounter = 0, !.lastEntry = 0], FrameBufs(N, s))

\* What is undefined in a pin.  A process with no stream left is followed to its
\* end only: nothing is claimed of what it would go on to read.
Junk == [lruPage : JunkInts, content : JunkPages, luck : {"crash"}]

Spare == Bufs \ FrameBufs(N, pool)

NewBuf == CHOOSE b \in Spare : TRUE

\* The pool after pinPage(p).
Pinned(p) == {PinPage(N, pool, p, NewBuf, u) : u \in Junk}

\* The buffer that pin leaves in the caller's handle.
Data(p) == PinnedData(N, pool, p, NewBuf)

\* What the next pinPage of p shows, if p was ever written.
Shown(s, p) ==
  IF Holding(N, s, p) # {} THEN s.heap[s.frame[Least(Holding(N, s, p))].data]
  ELSE s.file.block[p]

\* MUTANT of Free: only a tombstone is passed over.
FreeButDeleted(page, first) == {i \in first .. Slots - 1 : page[i].mark # "*"}

\* checkCase.  Its pivot lies where getRecordSize, called just before it from the
\* same frame, has left a local of its own: it is the same in all the rounds of
\* an insertRecord, and may be beyond the page, where nothing is free.
Free(page, first) == {i \in first .. Slots - 1 : page[i].mark # "#"}

Ready == Running(pool) /\ call.op = "none"

\* BOUND: room for one more pin, and for a call that pins every page.
MayPin  == pool.lastPg < MaxPins
MayWalk == pool.lastPg + LastPage < MaxPins

Known == {rid \in RID : ledger[rid] # "unused"}

Live == {rid \in RID : ledger[rid] \in Vals}

-----------------------------------------------------------------------------
(* Tables *)

\* createTable: a new manager with a pool of its own, and a file that holds
\* the header alone.  writeBlock seeks in what fopen returned, unchecked.
\* The caller closes one table before it creates the next.
CreateTable ==
  /\ Ready
  /\ table # "open"
  /\ LET s == [InitBufferPool(N, pool, "LRU") EXCEPT !.file = HeaderFile]
     IN  Becomes(IF pool.streams + 1 < MaxStreams THEN s ELSE Crashed(s))
  /\ table' = "closed"
  /\ ledger' = [rid \in RID |-> "unused"]
  /\ UNCHANGED <<mgr, scan, call>>

\* What openTable does to the pool: page 0 is pinned, read, forced, and stays
\* pinned.
PinHeader == \E s \in Pinned(0) : Becomes(ForcePage(N, s, 0))

\* createTable wrote 0 and 1 as the header's first two ints and nobody writes
\* page 0 again but with what it holds.  openTable ignores the name: it is the
\* last table created that it opens.
OpenTable ==
  /\ Ready /\ MayPin
  /\ table # "none"
  /\ PinHeader
  /\ table' = "open"
  /\ mgr' = OpenedManager
  /\ UNCHANGED <<scan, call, ledger>>

\* closeTable flushes, ignores what shutdownBufferPool returns, and leaves the
\* manager and its pool as they are.
CloseTable ==
  /\ Ready
  /\ table = "open"
  /\ Becomes(ShutdownBufferPool(N, pool))
  /\ table' = "closed"
  /\ UNCHANGED <<mgr, scan, call, ledger>>

DeleteTable ==
  /\ Ready
  /\ table = "closed"
  /\ Becomes([pool EXCEPT !.file = AbsentFile])
  /\ ledger' = [rid \in RID |-> "unused"]
  /\ UNCHANGED <<table, mgr, scan, call>>

-----------------------------------------------------------------------------
(* Records *)

Begin(op, at, rid, val) ==
  call' = [op |-> op, at |-> at, rid |-> rid, val |-> val, first |-> 0]

Put(s, b, i, cell) == [s EXCEPT !.heap[b][i] = cell]

\* insertRecord starts its search at pageID.
InsertRecord(v, first) ==
  /\ Ready /\ MayWalk
  /\ table = "open"
  /\ call' = [Undone EXCEPT !.op = "insert", !.at = mgr.pageID, !.val = v,
                            !.first = first]
  /\ UNCHANGED <<pool, table, mgr, scan, ledger>>

\* MUTANT of InsertStep: a full page is looked at again and again.
InsertStepInPlace ==
  /\ Running(pool)
  /\ call.op = "insert"
  /\ call.at \in Pages
  /\ \E s \in Pinned(call.at) :
       LET b    == Data(call.at)
           free == Free(s.heap[b], call.first)
           rid  == [page |-> call.at, slot |-> Least(free)]
       IN  IF free = {}
           THEN UNCHANGED <<pool, call, ledger>>
           ELSE /\ Becomes(Put(s, b, rid.slot, [mark |-> "#", val |-> call.val]))
                /\ call' = Undone
                /\ ledger' = [ledger EXCEPT ![rid] = call.val]
  /\ UNCHANGED <<table, mgr, scan>>

\* One round of its loop, with updatePage when there is a free slot.  BOUND: a
\* walk that leaves the model's pages is followed no further.
\* updatePage gets pointers to insertRecord's own pointers: its markDirty and
\* unpinPage search memory that is no pool, find nothing, and it returns before
\* it counts the tuple.  The record is in the buffer, the page is not marked
\* dirty, and the pin stays.
InsertStep ==
  /\ Running(pool)
  /\ call.op = "insert"
  /\ call.at \in Pages
  /\ \E s \in Pinned(call.at) :
       LET b    == Data(call.at)
           free == Free(s.heap[b], call.first)
           rid  == [page |-> call.at, slot |-> Least(free)]
       IN  IF free = {}
           THEN /\ Becomes(UnpinPage(N, s, call.at))
                /\ call' = [call EXCEPT !.at = @ + 1]
                /\ UNCHANGED ledger
           ELSE /\ Becomes(Put(s, b, rid.slot, [mark |-> "#", val |-> call.val]))
                /\ call' = Undone
                /\ ledger' = [ledger EXCEPT ![rid] = call.val]
  /\ UNCHANGED <<table, mgr, scan>>

\* MUTANT of DeleteRecord: the page is not marked dirty.
DeleteUnmarked(rid) ==
  /\ Ready /\ MayPin
  /\ table = "open"
  /\ \E s \in Pinned(rid.page) :
       LET p == rid.page
           t == UnpinPage(N, UnpinPage(N, s, p), p)
       IN  IF rid.slot >= SlotLimit
           THEN Becomes(UnpinPage(N, s, p)) /\ UNCHANGED ledger
           ELSE /\ Becomes([t EXCEPT !.heap[Data(p)][rid.slot].mark = "*"])
                /\ ledger' = [ledger EXCEPT ![rid] = "deleted"]
  /\ mgr' = [mgr EXCEPT !.pageID = rid.page]
  /\ UNCHANGED <<table, scan, call>>

\* deleteRecord refuses the slots from getNumSlotsPerPage() on, once it has
\* moved pageID.  Otherwise it unpins what it pinned and one pin more, and
\* writes the mark after that.
DeleteRecord(rid) ==
  /\ Ready /\ MayPin
  /\ table = "open"
  /\ \E s \in Pinned(rid.page) :
       LET p == rid.page
           t == UnpinPage(N, UnpinPage(N, MarkDirty(N, s, p), p), p)
       IN  IF rid.slot >= SlotLimit
           THEN Becomes(UnpinPage(N, s, p)) /\ UNCHANGED ledger
           ELSE /\ Becomes([t EXCEPT !.heap[Data(p)][rid.slot].mark = "*"])
                /\ ledger' = [ledger EXCEPT ![rid] = "deleted"]
  /\ mgr' = [mgr EXCEPT !.pageID = rid.page]
  /\ UNCHANGED <<table, scan, call>>

\* getRecord hands out Shown(pool', rid.page)[rid.slot].val, and looks at no
\* mark: a deleted record's value too.
GetRecord(rid) ==
  /\ Ready /\ MayPin
  /\ table = "open"
  /\ \E s \in Pinned(rid.page) : Becomes(UnpinPage(N, s, rid.page))
  /\ UNCHANGED <<table, mgr, scan, call, ledger>>

\* updateRecord starts with page 0.
UpdateRecord(rid, v) ==
  /\ Ready /\ MayWalk
  /\ table = "open"
  /\ Begin("update", 0, rid, v)
  /\ UNCHANGED <<pool, table, mgr, scan, ledger>>

\* The loop of updateRecord, and of next(), pins every page before the
\* record's, and nobody unpins them.
PinBelow ==
  /\ Running(pool)
  /\ call.op \in {"update", "next"}
  /\ call.at < call.rid.page
  /\ \E s \in Pinned(call.at) : Becomes(s)
  /\ call' = [call EXCEPT !.at = @ + 1]
  /\ UNCHANGED <<table, mgr, scan, ledger>>

\* The record's bytes but the mark are replaced, whatever the mark is.
UpdateStep ==
  /\ Running(pool)
  /\ call.op = "update"
  /\ call.at = call.rid.page
  /\ \E s \in Pinned(call.at) :
       LET t == [MarkDirty(N, s, call.at) EXCEPT
                   !.heap[Data(call.at)][call.rid.slot].val = call.val]
       IN  Becomes(UnpinPage(N, t, call.at))
  /\ call' = Undone
  /\ ledger' = IF call.rid \in Live
               THEN [ledger EXCEPT ![call.rid] = call.val] ELSE ledger
  /\ UNCHANGED <<table, mgr, scan>>

-----------------------------------------------------------------------------
(* Scans *)

\* startScan opens the table once more, whether it is open or not, and says
\* it has X tuples.
StartScan ==
  /\ Ready /\ MayPin
  /\ table # "none"
  /\ PinHeader
  /\ table' = "open"
  /\ mgr' = [OpenedManager EXCEPT !.tuples = X]
  /\ scan' = [NoScan EXCEPT !.open = TRUE]
  /\ UNCHANGED <<call, ledger>>

Scanning == Ready /\ table = "open" /\ scan.open /\ mgr.tuples # 0

\* MUTANT of NextSlot: the slot does not start over on the next page.
NextSlotRunningOn == scan.slot + 1

NextSlot == (scan.slot + 1) % Slots

\* next(sc, record) with the id of a record the caller knows.
NextKnown(rid) ==
  /\ Scanning /\ MayWalk
  /\ scan.scanned <= mgr.tuples
  /\ scan' = [scan EXCEPT !.slot = NextSlot]
  /\ Begin("next", 0, rid, NoVal)
  /\ UNCHANGED <<pool, table, mgr, ledger>>

\* It reads the record's own page, whatever page the scan has come to, and
\* makes record->data point into the buffer: the result, the bytes at the
\* scan's slot under the mark '*', goes over the record itself.  The condition
\* is not evaluated.  One pin, three unpins.
NextStep ==
  /\ Running(pool)
  /\ call.op = "next"
  /\ call.at = call.rid.page
  /\ \E s \in Pinned(call.at) :
       LET p == call.at
           b == Data(p)
           t == UnpinPage(N, UnpinPage(N, UnpinPage(N, s, p), p), p)
       IN  Becomes(Put(t, b, call.rid.slot,
                       [mark |-> "*", val |-> s.heap[b][scan.slot].val]))
  /\ scan' = [scan EXCEPT !.scanned = @ + 1, !.last = call.at]
  /\ call' = Undone
  /\ UNCHANGED <<table, mgr, ledger>>

\* next(sc, record) with a record fresh from createRecord, as the tests call
\* it, pins page -1.  pinPage reads it, since no frame holds such a page, and
\* readBlock ends the process: fseek refuses the offset -4096.
NextUnset ==
  /\ Scanning
  /\ scan.scanned <= mgr.tuples
  /\ Becomes(Crashed(pool))
  /\ UNCHANGED <<table, mgr, scan, call, ledger>>

\* next() at the end of the scan unpins the page it last pinned, twice.
NextEnd ==
  /\ Scanning
  /\ scan.scanned > mgr.tuples
  /\ \A f \in Holding(N, pool, scan.last) : pool.frame[f].clientCount > -MaxOver
  /\ IF scan.last = NoPage THEN UNCHANGED pool
     ELSE Becomes(UnpinPage(N, UnpinPage(N, pool, scan.last), scan.last))
  /\ UNCHANGED <<table, mgr, scan, call, ledger>>

CloseScan ==
  /\ Ready
  /\ scan.open
  /\ scan' = NoScan
  /\ UNCHANGED <<pool, table, mgr, call, ledger>>

-----------------------------------------------------------------------------

\* The rest of a call that has begun.
CallStep == InsertStep \/ PinBelow \/ UpdateStep \/ NextStep

Next ==
  \/ CreateTable \/ OpenTable \/ CloseTable \/ DeleteTable
  \/ \E v \in Vals, first \in Pivots : InsertRecord(v, first)
  \/ \E rid \in Known : DeleteRecord(rid) \/ GetRecord(rid) \/ NextKnown(rid)
  \/ \E rid \in Known, v \in Vals : UpdateRecord(rid, v)
  \/ StartScan \/ NextUnset \/ NextEnd \/ CloseScan
  \/ CallStep

\* A call that has begun is the only thing its process does.
Spec == Init /\ [][Next]_vars /\ WF_vars(CallStep)

-----------------------------------------------------------------------------
(* Properties *)

\* Whatever the record manager does to its pool, the pins that updatePage and
\* updateRecord leak and the surplus unpins of deleteRecord and next() included,
\* it keeps the shape that pinPage's search (buffer_mgr.c:132) relies on.
PoolShape == Shape(N, pool)

\* The record is where its id says, marked, with the value last stored.
InPlace(rid) ==
  Shown(pool, rid.page)[rid.slot] = [mark |-> "#", val |-> ledger[rid]]

\* As long as there was a stream for every page that was read.
Followed ==
  Running(pool) /\ pool.streams < MaxStreams /\ table \in {"closed", "open"}

Lost == {rid \in Live : ~InPlace(rid)}

\* A record disappears in two ways only: its page leaves the pool unwritten,
\* because insertRecord never marks it dirty (record_mgr.c:36), or next() was
\* called with its id and wrote over it (:477).  Not by another insert, a
\* delete, an update, closing and reopening, or the pins these calls leak.
LossStep ==
  Followed' => \A rid \in Lost' \ Lost :
    \/ call.op = "next" /\ call.rid = rid
    \/ /\ Holding(N, pool', rid.page) = {}
       /\ \E f \in Holding(N, pool, rid.page) : ~pool.frame[f].dirty

LossHasCause == [][LossStep]_vars

\* A deleted record stays deleted until its slot is used again: the tombstone,
\* written after the page was unpinned (record_mgr.c:316), is never undone by
\* an older version of the page coming back from the file.
DeletedStaysDeleted ==
  Followed => \A rid \in RID :
    ledger[rid] = "deleted" => Shown(pool, rid.page)[rid.slot].mark # "#"

\* insertRecord hands out no slot that still holds a record of the caller's.
FreshStep ==
  Followed' => \A rid \in RID :
    ledger'[rid] # ledger[rid] /\ call.op = "insert" => rid \notin Live \ Lost

FreshSlot == [][FreshStep]_vars

\* What pinPage(p) may show by the time a walk has come to p: the frame, or
\* else the file, should the frame be replaced until then.
MayShow(p) ==
  {pool.heap[pool.frame[f].data] : f \in Holding(N, pool, p)}
    \cup (IF p < pool.file.size THEN {pool.file.block[p]} ELSE JunkPages)

\* From the page it has come to on, insertRecord has a slot to find.
RoomAhead ==
  \E p \in call.at .. LastPage :
    \A page \in MayShow(p) : Free(page, call.first) # {}

\* The walks over the pages come to an end, or the process does; so does the
\* search for a free slot when there is one ahead of it, at or behind the pivot
\* (record_mgr.c:240).  Without one the search does not end.
CallReturns ==
  call.op # "none" /\ (call.op = "insert" => RoomAhead)
    ~> call.op = "none" \/ ~Running(pool)

\* README.txt:42 says that closeTable writes the table's alterations to the
\* page file.
ClosedIsOnFile ==
  Running(pool) /\ table = "closed" =>
    \A rid \in Live :
      pool.file.block[rid.page][rid.slot] = [mark |-> "#", val |-> ledger[rid]]
=============================================================================
