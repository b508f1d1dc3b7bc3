# A small relational storage engine: models, checks and proofs

The repository is a three-layer storage engine in C: a storage manager that
reads and writes 4096-byte blocks of a page file, a buffer manager that caches
pages in a pool of frames with four replacement strategies, and a record
manager that keeps tables, records and scans on top of the pool. It is a
library of plain functions, called from one thread. What makes it hard is not
preemption but

* *interleaved clients*: a scan, an open table and single-record calls each
  hold pins on the same pool between calls;
* *aliasing*: page handles and records point into the pool's buffers;
* *implicit counters*: replacement works from `pageCounter`, `lastPg`,
  `lastEntry`, `lastPtr`, advanced by some branches of `pinPage` and not others;
* *calls that break the pool's discipline*: the record manager leaks pins, takes
  pins back twice, forgets to mark pages dirty, and writes through pointers it
  has unpinned;
* *ignored failures*: streams are never closed, return codes are not looked at,
  `malloc`ed memory is read before it is set;
* *process death* between a store and its write-back, and in the middle of a
  flush.

## 1. The system

| component | state | operations | talks to | what makes it correct |
|---|---|---|---|---|
| page file | blocks, size | create, destroy, read/write a block | the C library | blocks keep what was written last; the file grows by zeros only |
| storage manager (`storage_mgr.c`) | per handle `totalNumPages`, `curPagePos`, a `FILE*` | open, close, read (first, previous, current, next, last, by number), write (current, by number), append, ensure capacity | opens the file again by name for every read and write | a handle's size is never ahead of the file; the process ends only for a stated reason; a write changes one block |
| buffer manager (`buffer_mgr.c`, `assign_val.c`) | the frame array (page, buffer, dirty bit, fix count, two ages), `pageCounter`, `lastPg`, `lastEntry`, `lastPtr` in one global | init, shutdown, flush, pin, unpin, mark, force | `openPageFile`, `readBlock`, `writeBlock`; clients through data pointers | no page in two frames; pins counted; pinned pages stay; no store lost; durable after shutdown |
| replacement strategies | the same counters | FIFO, LRU, CLOCK, LFU, and the unhandled `RS_LRU_K` | called by `pinPage` when the pool is full | a dirty victim is written first; eviction order; at most one page leaves for the one that comes |
| pool statistics (`buffer_mgr_stat.c`) | none | printing | reads the frames | changes nothing |
| record manager: tables | a global pool, the page-0 header (name, attributes), tuple counter, first free page | create, open, close, delete | the buffer pool | a table closed and opened again is the same table |
| record manager: records | slots in pages | insert, delete, update, get | pin/mark/unpin of the pool | what was inserted is found; pins are returned; changes are marked dirty |
| record manager: scans | position of a scan | start, next, close | pins one page at a time; its records alias the pool | each live record returned once |
| schemas, attributes | schema records | record size, get/set attribute, create schema | the record manager, the serializer | one layout, computed alike everywhere |
| expressions (`expr.c`) | none | evaluation of conditions | scans | evaluates to the Boolean value of the condition |
| serializer (`rm_serializer.c`) | growing string buffers | printing of tables, records, values | tests | a buffer is never overrun |
| error codes, tests | - | - | - | - |

The interfaces are wired by call; there are no messages, threads or locks. Two
pieces of state are shared where a reader would not expect it: `pageInfo`, one
global for all pools of the process, and the heap buffers, which a frame, a
page handle and a record may all point to.

## 2. The modules

| module | models | status |
|---|---|---|
| `PageFile` | the page file as a value, and `WriteAt` | done |
| `StorageManager` (`MCStorageManager`) | handles on one file, every function of `storage_mgr.c` that changes something | done |
| `BufferManager` | every call of `buffer_mgr.c` and `assign_val.c` as an operator over a pool record; no behaviour of its own | done |
| `BufferPool` | a pool and callers without any discipline | done |
| `PoolClient` (`MCPoolClient`) | a pool, clients that pin, store, mark and unpin in order, shutdown and reopening, kill and restart | done |
| `PageStore` | the abstract specification of what such clients are promised; `PoolClient` implements it | done |
| `ReplacementOrder` | `BufferPool` with its calls restricted to visits, a pin and its unpin, and to restarts; the order in which pages leave | done |
| `Expr` (`MCExpr`) | a caller that builds expression trees, evaluates and frees them; a reference meaning | done |
| `BufferManagerProofs` | lemmas on the calls: what each keeps, what a pin shows, what a flush writes | done |
| `BufferPoolProofs` | the theorems on `BufferPool` and `ReplacementOrder` | done |
| `PoolClientProofs` | the theorems on `PoolClient`, among them that it implements `PageStore` | done |
| `StorageManagerProofs` | the theorems on `StorageManager` | done |
| `TwoPoolsProofs` | the theorems on `TwoPools` | done |
| `ExprProofs` | induction in the form the provers take, and the theorems on `Expr` | done |
| `RecordManager` (`MCRecordManager`) | one table, its scan and its records, every call of `record_mgr.c` that touches the pool, over `BufferManager`'s operators | done |
| `RecordLayout` (`MCRecordLayout`) | the bytes of the header and of a record: `createTable`, `openTable`, `getRecordSize`, `setAttr`, `getAttr` and the copies to the page and back | done |
| `RecordManagerProofs` | types and shape of a table, its calls and its pool, and what the calls do to the records | done |
| `RecordLayoutProofs` | sums over a schema, the bytes of the header, and the theorems on `RecordLayout` | done |
| `TwoPools` (`MCTwoPools`) | two pools with frames, buffers and files of their own over the one global `pageInfo` | done |

Composition, by EXTENDS: `PageFile` <- `BufferManager` <- `BufferPool`,
`PoolClient`, `TwoPools`, `RecordManager`; `BufferPool` <- `ReplacementOrder`.
`PoolClient` -> `PageStore` (by INSTANCE, a refinement mapping); `PageFile` <- `StorageManager`. `RecordManager` extends
`BufferManager` and composes its calls as `record_mgr.c` does, so that what it
checks is the record manager on the real pool with its real replacement, not on
an ideal one. `RecordLayout` stands alone: in `RecordManager` a record is a mark
and a value, and `RecordLayout` says when that is a fair picture of its bytes.

### How state corresponds to code

*Pool.* One record. `frame[f]` is `pageInfo.pgFrs[f]` (`NoPage` is an unset
`pgNo`, `clientCount` the fix count), `heap[b]` the bytes behind a `data`
pointer `b`, `file` what is on the disk, `streams` how many FILE objects were
opened and never closed, and the counters have the code's names. A buffer
nothing points to has its bytes forgotten (`Collect`), which the program cannot
observe.

*Calls.* An operator named after a function takes the record before the call
and returns the record after it, with everything the function does; its first
argument `N` is `pageInfo.maxPgFrs`, a constant of the modules with one pool and
what the last `initBufferPool` left in `TwoPools`. `PinPage`
searches, reads, loads or replaces, and a replacement writes the victim back
through `WriteInvoke`. `PinnedData` is the pointer the caller gets. A call is
one step of a behaviour because the program has one thread and no callbacks;
where a call has an observable middle - a flush that dies after some of its
pages - the outcome is in the state it leaves.

*What C leaves undefined* is an argument `u \in Undefined` chosen by `\E` in
the action: the unset `lruPage` of a `malloc`ed frame value, the bytes of a
buffer no read has filled, and what an access beyond the frame array or through
an unset file handle meets (a crash, or memory that looks busy or free).

*Builds.* `PointersFitInt` says whether a pointer survives being stored in the
`int` that `auto` declares in `assign_val.c:57-58`. The runs take the build in
which it does, since in the other no write-back survives; what is proved covers
both.

*Storage manager.* Its offsets are multiples of the page size, so a position is
kept in pages; products of page number and page size wrap as a 32-bit `int`
does in the unoptimised build of the Makefile, scaled by `PageSize` and
`IntSpan`. `rc = "undefined"` is a function that ends without `return`. A
handle is used only after an `openPageFile` has filled it.

*Expressions.* A node is a number in the order of allocation and the tree is in
`node`; numbers are not used again, so a caller that kept a pointer into a freed
tree is not modelled, and does not occur in the guards. A `Value` is its tag and
what its union holds as an `int`: the `short` that is a `bool` overwrites the
lower half of it. A result is looked at before the next call and then dropped,
since nobody writes to it. The macros assign their result variable before they
read their operands, and so does `Build`.

*Record manager.* `pool` is the pool of the one manager (the global
`recordManager`), `mgr` its `numOfTuples` and `pageID`, `scan` the scan's own
manager, `call` the call under way. A call that pins one page is one action; a
call that pins page after page (`insertRecord`, `updateRecord`, `next`) begins
in one action and takes a step for each page, and no other call comes between,
since `Ready` asks for no call under way. That is the interleaving the program
has: the steps are apart so that what each pin evicts is seen, and so that a
call that does not come back is a behaviour and not a missing state. A page is a
function from slots to a mark (`#`, `*` or another byte) and a value, which
stands for all of the record's other bytes.

`updatePage` deserves a word. `insertRecord` calls it with the addresses of its
own local pointers. Its `markDirty` and `unpinPage` take these for a pool and a
handle and search stack memory for a page number; in the unoptimised build of
the Makefile they find none and return an error, and `updatePage` returns before
it counts the tuple. The model takes this outcome: the record is in the buffer,
the page is as dirty as it was, the pin stays. The test for a slot of -1 that
follows insertRecord's loop (lines 252-270) cannot succeed, since the loop ends
only with a slot, and `checkCase` finds the same one again.

`checkCase` begins at the value of an uninitialised local, `first`, any number
of `Pivots`, beyond the page's slots included: there it finds nothing on any
page, and the walk goes on for ever. In the unoptimised build of the Makefile
the local lies where `getRecordSize`, called just before it from the same frame,
has left the record's size, so it is the same in every round of an
`insertRecord` (and for records of 64 bytes or more it is beyond the page). A
negative one, which would read in front of the page, is left out. A walk that
leaves the model's pages stays where it is (`InsertStep`). `next` with a record fresh from
`createRecord`, as the tests call it, pins page -1, and `readBlock` ends the
process (`NextUnset`).

*Two pools.* `pools[i]` has what `BM_BufferPool` points to, `pageInfo` is the
global. `View(i)` puts the two together the way a call on pool `i` finds them,
with as many of its frames as `pageInfo.maxPgFrs` lets it see, and runs the
operators of `BufferManager` on that, with this number for `N`;
`Leaves` puts the result back (`Left`: the frames a call did not look at are as
they were). A loop that runs past the array of a pool with
fewer frames reads memory that is nobody's: there the process is followed no
further (`alive = "astray"`), and `StrayHasCause` says what led to it.

*Layout.* A byte of a record is "byte `at` of value `val` of attribute `attr`",
or raw, so that a read that starts one byte off, or meets a part of another
attribute, is told from a right one without any encoding of integers and
floats. The header's bytes are numbers, because `openTable` reads the end of a
name as an integer. `bool` is a `short` of two bytes (`dt.h`).

*Ghosts.* `latest` (what was last stored in a page), `stray` (`pinPage` has
returned RC_OK for a page it put in no frame, or did not read), `intact`
(handles whose file was not replaced), `now`, `loadedAt` and `usedAt` (the
visits made, and of each page the one that loaded it and its last), `hidden` (the
pages another pool's opening ever put out of sight), `used` in `Expr` (the
expression a result came from), `ledger` (of each record
id, what was last stored through it, or that it was deleted), `made`, `last`,
`kept` and `cut` in `RecordLayout` are read by no guard and change nothing the
code has. Two exceptions: `ledger` also says which record ids a caller knows,
and it asks for no others; and `MaxVisits` bounds `now`.

*Seeded faults.* An operator commented MUTANT is a plausible mistake in the
definition that follows it: it is used by no specification, and each property
below was seen to fail when one of them takes the definition's place.

## 3. What is checked

| run | instance | what it shows |
|---|---|---|
| `buffer_pool` | 2 frames, 3 pages, 5 streams, one handle, every strategy | `PoolShape`: occupied frames are a prefix, no page and no buffer twice. `EvictionWritesBack`: a dirty page is on the file before another page takes its frame. `FileFollowsFrames`: a block changes only to what its frame holds, and the file never shrinks. The caller here may unpin twice, store unpinned, start the pool again. |
| `client_fifo` | two clients, FIFO, 2 frames, 3 pages, 3 pins, 5 streams | `PinnedStays`, `PinsAccounted`, `CleanIsOnFile`, `NoLostStore`, `ShutdownIsDurable` and the refinement `IsPageStore` under every interleaving of pins, stores, marks, unpins, forces, flushes, shutdowns, kills and restarts; `StrayHasCause`: when `pinPage` may report success for a page it lost. |
| `client_single` | one client, LRU, CLOCK, LFU and LRU_K, 3 pins (5 under CLOCK, 2 under LRU_K, whose full pool refuses every page), 5 streams | `NoLostStore`, `StrayHasCause` and `IsPageStore` for strategies that evict pinned pages, for as long as nobody else holds one, and with a CLOCK hand that leaves the array. `IsPageStore`: the pool implements `PageStore`, so that its frames, buffers, dirty bits and evictions cannot be seen by its clients. |
| `two_pools` | two pools, opened with 1 or 2 frames, 3 pages, 3 buffers, 4 streams, the same numbers of pins; pool 1 under every strategy, pool 2 under LFU and read only (its loads, hits and replacements move every counter) | `NoLostStore`: nothing stored to either pool is lost although both advance one set of counters and each opening resets them, unless its frame was beyond the number the other pool was opened with. `StrayHasCause`: when a call runs past a pool's array or reports a page it lost, among these because the other pool has more frames or moved the CLOCK hand. |
| `order` | 3 frames, 4 pages, 8 visits, every strategy, restarts between the visits | `FIFOEvictsOldest`: FIFO evicts in the order of the loads, although its position is a counter that the load of frame 0 does not advance. `VisitReplacesOne`: a visit drops one page at most, for the one it brings in, and says when that page is then in no frame: with three frames the CLOCK hand has left the array at the eighth visit. |
| `order_lru` (violated) | the same, 8 visits, LRU | README.txt:20, see section 4 |
| `storage` | two handles on one file, 2 streams, pages 0 to 3, an `int` of 16 values | `TotalNeverAhead`: a handle never believes in more pages than there are, unless the file was replaced. `DeathHasCause`: each way for the process to end. `OneBlockPerWrite`: a write, wherever its overflowing offset leads, changes one block. |
| `expr` | all expressions of up to 3 nodes in 3 variables, 5 leaves, 5 operators, and of 4 nodes with the operators AND and < | `ResultIsMeaning`: what `evalExpr` returns reads as the expression's meaning. `ExitHasCause`, `CrashHasCause`: why a process ends. `ConstantsOwned`: a tree can be evaluated again. `FreesWholeTree`: nothing of a freed tree stays. `TestSeesTrue`: why the test does not see the missing tag. |
| `expr_test` (violated) | as `expr` | test_expr.c:122, see section 4 |
| `records` | a table of 2 pages of 2 slots and its header, 2 frames, 3 buffers, 8 streams, 2 values | `LossHasCause`: a record disappears only because its page left the pool unwritten after an insert, or because `next` was called with its id; not by another insert, a delete, an update, closing and reopening, or the pins these calls leak. `DeletedStaysDeleted`: no older version of a page undoes a tombstone. `FreshSlot`: no insert takes the slot of a record that is still there. `PoolShape`: leaked and surplus unpins do not break what `pinPage` relies on. `CallReturns`: a call that has begun ends, an insert as long as there is a slot ahead of it (liveness). |
| `records_close` (violated) | the same, one value | README.txt:42, see section 4 |
| `layout` | 113 schemas of up to 3 attributes of every type, names of 1, 11 and 12 bytes, 2 values | `GarbledHasCause`: what was stored in an attribute last is what is read, over every order of calls and the trip to the page and back, with five exceptions that are each needed. `OverrunHasCause`: which schemas make a call write behind a record. `CrashHasCause`: when an open table's sizes cannot be computed. |

The modules with a state of their own have one type invariant each, `TypeOK`
(`ReplacementOrder` shares the pool record that `BufferPool` checks).

### Bounds

* Pools have two frames (three in `order`), files three pages (four): a page
  can be in the pool, evicted, and never loaded, replacement has a choice and a
  wrap-around, and a file grows by one page or by two with a hole between.
* `Bufs` has as many buffers as frames and handles can point to, plus one for
  the next `malloc`, so no pin is refused for lack of one in the runs.
* `MaxStreams` is small enough to run out of streams, and large enough for
  loads, evictions and write-backs to happen before.
* `MaxPins` (pins of one process), `MaxVisits` and `MaxFix` bound counters the
  code lets grow. Three pins fill a two-frame pool and evict. Under CLOCK the
  hand has to step over the end of the array before a miss: with two frames that
  takes two loads, of which `lastPg` counts the second only, and three hits
  (`lastEntry` 3, `lastPg` 4), so `MaxPins`, which is a number for each strategy,
  is 5 there; with three frames (`order`) it takes three loads, four hits or
  replacements, each of which advances it by one, and the miss, which is the
  eighth visit, and eight are allowed. What an
  unbounded number of them would do is a theorem where one is stated.
* Two contents, blank and written; two clients, or one where a strategy is
  unsafe for two. Clients, handles and streams that are interchangeable are
  declared symmetric in runs that check no ordering between them.
* In `records`, `Slots` and `X` are 2 and 1 for the code's `PAGE_SIZE` / record
  size and 15, and `SlotLimit` is 1 for `getNumSlotsPerPage`'s 100: below the
  number of slots, so that `deleteRecord`'s refusal happens. `MaxPins` (7)
  bounds `lastPg`, and with it how many pins leak: it is enough to fill the pool
  several times over. `MaxOver` bounds how far below 0 the end of a scan takes a
  fix count. `Pivots` are each slot and one number beyond them, so that tables
  with room for an insert, and without, both occur; an insert that passes the
  last page of the model is followed no further.
  `JunkPages` are what is left in a fresh buffer: zeros, or a page with a marked
  slot, which makes `insertRecord` pass over a slot that is in no file.
* In `storage`, `IntSpan` is twice the greatest file, so that every page number
  has an offset and `writeCurrentBlock`'s product of products overflows.

* In `expr` three nodes are enough for every operator over every pair of
  leaves, for NOT over AND and the other way round, for one node used twice and
  for a node below itself; the fourth node is what an AND compared
  with an int, or a comparison inside an AND with another leaf, needs
  (`MaxWide`, `DeepOps`). The constants are those of test_expr.c, one of each kind that matters, and the
  int of the record's attribute 0 is greater than the constant.

`CHECK_DEADLOCK FALSE` stands in the configurations whose process may end
(`crashed`, `exited`) or whose counter reaches its bound. `PoolClient` restarts
after a kill and so never stops.

### Fairness and liveness

`RecordManager` assumes weak fairness of the steps of a call that has begun
(`WF_vars(CallStep)`): the program is one thread that waits for nobody, so while
a call is under way its next step is the only thing that can happen, and the
processor takes it. Nothing is assumed of callers: that a call begins is never
fair. What is checked under it is `CallReturns`. `insertRecord` has a loop
without a bound, over pages whose marks it reads from buffers that were perhaps
never filled; it does not end when the pivot lies beyond the page or no page has
a free slot behind it, so what is claimed of it has the condition `RoomAhead`:
some page ahead shows a free slot, whatever the pins until then do to the pool
(`MayShow`). Both cases are in the run, whose pivots and deletions make room and
whose inserts use it up. The walks of `updateRecord` and `next` pin pages in a
pool that their own pins have filled; each ends, unless the process does.

The other modules assume no fairness and state no liveness: their calls are
single steps of clients that may stop calling.

## 4. Where the code and its documents differ

* `order_lru`: README.txt:20 promises least-recently-used replacement. A hit
  stores the constant 1 as the age, and a page loaded into a full pool keeps an
  unset age, so a page can be evicted that was used after another. In the run an
  unset age is a great one, and it takes six visits: a page is loaded and hit
  among loads that fill the pool, and evicted though another was used longer
  ago. With an unset age of 0 the fifth visit would already do it, without a hit.
* `expr_test`: test_expr.c:122 says the result of "(Const 10 < Const 20) AND
  true" equals `bt`. `boolAnd` and `boolOr` do not set the tag of their result,
  `valueEquals` refuses to compare an int with a bool, and the test passes only
  because it reads the -1 its own result was made with (`TestSeesTrue`). An AND
  inside another operator ends the process.
* `records_close`: README.txt:42 says that `closeTable` "ensures that any table
  alterations are written to the page file". The page of an inserted record is
  not dirty, and it is pinned; `closeTable`'s flush writes dirty pages that
  nobody has pinned. One insert into a new table is lost by closing it and
  ending the process. (Opened again in the same process the record is still
  there, in the pool that was not emptied.)

Behaviour that no document contradicts, or that contradicts one plainly in a
line, is simply modelled: `appendEmptyBlock` writes nothing, `getNumTuples` (README.txt:49)
counts no inserted record and is 15 once a scan has started, `next` evaluates no
condition, returns the record of the id it is given and exits for one without
an id (as test_assign3_1.c:233 has it), `readCurrentBlock`
reads the page after the one last read, LRU, CLOCK and LFU evict pinned pages
(which is why their runs have one client), `pinPage` reports success for pages
it lost (the property `StrayHasCause` says when), a killed process leaves a
file with pages of different ages.

## 5. What is proved

The proofs hold for every value of the constants that satisfies the named
`ASSUME`s: any number of frames above 0, pages, buffers, contents, slots,
handles, streams and clients, any page size, both builds (`PointersFitInt`), any
set of junk values. `MaxPins`, `MaxFix`, `MaxOver` and `MaxVisits` may be any
number: no theorem depends on them.

| theorem | says |
|---|---|
| `BufferPoolProofs!TypeCorrect` | `Spec => []TypeOK`, for callers of any kind |
| `BufferPoolProofs!ShapeCorrect` | `Spec => []PoolShape` |
| `BufferPoolProofs!EvictionSafe` | `Spec => EvictionWritesBack` |
| `BufferPoolProofs!FileSafe` | `Spec => FileFollowsFrames` |
| `BufferPoolProofs!FIFOInOrder` | `OrderSpec => FIFOEvictsOldest` |
| `BufferPoolProofs!OneForOne` | `OrderSpec => VisitReplacesOne` |
| `TwoPoolsProofs!NothingLost` | `Spec => []NoLostStore`, for any number of pools of any sizes under any strategies |
| `TwoPoolsProofs!StrayCaused` | `Spec => StrayHasCause` |
| `PoolClientProofs!TypeCorrect` | `Spec => []TypeOK` |
| `PoolClientProofs!PinsHold` | `Spec => []PinnedStays` |
| `PoolClientProofs!PinsCorrect` | `Spec => []PinsAccounted` |
| `PoolClientProofs!CleanIsSafe` | `Spec => []CleanIsOnFile` |
| `PoolClientProofs!NothingLost` | `Spec => []NoLostStore` |
| `PoolClientProofs!ShutdownSaves` | `Spec => []ShutdownIsDurable` |
| `PoolClientProofs!StrayCaused` | `Spec => StrayHasCause` |
| `PoolClientProofs!Refines` | `Spec => IsPageStore`: the pool implements the abstract page store |
| `StorageManagerProofs!TypeCorrect` | `Spec => []TypeOK` |
| `StorageManagerProofs!NeverAhead` | `Spec => []TotalNeverAhead` |
| `StorageManagerProofs!DeathCaused` | `Spec => DeathHasCause` |
| `StorageManagerProofs!OneBlock` | `Spec => OneBlockPerWrite` |
| `RecordManagerProofs!TypeCorrect` | `Spec => []TypeOK` |
| `RecordManagerProofs!ShapeCorrect` | `Spec => []PoolShape`: the record manager breaks the clients' discipline of pins, and not the pool |
| `RecordManagerProofs!DeletesLast` | `Spec => []DeletedStaysDeleted` |
| `RecordManagerProofs!LossCaused` | `Spec => LossHasCause` |
| `RecordManagerProofs!SlotsFresh` | `Spec => FreshSlot` |
| `ExprProofs!TypeCorrect` | `Spec => []TypeOK` |
| `ExprProofs!MeansIt` | `Spec => []ResultIsMeaning`: `evalExpr` against the meaning, for trees of any size |
| `ExprProofs!ExitCaused` | `Spec => []ExitHasCause` |
| `ExprProofs!CrashCaused` | `Spec => []CrashHasCause` |
| `ExprProofs!Owned` | `Spec => []ConstantsOwned` |
| `ExprProofs!TestSees` | `Spec => []TestSeesTrue` |
| `ExprProofs!FreesAll` | `Spec => FreesWholeTree` |
| `RecordLayoutProofs!TypeCorrect` | `Spec => []TypeOK` |
| `RecordLayoutProofs!GarblingCaused` | `Spec => []GarbledHasCause`, for schemas of any number of attributes that page 0 has room for |
| `RecordLayoutProofs!OverrunCaused` | `Spec => []OverrunHasCause` |
| `RecordLayoutProofs!CrashCaused` | `Spec => []CrashHasCause` |

*The calls.* `BufferManagerProofs` has one lemma per operator of
`BufferManager`: a call keeps the record's type and shape (`Good`), and a
replacement keeps every frame but the one it takes and every pinned frame under
FIFO, leaves the victim on the file, shows the page that was pinned, and so on.
The modules above it cite these and hardly expand a call again.

*The shape.* `TypeOK /\ PoolShape` is inductive. Neither half is alone: that
`pinPage` stops its search at the first empty frame is right only for a prefix
of occupied frames, and the counters index the array only for values of the
type.

*Evictions.* `EvictionWritesBack` and `FileFollowsFrames` are one relation
between the pool before and after a call (`WritesBack`), proved call by call
from `IInv`. In the build where a pointer does not fit an `int` the write-back
ends the process, so nothing is dropped there either.

*The order of replacement.* Every step of `ReplacementOrder` is one of
`BufferPool` (`OrderImplements`), so the shape comes from there. `OrderInv` adds
what FIFO's order rests on. `Filling`: `pageCounter` is one less than the number
of frames filled, as the load of frame 0 does not advance it; when the pool is
full its successor is the frame whose `Turn` it is. `OnePinned`: between visits
nothing is pinned, so the search takes that frame and no later one. `InOrder`:
from the `Turn` on and round the array (`Before`), the pages stand in the order
of their loads, and all were loaded in earlier visits (`Past`). A load puts the
newest page where the order ends and moves the turn by one, modulo N
(`ModNext`). `VisitReplacesOne` follows for every strategy from what a pin does
to the frames (`PinMoves`: one frame, or none because there is `NoPlace`) and
the shape; for FIFO there is always a place.

*Pools that share `pageInfo`.* `TwoPoolsProofs` cites the same lemmas on the
calls as the modules with one pool, with the number of frames the call looks at
for `N`. Once a pool has lost sight of frames, a page in them may be loaded
again, and when the frames come back into sight it is in two: `Shaped` therefore
has a set `H` of pages of which two frames are allowed, which is empty for every
other module and `hidden` here. The counters are any numbers, since the other
pool may have moved them anywhere; no lemma on what a replacement keeps asks
where it found the frame. `Sound` says of each pool what the clients' invariant
says of theirs, of the pages that are not in `hidden`: a frame counts its holder
(`Counted`), shows the last store (`Current`), and what is not dirty is on the
file (`Settled`); `Beheld` says that the calls see every frame with such a page.
An opening keeps it by moving to `hidden` whatever its number of frames leaves
out of sight in the others, a return to more frames because what it brings back
is in `hidden` for good. `StrayHasCause` needs `Counted`: under FIFO a frame
that is not free has a holder, and the one caller holds nothing while it pins.
The assumptions are the types of the constants (`SizesAssumption`,
`CallersAssumption`) and that `Unwritten` is no content.

*The clients.* `NoLostStore` and `PinnedStays` are not inductive. An eviction
loses nothing because what is clean is on the file; a page is clean on the file
because its stores are marked before the last unpin; the mark reaches the right
frame because the pins of others keep it there; and the pins keep it because
`clientCount` is the number of holders. `IInv` says these four together
(`Coherent`: `Pinned`, `Counted`, `Current`, `Settled`), adds `Good` from below,
and says of a dead process that its file is what the next one starts from. Each
action has a lemma that it keeps `IInv`. `StrayHasCause` needs the same
invariant: a pin that found no frame met a pool whose frames are all refused
(`NoPlace`), which under FIFO means that all are pinned, and a pinned frame has
a holder.

*The refinement.* A step of `PoolClient` is a step of `PageStore` of the same
name; what it does to frames, buffers, dirty bits and the file is hidden by the
mapping (`Mode`, `Disk`, `Db`, `Fixed`, `Sight`). `IInv` is not enough for it:
`RInv` adds that the file's blocks behind its end are blank (`Sparse`), so that
the hole a write leaves reads as `PageStore` says; that a page that is dirty, or
about to be marked, has been stored to, so that a write-back changes no page
nobody wrote; and that a pool closed in order has left every last store on the
file. There is one lemma for each action, under `IInv` and `RInv` before
and after.

*The storage manager.* Positions are products that wrap around. `PageAt(n)`
says where page `n` is found once the offset is an `int`, and four lemmas on
division reduce every product to it, for any page size and any file bound.
`TotalNeverAhead` is not inductive: a write from a position that has wrapped to
a negative number could land anywhere. It cannot, because such a position has
been reached from the end of the greatest file, and the read before it is the
last page (`WrappedAtEnd`); and a file that is there has a page (`NeverEmpty`).
`AskedAssumption` keeps the page numbers callers ask for at 0 or above, as the
actions of the module require.

*The record manager.* Its `IInv` adds to type and shape what a call that has
begun relies on (`CallOK`): the value it will store is one, and a scan that
reads has not passed its end. Every
action has a lemma, built from the same lemmas on the pool's calls: none of them
asks whether pins and unpins match, which is why leaked pins and surplus unpins
are harmless to the shape. `SpareAssumption` (`malloc` has one more page
than the frames hold) is used by every pin, `PageAssumption` says what a page's
contents are; `MaxPins` and `MaxOver` are used by no theorem.

*The records.* A record is read from the frame of its page or, when there is
none, from the file, and any pin may change which of the two it is for any
record: a leaked pin does not keep a page, since LRU evicts pinned pages too.
`RecordManagerProofs` follows one record through a call. `Moves(s, t, r)` says
what a pin of some page does to record `r`: it `Stays` (it reads the same, and
the file has what it had, or what is read, or will be written), it was `Dropped` (its clean page
left the pool, which is the first cause of `LossHasCause`), or it was `Nowhere`
to begin with. `DeletedStaysDeleted` is not inductive, because a tombstone in a
buffer says nothing of the version of the page on the file: `Tomb` adds that the
page is dirty, or that the file has no record in the slot either. That is what
`deleteRecord` achieves with its `markDirty` after the `unpinPage`, and what
`insertRecord`, which marks nothing, does not achieve for a new record. A slot
`insertRecord` may take never has the mark of a record, so `FreshSlot` and the
absence of a third cause in `LossHasCause` come out of the same lemmas on its
search (`SearchOK`: it looks at the pages of records only). `ValsAssumption`:
no value is one of the two words `ledger` has for a slot without a record.

*The expressions.* What `evalExpr` computes for every tree is proved by
induction over the nodes in the order of their allocation: an operand is an
older node, or the node itself. The induction theorems of the library have an
operator as a parameter, which the provers cannot be given, so `ExprProofs`
derives two principles about sets of numbers (`FromBefore`, `FromZero`) from the
fact that the strict subsets of finite sets are well-founded. `FromZero` shows
that the four recursive functions over trees exist and satisfy their equations
(`BelowDefined` and its like); `FromBefore` shows that every live node is
`Sound`: its evaluation returns a value that is `Right`, or exits or crashes
with a cause, and gives back no constant's characters. `Right` is what
`ResultIsMeaning` lacks to be inductive over a tree: it says which int an AND or
OR leaves (`Shifted`: the -1 with its lower half replaced, tag `DT_INT`), and
that a value tagged as a bool comes from an operator that sets the tag even
where the expression is wrong, which is what `OrdersBools` of an outer
comparison needs. `AppliedMeans` compares each operator with its meaning on such
operands. The invariant `EInv` of the caller is then short: every node has the
shape its macro gave it, and the caller has either just evaluated a live node
(`JustEvaluated`) or has no result (`Idle`). TLC agrees with `EInv`, and with
`Sound` for all live nodes, on the instance of run `expr`. The assumptions are
the types of the constants (`NodesAssumption`, `OpsAssumption`,
`TextsAssumption`, `RowAssumption`: a record's bools are `TRUE` or `FALSE`);
`MaxNodes` may be any number, and `MaxWide` and `DeepOps` are used by no
theorem.

*The layout.* Positions are sums over the attributes of a schema. The function
`Sums` exists and satisfies its equation (`SumsIs`), it grows with each
attribute by that attribute's width, and two sums over a schema compare when
their widths do (`SumsGrow`, `SumsMonotone`); these are inductions, in the form
`ExprProofs` uses (the two modules stand apart, so `FromZero` is in both). From
them follow `Apart`, that the bytes of two attributes meet only where a bool is
involved, and `Fits`, that what `setAttr` writes ends within what
`getRecordSize` counts unless the schema is one of those `OverrunHasCause`
names. The header needs arithmetic on its bytes: `NumberRead` (four bytes are
the number that was written) and `TypeRead` (the four bytes before a type are
the end of a name, and 0 for a name of at most 11 characters), so that an open
table has as many attributes as were created, each an int (`ParseIs`,
`TableSize`). The invariant `LInv` is of five parts: how schema, file and table
stem from `made` (`Copies`), how long record and slot are (`Sized`), their types
(`Typed`), the causes of an overrun and of a crash (`Causes`), and `Faithful`:
each byte of an attribute that has been stored, is not cut off and is shared
with no other attribute is that value's, in the record and in its slot. The
assumptions are `SchemasAssumption` and `UnsetAssumption`; a schema has at most
177 attributes (`MaxAttrs`), as many as have a header on page 0.

The proof attempt corrected the properties. As they were first written, every
run passed and they were false: a bool overlaps more than its neighbour when a
string of one character follows it (`Shared` now speaks of bytes); an attribute
without bytes (a string of length 0) is never told from another value; and
`getAttr` makes a string of an attribute 1 of any type, so its `typeLength`
counts in `Roomy` even when it is an int's, and `setAttr` may write behind the
record. `MCRecordLayout` has a schema of each kind (`Unusual`) since, on which
the earlier properties are violated.

*Assumptions on clients.* `SharingAssumption`: several clients use a FIFO pool
only, since the other strategies evict pinned pages and the theorems are false
for them. `ClientsAssumption`: there are finitely many, since they are counted.
`stray` limits the promises to processes in which `pinPage` never lost a page;
`StrayHasCause` is what is known about that.

## 6. What is only checked, and what is not modelled

* Checked by TLC on the instances above, and not proved: `CallReturns`, which is
  liveness and out of the prover's reach. Every other property of a run that
  passes is the subject of a theorem of section 5. `LRUEvictsLeastRecent`,
  `EqualsItsMeaning` and `ClosedIsOnFile` are false.
* `LastPage`, the largest page number, is a constant of every theorem and may be
  any natural number; the code's own bound, the width of `int`, is modelled in
  `StorageManager` only.
* Of the record manager: a second table, or `createTable` while a table is open
  (the first pool is abandoned as it is); `createTable` without a schema, which
  returns with a manager that has no file; `shutdownRecordManager`, which frees
  the manager every later call follows; a second scan at the same time, whose
  only shared state is `mgr.tuples`; a caller that writes through
  `record->data` after `next` has pointed it into the pool; the names and keys
  of an opened schema,
  which nothing reads. `startScan` with a NULL condition returns an error and
  leaves the scan unset, and `serializeTableContent`, which starts one so, goes
  on to follow an unset pointer: both are undefined at once and have no states.
* Not said of the storage manager: which block a write with a wrapped offset, or
  `writeCurrentBlock`, changes (no document says where it should write;
  `OneBlockPerWrite` says that it is one), and what a buffer holds after a read of
  the page one beyond the last, which `readBlock` lets through.
* Not said of the record manager: that `deleteRecord` deletes (it refuses the
  slots from `getNumSlotsPerPage` on, which `DeleteRecord` does too), and how
  many pins a page has, which nothing there keeps right.
* The serializer reads and formats, and but for `stringToValue` (in `Expr`) is
  not modelled. `attrOffset` forgets the mark byte, so what `serializeAttr`
  prints is one byte off: a fact of one line that needs no states. `VarString`
  doubles its size until it is at least what is asked for, and `realloc`s to
  that; that it does not record the new size makes it allocate again later, not
  write behind it.
* In `TwoPools` forcing a page or flushing a pool
  without closing it, callers that share a pool, and kills.
* The statistics (`pgN`, `writeCnt`, `hitNumber`, `augCall`) are written by the
  buffer manager and read for display only. Printing, messages and the tests
  are not modelled.
* Disk failures other than a missing file or stream, partial blocks and memory
  exhaustion are not modelled: the code does not look for them, and whole-block
  `fwrite`s are taken to be atomic with respect to a kill.

## 7. Plan

What a run checks and a proof can reach is proved. What is left is to model
more: a second table and `createTable` while one is open, over `TwoPools`' way
of sharing `pageInfo`; forces, flushes and kills in `TwoPools`; and clients that
visit pages without leaving in between in `ReplacementOrder`, where FIFO's order
holds among the frames that are free.
