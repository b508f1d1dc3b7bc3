----------------------------- MODULE BufferPool -----------------------------
(***************************************************************************)
(* A buffer pool and callers that follow no discipline: they pin, store,   *)
(* mark, unpin, force and flush in any order, through page handles that    *)
(* may be stale, unpin what they have unpinned before, and start the pool  *)
(* again under pages that are pinned.  The program is one thread: a call   *)
(* is one step.  What holds here holds however the pool is used.           *)
(***************************************************************************)
EXTENDS BufferManager

CONSTANTS
  N,         \* pageInfo.maxPgFrs, the number of frames
  Handles,   \* the BM_PageHandle variables of the callers
  Using,     \* the replacement strategies the callers ask for
  MaxPins,   \* BOUND: on pageInfo.lastPg, the pins of one process
  MaxFix     \* BOUND: a clientCount stays within -MaxFix .. MaxFix

ASSUME FramesAssumption == N \in Nat \ {0}
ASSUME UsingAssumption == Using \subseteq Strategies
ASSUME MaxPinsAssumption == MaxPins \in Nat
ASSUME MaxFixAssumption == MaxFix \in Nat

VARIABLES
  pool,      \* the record BufferManager's operators work on
  handle     \* the page and the buffer each handle was last given

vars == <<pool, handle>>

NoHandle == [page |-> NoPage, data |-> Null]

Handle == [page : Pages \cup {NoPage}, data : Bufs \cup {Null}]

TypeOK == pool \in Pool(N) /\ handle \in [Handles -> Handle]

Init ==
  /\ \E strategy \in Using : pool = FreshPool(N, CreatedFile, strategy)
  /\ handle = [h \in Handles |-> NoHandle]

\* The buffers something points to; malloc returns another.
InUse == FrameBufs(N, pool) \cup {handle[h].data : h \in Handles}

\* Every step ends by forgetting the bytes nothing points to any more.
Becomes(s, hs) ==
  /\ pool' = Collect(s, FrameBufs(N, s) \cup {hs[h].data : h \in Handles})
  /\ handle' = hs

Pin(h, p) ==
  /\ Running(pool)
  /\ pool.lastPg < MaxPins
  /\ \A f \in Holding(N, pool, p) : pool.frame[f].clientCount < MaxFix
  /\ Bufs \ InUse # {}
  /\ \E u \in Undefined :
       LET b == CHOOSE x \in Bufs \ InUse : TRUE
       IN  Becomes(PinPage(N, pool, p, b, u),
                   [handle EXCEPT ![h] = [page |-> p,
                                          data |-> PinnedData(N, pool, p, b)]])

\* The caller writes through the data pointer of its handle.
Store(h, c) ==
  /\ Running(pool)
  /\ handle[h].page # NoPage
  /\ Becomes([pool EXCEPT !.heap[handle[h].data] = c], handle)

Mark(h) ==
  /\ Running(pool)
  /\ handle[h].page # NoPage
  /\ Becomes(MarkDirty(N, pool, handle[h].page), handle)

Unpin(h) ==
  /\ Running(pool)
  /\ handle[h].page # NoPage
  /\ \A f \in Holding(N, pool, handle[h].page) :
        pool.frame[f].clientCount > -MaxFix
  /\ Becomes(UnpinPage(N, pool, handle[h].page), handle)

ForceOut(h) ==
  /\ Running(pool)
  /\ handle[h].page # NoPage
  /\ Becomes(ForcePage(N, pool, handle[h].page), handle)

\* forceFlushPool, and shutdownBufferPool, which does nothing more.
Flush == Running(pool) /\ Becomes(ShutdownBufferPool(N, pool), handle)

Start(strategy) == Running(pool) /\ Becomes(InitBufferPool(N, pool, strategy), handle)

Next ==
  \/ \E h \in Handles, p \in Pages : Pin(h, p)
  \/ \E h \in Handles, c \in Content : Store(h, c)
  \/ \E h \in Handles : Mark(h) \/ Unpin(h) \/ ForceOut(h)
  \/ Flush
  \/ \E strategy \in Using : Start(strategy)

Spec == Init /\ [][Next]_vars

-----------------------------------------------------------------------------
(* Properties *)

\* pinPage's search (buffer_mgr.c:130-221) stops at the first empty frame: a
\* page behind it would be loaded a second time.  The occupied frames are
\* therefore a prefix, no page is in two frames and no two frames share the
\* buffer that assign_val copies by reference, however the pool is used.
PoolShape == Shape(N, pool)

\* A dirty page leaves its frame only after its content has reached the file
\* (the writeInvoke of each strategy), whichever frame the strategy takes,
\* as long as the process survives the step and nobody starts the pool again.
EvictionStep ==
  \A f \in Occupied(N, pool) :
    LET old == pool.frame[f] IN
    /\ Running(pool')
    /\ pool'.frame[f].page \notin {old.page, NoPage}
    /\ old.dirty
    => pool'.file.block[old.page] = pool.heap[old.data]

EvictionWritesBack == [][EvictionStep]_vars

\* The file never shrinks, and a block of it changes only to the content of
\* the frame that holds its page.
FileStep ==
  /\ pool.file.size <= pool'.file.size
  /\ \A p \in Pages : pool'.file.block[p] # pool.file.block[p] =>
       \E f \in Holding(N, pool, p) :
          pool'.file.block[p] = pool.heap[pool.frame[f].data]

FileFollowsFrames == [][FileStep]_vars

=============================================================================
