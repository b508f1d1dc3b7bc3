------------------------------ MODULE TwoPools ------------------------------
(***************************************************************************)
(* Two buffer pools in one process.  Each has frames, buffers and a file   *)
(* of its own, but pageInfo, with the number of frames and the counters of *)
(* the replacement strategies, is one global of buffer_mgr.c, and the      *)
(* streams are the process's.  initBufferPool sets them all anew for the   *)
(* pool it opens, and every pool is from then on used with them.           *)
(*                                                                         *)
(* A call of pool i is a call of BufferManager with the frames it sees for *)
(* N.  One caller uses the pools the way the clients of PoolClient do: it  *)
(* holds at most one page of each, marks what it has stored, and shuts a   *)
(* pool down before it opens it again, while it goes on with the other.    *)
(***************************************************************************)
EXTENDS BufferManager

CONSTANTS
  PoolIds,
  Sizes,      \* the numbers of frames the caller asks for
  Using,      \* of each pool, the replacement strategies it is opened with
  Asked,      \* of each pool, the pages the caller asks for
  Stored,     \* of each pool, what the caller stores to its pages
  Unwritten,  \* of a page nobody has stored to and the file does not have
  MaxPins     \* BOUND: of each strategy, the pageInfo.lastPg up to which a
              \* pool that has it is pinned

ASSUME SizesAssumption == Sizes \subseteq Nat \ {0}
ASSUME CallersAssumption ==
  /\ Using \in [PoolIds -> SUBSET Strategies]
  /\ Asked \in [PoolIds -> SUBSET Pages]
  /\ Stored \in [PoolIds -> SUBSET Content]
ASSUME UnwrittenAssumption == Unwritten \notin Content

VARIABLES
  alive,     \* "running"; "astray": a page was lost, see Pin; "ended"
  pageInfo,  \* the global, and how many streams are open
  pools,     \* of each pool what BM_BufferPool points to, and its file
  held,      \* the page held of each pool, and its buffer
  latest,    \* GHOST: of each pool, the content last stored in each page
  hidden     \* GHOST: of each pool, the pages the other has ever hidden

vars == <<alive, pageInfo, pools, held, latest, hidden>>

Closed(file) ==
  [size |-> 0, strategy |-> "FIFO", frame |-> [f \in {} |-> {}],
   heap |-> [b \in Bufs |-> Blank], file |-> file]

OnFile(file) ==
  [p \in Pages |-> IF p < file.size THEN file.block[p] ELSE Unwritten]

Nothing == [page |-> NoPage, data |-> Null]

Init ==
  /\ alive = "running"
  /\ pageInfo = [maxPgFrs |-> 0, pageCounter |-> 0, lastPg |-> 0,
                 lastEntry |-> 0, lastPtr |-> 0, streams |-> 0]
  /\ pools = [i \in PoolIds |-> Closed(CreatedFile)]
  /\ held = [i \in PoolIds |-> Nothing]
  /\ latest = [i \in PoolIds |-> OnFile(CreatedFile)]
  /\ hidden = [i \in PoolIds |-> {}]

-----------------------------------------------------------------------------

Min2(m, n) == IF m < n THEN m ELSE n

\* How many of its frames a call on pool i looks at.
Seen(i) == Min2(pools[i].size, pageInfo.maxPgFrs)

\* The calls that look at all frames run past the array of a smaller pool.
PastArray(i) == pageInfo.maxPgFrs > pools[i].size

\* Pool i as a call on it finds it.
View(i) ==
  [status |-> "running", strategy |-> pools[i].strategy,
   frame |-> [f \in 0 .. Seen(i) - 1 |-> pools[i].frame[f]],
   heap |-> pools[i].heap, file |-> pools[i].file,
   streams |-> pageInfo.streams, pageCounter |-> pageInfo.pageCounter,
   lastPg |-> pageInfo.lastPg, lastEntry |-> pageInfo.lastEntry,
   lastPtr |-> pageInfo.lastPtr]

\* The bytes behind a frame's pointer or the caller's; the others are gone.
Used(frame, b) ==
  {frame[f].data : f \in DOMAIN frame} \cup {b}

\* What a call on pool leaves of it when it returns s, and the caller then
\* holds h: the frames the call did not look at are as they were.
Left(pool, s, h) ==
  LET frame == [f \in DOMAIN pool.frame |->
                  IF f \in DOMAIN s.frame THEN s.frame[f] ELSE pool.frame[f]]
  IN  [pool EXCEPT !.frame = frame, !.file = s.file,
                   !.heap = [b \in Bufs |-> IF b \in Used(frame, h.data)
                                            THEN s.heap[b] ELSE Blank]]

Leaves(i, s, h) ==
  IF s.status = "crashed"
  THEN alive' = "ended" /\ UNCHANGED <<pageInfo, pools, held>>
  ELSE /\ pageInfo' = [pageInfo EXCEPT
            !.pageCounter = s.pageCounter, !.lastPg = s.lastPg,
            !.lastEntry = s.lastEntry, !.lastPtr = s.lastPtr,
            !.streams = s.streams]
       /\ pools' = [pools EXCEPT ![i] = Left(@, s, h)]
       /\ held' = [held EXCEPT ![i] = h]

Alive == alive = "running"

Open(i) == pools[i].size > 0

\* The pages of a pool in frames that n frames leave out.
Beyond(pool, n) ==
  {pool.frame[f].page : f \in {g \in DOMAIN pool.frame : g >= n}} \ {NoPage}

\* initBufferPool: pageInfo is set for the pool opened.
OpenPool(i, n, strategy) ==
  /\ Alive
  /\ ~Open(i)
  /\ pageInfo' = [pageInfo EXCEPT !.maxPgFrs = n, !.pageCounter = 0,
                                  !.lastEntry = 0, !.lastPtr = 0]
  /\ pools' = [pools EXCEPT ![i] =
       [@ EXCEPT !.size = n, !.strategy = strategy,
                 !.frame = [f \in 0 .. n - 1 |-> EmptyFrame]]]
  /\ hidden' = [j \in PoolIds |-> hidden[j] \cup Beyond(pools[j], n)]
  /\ UNCHANGED <<alive, held, latest>>

\* What is undefined in a pin.  Nothing is said of pages nobody has stored to,
\* so their bytes may be one and the same.
Junk == [lruPage : JunkInts, content : {Blank}, luck : {"crash", "busy"}]

\* pinPage.  Where it runs past the array, or returns RC_OK for a page that is
\* in no frame or was not read, the process is followed no further.
Pin(i, p) ==
  LET n == Seen(i)
      B == Bufs \ Used(pools[i].frame, Null)
  IN  /\ Alive
      /\ Open(i)
      /\ held[i] = Nothing
      /\ pageInfo.lastPg < MaxPins[pools[i].strategy]
      /\ B # {}
      /\ \E u \in Junk :
           LET v    == View(i)
               b    == CHOOSE x \in B : TRUE
               s    == PinPage(n, v, p, b, u)
               lost == \/ PastArray(i) /\ Stops(n, v, p) = {}
                       \/ Running(s) /\ Holding(n, s, p) = {}
                       \/ /\ Holding(n, v, p) = {}
                          /\ pageInfo.streams = MaxStreams
           IN  IF lost
               THEN alive' = "astray" /\ UNCHANGED <<pageInfo, pools, held>>
               ELSE /\ Leaves(i, s, [page |-> p,
                                     data |-> PinnedData(n, v, p, b)])
                    /\ Running(s) => UNCHANGED alive
      /\ UNCHANGED <<latest, hidden>>

\* The caller stores through the pointer it holds and calls markDirty.
Store(i, content) ==
  LET n == Seen(i)
      p == held[i].page
  IN  /\ Alive
      /\ held[i] # Nothing
      /\ Leaves(i, MarkDirty(n, [View(i) EXCEPT !.heap[held[i].data] = content], p),
                held[i])
      /\ latest' = [latest EXCEPT ![i][p] = content]
      /\ UNCHANGED <<alive, hidden>>

\* unpinPage
Unpin(i) ==
  /\ Alive
  /\ held[i] # Nothing
  /\ Leaves(i, UnpinPage(Seen(i), View(i), held[i].page), Nothing)
  /\ UNCHANGED <<alive, latest, hidden>>

\* shutdownBufferPool, after which the caller drops the pool.  The flush looks
\* at all of maxPgFrs frames.
ClosePool(i) ==
  LET s == ShutdownBufferPool(Seen(i), View(i))
  IN  /\ Alive
      /\ Open(i)
      /\ held[i] = Nothing
      /\ IF PastArray(i) THEN alive' = "astray" /\ UNCHANGED <<pageInfo, pools>>
         ELSE IF s.status = "crashed"
              THEN alive' = "ended" /\ UNCHANGED <<pageInfo, pools>>
              ELSE /\ pools' = [pools EXCEPT ![i] = Closed(s.file)]
                   /\ pageInfo' = [pageInfo EXCEPT !.streams = s.streams]
                   /\ UNCHANGED alive
      /\ UNCHANGED <<held, latest, hidden>>

Next ==
  \/ \E i \in PoolIds, n \in Sizes : \E strategy \in Using[i] :
        OpenPool(i, n, strategy)
  \/ \E i \in PoolIds : \E p \in Asked[i] : Pin(i, p)
  \/ \E i \in PoolIds : \E content \in Stored[i] : Store(i, content)
  \/ \E i \in PoolIds : Unpin(i) \/ ClosePool(i)

Spec == Init /\ [][Next]_vars

-----------------------------------------------------------------------------
(* Properties *)

\* What the next pinPage of p shows of pool i.
Shown(i, p) ==
  LET holding == {f \in 0 .. Seen(i) - 1 : pools[i].frame[f].page = p}
  IN  IF holding = {} THEN OnFile(pools[i].file)[p]
      ELSE pools[i].heap[pools[i].frame[CHOOSE f \in holding : TRUE].data]

\* Two pools may share pageInfo's counters without losing a store of either,
\* whatever their strategies, over replacements, shutdowns and reopenings: only
\* a page that was in a frame beyond the number the other pool was opened with
\* (buffer_mgr.c:339) may be lost.
NoLostStore ==
  Alive => \A i \in PoolIds : \A p \in Pages \ hidden[i] :
    latest[i][p] # Unwritten => Shown(i, p) = latest[i][p]

\* A page goes astray when the streams are used up, when a search runs past
\* the array because the other pool has more frames, under RS_LRU_K, when the
\* other pool's hits or the pool's own have moved the CLOCK hand beyond it, or
\* when the other pool once hid a pinned frame, whose unpin was then lost, from
\* a FIFO pool.
StrayStep ==
  alive' = "astray" /\ Alive =>
    \/ pageInfo.streams = MaxStreams
    \/ \E i \in PoolIds :
         /\ Open(i)
         /\ \/ PastArray(i)
            \/ pools[i].strategy = "LRU_K"
            \/ pools[i].strategy = "CLOCK" /\ pageInfo.lastEntry > Seen(i)
            \/ pools[i].strategy = "FIFO" /\ hidden[i] # {}

StrayHasCause == [][StrayStep]_vars

=============================================================================
