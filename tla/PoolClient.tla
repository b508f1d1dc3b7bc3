----------------------------- MODULE PoolClient -----------------------------
(***************************************************************************)
(* A buffer pool and clients that use it as its interface intends: a       *)
(* client holds at most one page, stores only to a page it holds, marks    *)
(* dirty what it has stored before it lets the page go, and unpins once    *)
(* for every pin; the pool is shut down and opened again only when nobody  *)
(* holds a page.  The steps of different clients interleave, as those of   *)
(* a scan and of the calls made between two of its next() do.  The process *)
(* may be killed between two calls; a new one then opens the same file.    *)
(*                                                                         *)
(* Two ghost variables remember what the clients may rely on: latest, the  *)
(* content a client last stored in each page, and stray, whether pinPage   *)
(* has ever returned RC_OK for a page it put in no frame or did not read.  *)
(***************************************************************************)
EXTENDS BufferManager

CONSTANTS
  N,         \* pageInfo.maxPgFrs, the number of frames
  Clients,
  Using,      \* the replacement strategies the pool is opened with
  JunkPages,  \* what a page-sized buffer fresh from malloc may hold
  Unwritten,  \* of a page nobody has stored to and the file does not have
  MaxPins     \* BOUND: of each strategy, the pageInfo.lastPg up to which a
              \* pool that has it is pinned

ASSUME FramesAssumption == N \in Nat \ {0}
ASSUME ClientsAssumption == IsFiniteSet(Clients)
ASSUME UsingAssumption == Using \subseteq Strategies

\* Only FIFO looks at the pins of a frame before it takes it, so clients that
\* may hold pages side by side need it.
ASSUME SharingAssumption ==
  (\E c, d \in Clients : c # d) => Using \subseteq {"FIFO"}

ASSUME JunkPagesAssumption == JunkPages \subseteq Content
ASSUME UnwrittenAssumption == Unwritten \notin Content
ASSUME MaxPinsAssumption == MaxPins \in [Using -> Nat]

VARIABLES
  pool,    \* the record BufferManager's operators work on
  held,    \* what each client holds: page, buffer, and stored-but-not-marked
  latest,  \* GHOST: the content last stored in each page
  stray    \* GHOST: a page was handed out in no frame, or unread

vars == <<pool, held, latest, stray>>

Nothing == [page |-> NoPage, data |-> Null, unmarked |-> FALSE]

Hold ==
  [page : Pages \cup {NoPage}, data : Bufs \cup {Null}, unmarked : BOOLEAN]

TypeOK ==
  /\ pool \in Pool(N)
  /\ held \in [Clients -> Hold]
  /\ latest \in [Pages -> Content \cup {Unwritten}]
  /\ stray \in BOOLEAN

\* What the file says of a page to a process that has just opened it.
OnFile(file) ==
  [p \in Pages |-> IF p < file.size THEN file.block[p] ELSE Unwritten]

Init ==
  /\ \E strategy \in Using : pool = FreshPool(N, CreatedFile, strategy)
  /\ held = [c \in Clients |-> Nothing]
  /\ latest = OnFile(CreatedFile)
  /\ stray = FALSE

Holders(p) == {c \in Clients : held[c].page = p}
Idle == Holders(NoPage) = Clients

InUse == FrameBufs(N, pool) \cup {held[c].data : c \in Clients}

\* A call leaves a process, which forgets the bytes nothing points to any more,
\* or it has ended the process, and of that only the file remains: the next one
\* may rely on what it finds there.
Becomes(s, hs, lt, st) ==
  IF s.status = "crashed"
  THEN /\ pool' = Crashed(FreshPool(N, s.file, s.strategy))
       /\ held' = [c \in Clients |-> Nothing]
       /\ latest' = OnFile(s.file)
       /\ stray' = FALSE
  ELSE /\ pool' = Collect(s, FrameBufs(N, s) \cup {hs[c].data : c \in Clients})
       /\ held' = hs
       /\ latest' = lt
       /\ stray' = st

\* pinPage(p) came back, and its page is in no frame, or was never read
\* because openPageFile had no stream left to open.
Astray(s, p) ==
  \/ Holding(N, s, p) = {}
  \/ Holding(N, pool, p) = {} /\ pool.streams = MaxStreams

\* What is undefined in a pin.
Junk == {u \in Undefined : u.content \in JunkPages}

Pin(c, p) ==
  /\ Running(pool)
  /\ c \in Holders(NoPage)
  /\ pool.lastPg < MaxPins[pool.strategy]
  /\ Bufs \ InUse # {}
  /\ \E u \in Junk :
       LET b == CHOOSE x \in Bufs \ InUse : TRUE
           s == PinPage(N, pool, p, b, u)
       IN  Becomes(s, [held EXCEPT ![c] = [page |-> p,
                                           data |-> PinnedData(N, pool, p, b),
                                           unmarked |-> FALSE]],
                   latest, stray \/ Astray(s, p))

\* The client writes through the data pointer of its handle.
Store(c, content) ==
  /\ Running(pool)
  /\ held[c].page # NoPage
  /\ Becomes([pool EXCEPT !.heap[held[c].data] = content],
             [held EXCEPT ![c].unmarked = TRUE],
             [latest EXCEPT ![held[c].page] = content], stray)

Mark(c) ==
  /\ Running(pool)
  /\ held[c].unmarked
  /\ Becomes(MarkDirty(N, pool, held[c].page),
             [held EXCEPT ![c].unmarked = FALSE], latest, stray)

Unpin(c) ==
  /\ Running(pool)
  /\ held[c].page # NoPage
  /\ ~held[c].unmarked
  /\ Becomes(UnpinPage(N, pool, held[c].page), [held EXCEPT ![c] = Nothing],
             latest, stray)

ForceOut(c) ==
  /\ Running(pool)
  /\ held[c].page # NoPage
  /\ Becomes(ForcePage(N, pool, held[c].page), held, latest, stray)

Flush ==
  /\ Running(pool)
  /\ Becomes(ForceFlushPool(N, pool), held, latest, stray)

\* shutdownBufferPool by a client that then drops the pool: "closed" is the
\* client's knowledge, the pool's memory is not touched.
Shutdown ==
  /\ Running(pool)
  /\ Idle
  /\ LET s == ShutdownBufferPool(N, pool)
     IN  Becomes(IF Running(s) THEN [s EXCEPT !.status = "closed"] ELSE s,
                 held, latest, stray)

\* initBufferPool in the same process.
Open(strategy) ==
  /\ pool.status = "closed"
  /\ Becomes(InitBufferPool(N, pool, strategy), held, latest, stray)

\* The process is killed between two calls.
Kill ==
  /\ pool.status \in {"running", "closed"}
  /\ Becomes(Crashed(pool), held, latest, stray)

\* A new process opens the file.
Restart(strategy) ==
  /\ pool.status = "crashed"
  /\ pool' = FreshPool(N, pool.file, strategy)
  /\ UNCHANGED <<held, latest, stray>>

Next ==
  \/ \E c \in Clients, p \in Pages : Pin(c, p)
  \/ \E c \in Clients, content \in Content : Store(c, content)
  \/ \E c \in Clients : Mark(c) \/ Unpin(c) \/ ForceOut(c)
  \/ Flush
  \/ Shutdown
  \/ \E strategy \in Using : Open(strategy) \/ Restart(strategy)
  \/ Kill

Spec == Init /\ [][Next]_vars

-----------------------------------------------------------------------------
(* Properties *)

\* As long as every page pinPage handed out was read and is in a frame.
Sound == Running(pool) /\ ~stray

\* The frame that holds a client's page points to the client's buffer: no
\* replacement took a pinned frame away (FIFO's test of clientCount), and two
\* clients of a page share one buffer.
PinnedStays ==
  Sound => \A c \in Clients \ Holders(NoPage) :
             \E f \in Holding(N, pool, held[c].page) :
                pool.frame[f].data = held[c].data

\* clientCount is the number of clients that hold the page, for every way a
\* frame comes to hold it: frame 0's "+= 1", the other frames' "= 1", a hit,
\* and assign_val.
PinsAccounted ==
  Sound => \A f \in Occupied(N, pool) :
             pool.frame[f].clientCount = Cardinality(Holders(pool.frame[f].page))

\* A page whose frame is clean has on the file what the frame shows, unless a
\* store to it has not been marked yet, or it was never stored to.  So what a
\* replacement drops without writing can be read again.
CleanIsOnFile ==
  Sound => \A f \in Occupied(N, pool) :
    LET p == pool.frame[f].page IN
    \/ pool.frame[f].dirty
    \/ latest[p] = Unwritten
    \/ \E c \in Holders(p) : held[c].unmarked
    \/ p < pool.file.size /\ pool.file.block[p] = pool.heap[pool.frame[f].data]

\* What the next pinPage of p shows: its frame, or else the file.
Shown(p) ==
  IF Holding(N, pool, p) # {}
  THEN pool.heap[pool.frame[CHOOSE f \in Holding(N, pool, p) : TRUE].data]
  ELSE OnFile(pool.file)[p]

\* No store is ever lost while the process lives: not by an eviction, a flush,
\* a force between a store and its mark, a shutdown or a reopening.
NoLostStore ==
  Sound => \A p \in Pages : latest[p] # Unwritten => Shown(p) = latest[p]

\* pinPage loses a page (RC_OK, but in no frame or unread) only in a process
\* that has run out of streams, under RS_LRU_K, under CLOCK once hits have
\* moved its hand beyond the array, and under FIFO while someone holds a page.
\* Under LRU and LFU never, and never under FIFO for a client alone.
StrayStep ==
  stray' /\ ~stray =>
    \/ pool.streams = MaxStreams
    \/ pool.strategy = "LRU_K"
    \/ pool.strategy = "CLOCK" /\ pool.lastEntry > N
    \/ pool.strategy = "FIFO" /\ ~Idle

StrayHasCause == [][StrayStep]_vars

\* After an orderly shutdown the file holds the last content of every page
\* that was ever stored to, whoever stored it and however often it moved.
ShutdownIsDurable ==
  pool.status = "closed" /\ ~stray =>
    \A p \in Pages : latest[p] # Unwritten => OnFile(pool.file)[p] = latest[p]

-----------------------------------------------------------------------------
(* Refinement *)

\* The page store the clients see: the current content of a page is what its
\* frame or else the file shows, and once a page went astray nothing is
\* promised.
Mode ==
  IF stray THEN "void"
  ELSE CASE pool.status = "running" -> "up"
         [] pool.status = "closed"  -> "closed"
         [] OTHER                   -> "dead"

Disk == OnFile(pool.file)

Db == [p \in Pages |-> IF latest[p] = Unwritten THEN Unwritten ELSE Shown(p)]

Fixed == [c \in Clients |-> held[c].page]

Sight ==
  [c \in Clients |-> IF held[c].page = NoPage THEN Blank ELSE pool.heap[held[c].data]]

Promise ==
  INSTANCE PageStore WITH
    mode <- Mode, disk <- Disk, db <- Db, fixed <- Fixed, sight <- Sight

\* The buffer pool, used with discipline, is a page store.
IsPageStore == Promise!Spec

=============================================================================
