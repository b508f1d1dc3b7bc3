-------------------------- MODULE BufferPoolProofs --------------------------
(***************************************************************************)
(* However a pool is used, it keeps its type and its shape, and no dirty    *)
(* page is lost by an eviction; where one page is pinned at a time, FIFO   *)
(* lets the pages go in the order of their loads.                          *)
(***************************************************************************)
EXTENDS ReplacementOrder, BufferManagerProofs

\* What every lemma on the calls asks for.
USE FramesAssumption

\* The inductive invariant: pinPage is right about where a page may be only
\* because of the shape, and the shape is kept only by values of the type.
IInv == TypeOK /\ PoolShape

\* What a step does to the record, followed by the forgetting of dead bytes.
LEMMA BecomesIInv ==
  ASSUME NEW s, Good(N, {}, s), NEW hs \in [Handles -> Handle], Becomes(s, hs)
  PROVE  IInv'
BY CollectGood, ShapedIsShape DEF Good, Becomes, IInv, TypeOK, PoolShape

\* The pool every execution starts with is empty.
LEMMA InitIInv == Init => IInv
<1> SUFFICES ASSUME Init PROVE IInv
  OBVIOUS
<1>1. CreatedFile \in FileValue
  BY ContentAssumption, LastPageAssumption DEF CreatedFile, FileValue
<1>2. Good(N, {}, pool)
  BY <1>1, FreshPoolGood, UsingAssumption DEF Init
<1>3. handle \in [Handles -> Handle]
  BY DEF Init, Handle, NoHandle
<1> QED BY <1>2, <1>3, ShapedIsShape DEF IInv, TypeOK, PoolShape, Good

\* Every step keeps the type and the shape, one case for each call.
LEMMA NextIInv == IInv /\ [Next]_vars => IInv'
<1> SUFFICES ASSUME IInv, [Next]_vars PROVE IInv'
  OBVIOUS
<1>1. pool \in Pool(N) /\ Shaped(N, {}, pool) /\ handle \in [Handles -> Handle]
  BY ShapedIsShape DEF IInv, TypeOK, PoolShape
<1>2. ASSUME NEW h \in Handles, handle[h].page # NoPage
      PROVE  handle[h].page \in Pages
  BY <1>1, <1>2 DEF Handle
<1>3. ASSUME NEW h \in Handles, NEW p \in Pages, Pin(h, p) PROVE IInv'
  <2> DEFINE b == CHOOSE x \in Bufs \ InUse : TRUE
             hs == [handle EXCEPT ![h] = [page |-> p,
                                          data |-> PinnedData(N, pool, p, b)]]
  <2>1. PICK u \in Undefined : Becomes(PinPage(N, pool, p, b, u), hs)
    BY <1>3 DEF Pin
  <2>2. b \in Bufs \ InUse
    BY <1>3 DEF Pin
  <2> HIDE DEF b
  <2>3. b \in Bufs /\ \A g \in Frames(N) : pool.frame[g].data # b
    BY <2>2, NullAssumption DEF InUse, FrameBufs
  <2>4. Good(N, {}, PinPage(N, pool, p, b, u))
    BY <1>1, <2>3, PinPageGood
  <2>5. hs \in [Handles -> Handle]
    BY <1>1, <2>3, PinnedDataIsBuffer DEF Handle
  <2> HIDE DEF hs
  <2> QED BY <2>1, <2>4, <2>5, BecomesIInv
<1>4. ASSUME NEW h \in Handles, NEW c \in Content, Store(h, c) PROVE IInv'
  <2> DEFINE heap == [pool.heap EXCEPT ![handle[h].data] = c]
             s == [pool EXCEPT !.heap = heap]
  <2>1. heap \in [Bufs -> Content]
    BY <1>1, PoolMembers
  <2>2. Becomes(s, handle)
    BY <1>4 DEF Store
  <2> HIDE DEF heap
  <2>3. s \in Pool(N) /\ s.frame = pool.frame
    BY <1>1, <2>1, SetHeap DEF Pool
  <2> HIDE DEF s
  <2>4. Good(N, {}, s)
    BY <1>1, <2>3, ShapeOfFrames DEF Good
  <2> QED BY <1>1, <2>2, <2>4, BecomesIInv
<1>5. ASSUME NEW h \in Handles, Mark(h) PROVE IInv'
  BY <1>1, <1>2, <1>5, MarkDirtyGood, BecomesIInv DEF Mark
<1>6. ASSUME NEW h \in Handles, Unpin(h) PROVE IInv'
  BY <1>1, <1>2, <1>6, UnpinPageGood, BecomesIInv DEF Unpin
<1>7. ASSUME NEW h \in Handles, ForceOut(h) PROVE IInv'
  BY <1>1, <1>2, <1>7, ForcePageGood, BecomesIInv DEF ForceOut
<1>8. CASE Flush
  BY <1>1, <1>8, ForceFlushPoolGood, BecomesIInv DEF Flush, ShutdownBufferPool
<1>9. ASSUME NEW strategy \in Using, Start(strategy) PROVE IInv'
  BY <1>1, <1>9, InitBufferPoolGood, BecomesIInv, UsingAssumption DEF Start
<1>10. CASE UNCHANGED vars
  BY <1>10 DEF vars, IInv, TypeOK, PoolShape
<1> QED BY <1>3, <1>4, <1>5, <1>6, <1>7, <1>8, <1>9, <1>10 DEF Next

\* Every call keeps the invariant, whoever makes it.
THEOREM Invariance == Spec => []IInv
BY InitIInv, NextIInv, PTL DEF Spec

\* Every member of the pool record and of the handles keeps its type: counters
\* stay naturals, streams within the limit, pages and buffers real ones.
THEOREM TypeCorrect == Spec => []TypeOK
<1>1. IInv => TypeOK
  BY DEF IInv
<1> QED BY <1>1, Invariance, PTL

\* In every pool, under every strategy and every sequence of calls, the
\* occupied frames are a prefix, and no two hold one page or one buffer.
THEOREM ShapeCorrect == Spec => []PoolShape
<1>1. IInv => PoolShape
  BY DEF IInv
<1> QED BY <1>1, Invariance, PTL

-----------------------------------------------------------------------------
(* What a step does to the file *)

\* Forgetting dead bytes changes no file and no frame.
LEMMA BecomesWritesBack ==
  ASSUME NEW s \in Pool(N), NEW hs, Becomes(s, hs), WritesBack(N, pool, s, Frames(N))
  PROVE  WritesBack(N, pool, pool', Frames(N))
<1>1. /\ pool'.file = s.file /\ pool'.frame = s.frame
      /\ pool'.status = s.status
  BY DEF Becomes, Collect, Pool
<1> QED BY <1>1 DEF WritesBack, Running

\* One case for each call.
LEMMA NextWritesBack == IInv /\ [Next]_vars => WritesBack(N, pool, pool', Frames(N))
<1> SUFFICES ASSUME IInv, [Next]_vars PROVE WritesBack(N, pool, pool', Frames(N))
  OBVIOUS
<1>1. pool \in Pool(N) /\ Shaped(N, {}, pool) /\ handle \in [Handles -> Handle]
  BY ShapedIsShape DEF IInv, TypeOK, PoolShape
<1>2. ASSUME NEW h \in Handles, handle[h].page # NoPage
      PROVE  handle[h].page \in Pages
  BY <1>1, <1>2 DEF Handle
<1>3. ASSUME NEW s \in Pool(N), NEW hs, Becomes(s, hs), s.file = pool.file,
             \A f \in Frames(N) : s.frame[f].page \in {pool.frame[f].page, NoPage}
      PROVE  WritesBack(N, pool, pool', Frames(N))
  BY <1>1, <1>3, FileAlone, BecomesWritesBack DEF Occupied
<1>4. ASSUME NEW h \in Handles, NEW p \in Pages, Pin(h, p)
      PROVE  WritesBack(N, pool, pool', Frames(N))
  <2> DEFINE b == CHOOSE x \in Bufs \ InUse : TRUE
             hs == [handle EXCEPT ![h] = [page |-> p,
                                          data |-> PinnedData(N, pool, p, b)]]
  <2>1. PICK u \in Undefined : Becomes(PinPage(N, pool, p, b, u), hs)
    BY <1>4 DEF Pin
  <2>2. b \in Bufs \ InUse /\ Running(pool)
    BY <1>4 DEF Pin
  <2> HIDE DEF b, hs
  <2>3. b \in Bufs /\ \A g \in Frames(N) : pool.frame[g].data # b
    BY <2>2, NullAssumption DEF InUse, FrameBufs
  <2>4. PinPage(N, pool, p, b, u) \in Pool(N)
    BY <1>1, <2>3, PinPageGood DEF Good
  <2>5. WritesBack(N, pool, PinPage(N, pool, p, b, u), Frames(N))
    BY <1>1, <2>2, <2>3, PinPageWritesBack, AnyWritesBack DEF Dirty
  <2> QED BY <2>1, <2>4, <2>5, BecomesWritesBack
<1>5. ASSUME NEW h \in Handles, NEW c \in Content, Store(h, c)
      PROVE  WritesBack(N, pool, pool', Frames(N))
  <2> DEFINE heap == [pool.heap EXCEPT ![handle[h].data] = c]
             s == [pool EXCEPT !.heap = heap]
  <2>1. heap \in [Bufs -> Content]
    BY <1>1, PoolMembers
  <2>2. Becomes(s, handle)
    BY <1>5 DEF Store
  <2> HIDE DEF heap
  <2>3. s \in Pool(N) /\ s.frame = pool.frame /\ s.file = pool.file
    BY <1>1, <2>1, SetHeap DEF Pool
  <2> HIDE DEF s
  <2> QED BY <1>3, <2>2, <2>3
<1>6. ASSUME NEW h \in Handles, Mark(h) \/ Unpin(h)
      PROVE  WritesBack(N, pool, pool', Frames(N))
  <2> DEFINE p == handle[h].page
             f == Least(Holding(N, pool, p))
  <2>1. p \in Pages
    BY <1>2, <1>6 DEF Mark, Unpin
  <2>2. PICK s : Becomes(s, handle) /\ s \in {MarkDirty(N, pool, p), UnpinPage(N, pool, p)}
    BY <1>6 DEF Mark, Unpin
  <2>3. s \in Pool(N)
    BY <1>1, <2>1, <2>2, MarkDirtyGood, UnpinPageGood DEF Good
  <2>4. \/ s = pool
        \/ \E fr \in {[pool.frame[f] EXCEPT !.dirty = TRUE],
                      [pool.frame[f] EXCEPT !.clientCount = pool.frame[f].clientCount - 1]} :
             s = [pool EXCEPT !.frame = [pool.frame EXCEPT ![f] = fr]]
    BY <2>2 DEF MarkDirty, UnpinPage
  <2>5. CASE s = pool
    BY <1>3, <2>2, <2>3, <2>5
  <2>6. ASSUME NEW fr, s = [pool EXCEPT !.frame = [pool.frame EXCEPT ![f] = fr]],
               f \in Frames(N) => fr.page = pool.frame[f].page
        PROVE  WritesBack(N, pool, pool', Frames(N))
    <3>1. s.file = pool.file /\ s.frame = [pool.frame EXCEPT ![f] = fr]
      BY <1>1, <2>6 DEF Pool
    <3> HIDE DEF f
    <3>2. \A g \in Frames(N) : s.frame[g].page = pool.frame[g].page
      BY <1>1, <2>6, <3>1, PoolMembers
    <3> QED BY <1>3, <2>2, <2>3, <3>1, <3>2
  <2>7. f \in Frames(N) =>
          /\ [pool.frame[f] EXCEPT !.dirty = TRUE].page = pool.frame[f].page
          /\ [pool.frame[f] EXCEPT !.clientCount = pool.frame[f].clientCount - 1].page
               = pool.frame[f].page
    <3> HIDE DEF f
    <3> QED BY <1>1, PoolMembers DEF Frame
  <2> HIDE DEF f
  <2> QED BY <2>4, <2>5, <2>6, <2>7
<1>7. ASSUME NEW h \in Handles, ForceOut(h) PROVE WritesBack(N, pool, pool', Frames(N))
  <2> DEFINE p == handle[h].page
  <2>1. p \in Pages /\ Becomes(ForcePage(N, pool, p), handle)
    BY <1>2, <1>7 DEF ForceOut
  <2>2. ForcePage(N, pool, p) \in Pool(N)
    BY <1>1, <2>1, ForcePageGood DEF Good
  <2>3. CASE Holding(N, pool, p) = {}
    BY <1>1, <2>1, <2>2, <2>3, SameWritesBack, BecomesWritesBack DEF ForcePage
  <2>4. CASE Holding(N, pool, p) # {}
    <3>1. Least(Holding(N, pool, p)) \in Occupied(N, pool)
      BY <1>1, <2>1, <2>4, LeastHolding
    <3> DEFINE f == Least(Holding(N, pool, p))
    <3>2. ForcePage(N, pool, p) = WriteFrame(pool, f) /\ {f} \subseteq Frames(N)
      BY <2>4, <3>1 DEF ForcePage, Occupied
    <3>3. WritesBack(N, pool, WriteFrame(pool, f), {f})
      BY <1>1, <3>1, WriteFrameWritesBack
    <3> HIDE DEF f
    <3>4. WritesBack(N, pool, ForcePage(N, pool, p), Frames(N))
      BY <3>2, <3>3, AnyWritesBack
    <3> QED BY <2>1, <2>2, <3>4, BecomesWritesBack
  <2> QED BY <2>3, <2>4
<1>8. CASE Flush
  <2> DEFINE s == ForceFlushPool(N, pool)
  <2>1. s \in Pool(N) /\ Becomes(s, handle)
    BY <1>1, <1>8, ForceFlushPoolGood DEF Flush, ShutdownBufferPool, Good
  <2>2. WritesBack(N, pool, s, Dirty(N, pool)) /\ Dirty(N, pool) \subseteq Frames(N)
    BY <1>1, ForceFlushPoolWritesBack DEF Dirty
  <2> HIDE DEF s
  <2>3. WritesBack(N, pool, s, Frames(N))
    BY <2>2, AnyWritesBack
  <2> QED BY <2>1, <2>3, BecomesWritesBack
<1>9. ASSUME NEW strategy \in Using, Start(strategy)
      PROVE  WritesBack(N, pool, pool', Frames(N))
  <2> DEFINE s == InitBufferPool(N, pool, strategy)
  <2>1. s \in Pool(N) /\ Becomes(s, handle)
    BY <1>1, <1>9, InitBufferPoolGood, UsingAssumption DEF Start, Good
  <2>2. s.file = pool.file /\ s.frame = [f \in Frames(N) |-> EmptyFrame]
    BY <1>1 DEF InitBufferPool, Pool
  <2> HIDE DEF s
  <2> QED BY <1>3, <2>1, <2>2 DEF EmptyFrame
<1>10. CASE UNCHANGED vars
  BY <1>1, <1>10, SameWritesBack DEF vars
<1> QED BY <1>4, <1>5, <1>6, <1>7, <1>8, <1>9, <1>10 DEF Next

\* A victim's dirty page has reached the file when the step that evicts it is
\* over, in every pool, under every strategy and whatever the callers do.
THEOREM EvictionSafe == Spec => EvictionWritesBack
<1>1. IInv /\ [Next]_vars => [EvictionStep]_vars
  BY NextWritesBack DEF WritesBack, EvictionStep
<1> QED BY <1>1, Invariance, PTL DEF Spec, EvictionWritesBack

\* Nothing reaches the file but what a frame of the page held, and the file
\* never shrinks.
THEOREM FileSafe == Spec => FileFollowsFrames
<1>1. IInv /\ [Next]_vars => [FileStep]_vars
  BY NextWritesBack DEF WritesBack, FileStep
<1> QED BY <1>1, Invariance, PTL DEF Spec, FileFollowsFrames

-----------------------------------------------------------------------------
(* The order of replacement *)

\* Frame f is before frame g in the order that starts at frame st and goes
\* round.
Before(st, f, g) ==
  \/ f < g /\ (g < st \/ st <= f)
  \/ st <= f /\ g < st

\* The page being visited is pinned once, and no other is.
OnePinned(s, v) ==
  \A f \in Occupied(N, s) :
    s.frame[f].clientCount = IF s.frame[f].page = v THEN 1 ELSE 0

\* pageCounter is one less than the number of frames that were filled.
Filling(s) ==
  \/ Occupied(N, s) = Frames(N)
  \/ Occupied(N, s) = {} /\ s.pageCounter = 0
  \/ \A f \in Frames(N) : f \in Occupied(N, s) <=> f <= s.pageCounter

\* From the frame whose turn it is, the pages are in the order of their loads.
InOrder(s, loaded) ==
  \A f, g \in Occupied(N, s) :
    Before(Turn(N, s), f, g) => loaded[s.frame[f].page] < loaded[s.frame[g].page]

\* They were loaded in earlier visits.
Past(s, loaded, n) == \A f \in Occupied(N, s) : loaded[s.frame[f].page] < n

Orderly(s, v, n, loaded) ==
  /\ OnePinned(s, v)
  /\ Filling(s)
  /\ Past(s, loaded, n)
  /\ s.strategy = "FIFO" => InOrder(s, loaded)

\* That FIFO evicts the oldest page is inductive only together with what the
\* counter says while the pool fills up, and with the count of each page: a
\* pinned one would lose its turn.
OrderInv ==
  /\ IInv
  /\ visiting \in Pages \cup {NoPage} /\ now \in Nat /\ loadedAt \in [Pages -> Nat]
  /\ Running(pool) => Orderly(pool, visiting, now, loadedAt)

\* A visit, and its end, is what any caller of the pool may do.
LEMMA OrderRefines == OrderInit => Init
BY DEF OrderInit

LEMMA OrderStepRefines == [OrderNext]_orderVars => [Next]_vars
BY DEF OrderNext, orderVars, vars, Next, Visit, Leave, Restart

\* What the pool is after a call: forgetting dead bytes moves no page.
LEMMA BecomesSame ==
  ASSUME NEW s \in Pool(N), NEW hs, Becomes(s, hs)
  PROVE  /\ pool'.frame = s.frame /\ pool'.status = s.status
         /\ pool'.strategy = s.strategy /\ pool'.pageCounter = s.pageCounter
BY DEF Becomes, Collect, Pool

\* What a visit does to the frames.
LEMMA VisitMoves ==
  ASSUME OrderInv, NEW h \in Handles, NEW p \in Pages, Visit(h, p), Running(pool')
  PROVE  /\ Running(pool) /\ pool \in Pool(N) /\ Shaped(N, {}, pool)
         /\ pool'.strategy = pool.strategy
         /\ \/ \E f \in Frames(N) : Takes(N, pool, pool', f, p)
            \/ /\ pool'.frame = pool.frame /\ Holding(N, pool, p) = {}
               /\ Occupied(N, pool) = Frames(N) /\ NoPlace(N, pool)
<1>1. Running(pool) /\ pool \in Pool(N) /\ Shaped(N, {}, pool)
  BY ShapedIsShape DEF OrderInv, IInv, TypeOK, PoolShape, Visit, Pin
<1> DEFINE b == CHOOSE x \in Bufs \ InUse : TRUE
           hs == [handle EXCEPT ![h] = [page |-> p,
                                        data |-> PinnedData(N, pool, p, b)]]
<1>2. PICK u \in Undefined : Becomes(PinPage(N, pool, p, b, u), hs)
  BY DEF Visit, Pin
<1>3. b \in Bufs \ InUse
  BY DEF Visit, Pin
<1> HIDE DEF b, hs
<1>4. b \in Bufs /\ \A g \in Frames(N) : pool.frame[g].data # b
  BY <1>3, NullAssumption DEF InUse, FrameBufs
<1> DEFINE s == PinPage(N, pool, p, b, u)
<1>5. s \in Pool(N)
  BY <1>1, <1>4, PinPageGood DEF Good
<1>6. Kept(pool, s)
  BY <1>1, <1>4, PinPageKeeps
<1>7. s = PinPage(N, pool, p, b, u)
  OBVIOUS
<1> HIDE DEF s
<1>8. /\ pool'.frame = s.frame /\ pool'.status = s.status
      /\ pool'.strategy = s.strategy /\ pool'.pageCounter = s.pageCounter
  BY <1>2, <1>5, <1>7, BecomesSame
<1>9. Running(s)
  BY <1>8 DEF Running
<1>10. \/ \E f \in Frames(N) : Takes(N, pool, s, f, p)
       \/ /\ s.frame = pool.frame /\ Holding(N, pool, p) = {}
          /\ Occupied(N, pool) = Frames(N) /\ NoPlace(N, pool)
  BY <1>1, <1>4, <1>7, <1>9, PinMoves
<1>11. \A f : Takes(N, pool, s, f, p) => Takes(N, pool, pool', f, p)
  BY <1>8 DEF Takes
<1> QED BY <1>1, <1>6, <1>8, <1>10, <1>11 DEF Kept

\* The frames whose turn comes next, when the counter has moved by one.
LEMMA NextTurn ==
  ASSUME NEW s \in Pool(N), NEW t, t.pageCounter = s.pageCounter + 1
  PROVE  /\ Turn(N, s) \in Frames(N)
         /\ Turn(N, t) = IF Turn(N, s) = N - 1 THEN 0 ELSE Turn(N, s) + 1
<1>1. s.pageCounter \in Nat /\ N \in Nat \ {0}
  BY PoolMembers
<1>2. s.pageCounter + 1 \in Nat
  BY <1>1
<1> QED BY <1>1, <1>2, ModNext, ModFrame DEF Turn

LEMMA VisitOrderly ==
  ASSUME OrderInv, NEW h \in Handles, NEW p \in Pages, Visit(h, p), Running(pool')
  PROVE  Orderly(pool', p, now + 1, loadedAt')
<1> DEFINE s == pool
           t == pool'
<1>1. /\ Running(s) /\ s \in Pool(N) /\ Shaped(N, {}, s) /\ t.strategy = s.strategy
      /\ \/ \E f \in Frames(N) : Takes(N, s, t, f, p)
         \/ /\ t.frame = s.frame /\ Holding(N, s, p) = {}
            /\ Occupied(N, s) = Frames(N) /\ NoPlace(N, s)
  BY VisitMoves
<1>2. /\ Orderly(s, NoPage, now, loadedAt) /\ now \in Nat /\ loadedAt \in [Pages -> Nat]
      /\ loadedAt' = IF p \in Resident(s) THEN loadedAt ELSE [loadedAt EXCEPT ![p] = now]
  BY <1>1 DEF OrderInv, Visit
<1>3. N \in Nat \ {0} /\ s.pageCounter \in Nat /\ p # NoPage
  BY <1>1, PoolMembers, NoPageIsNone
<1>4. \A f \in Occupied(N, s) : /\ f \in Frames(N) /\ f \in Nat
                                /\ s.frame[f].page \in Pages
                                /\ s.frame[f].page # NoPage
                                /\ s.frame[f].clientCount = 0
  <2>1. \A f \in Occupied(N, s) : s.frame[f].page \in Pages
    BY <1>1, OccupiedMembers
  <2> QED BY <1>2, <2>1 DEF Orderly, OnePinned, Occupied, Frames
<1>5. Holding(N, s, p) = {} => p \notin Resident(s)
  BY DEF Holding, Resident, Occupied
<1> HIDE DEF s, t
\* The pool is full and has no place for the page: FIFO has one.
<1>6. CASE /\ t.frame = s.frame /\ Holding(N, s, p) = {}
           /\ Occupied(N, s) = Frames(N) /\ NoPlace(N, s)
  <2>1. Occupied(N, t) = Occupied(N, s)
    BY <1>6 DEF Occupied
  <2>2. \A f \in Occupied(N, s) : s.frame[f].page # p
    BY <1>4, <1>6 DEF Holding
  <2>3. s.strategy # "FIFO"
    BY <1>4, <1>6 DEF NoPlace
  <2>4. OnePinned(t, p)
    BY <1>4, <1>6, <2>1, <2>2 DEF OnePinned
  <2>5. \A q \in Pages \ {p} : loadedAt'[q] = loadedAt[q]
    BY <1>2
  <2>6. Past(t, loadedAt', now + 1)
    BY <1>2, <1>4, <1>6, <2>1, <2>2, <2>5 DEF Orderly, Past
  <2>7. Filling(t)
    BY <1>6, <2>1 DEF Filling
  <2>8. Orderly(t, p, now + 1, loadedAt')
    BY <1>1, <2>3, <2>4, <2>6, <2>7 DEF Orderly
  <2> QED BY <2>8 DEF t
<1>7. ASSUME NEW f \in Frames(N), Takes(N, s, t, f, p), s.frame[f].page = p,
             t.frame[f].clientCount = s.frame[f].clientCount + 1,
             t.pageCounter = s.pageCounter
      PROVE  Orderly(t, p, now + 1, loadedAt')
  <2>1. f \in Occupied(N, s) /\ p \in Resident(s) /\ loadedAt' = loadedAt
    BY <1>2, <1>3, <1>7 DEF Resident, Occupied
  <2>2. \A g \in Frames(N) : t.frame[g].page = s.frame[g].page
    BY <1>7 DEF Takes
  <2>3. Occupied(N, t) = Occupied(N, s) /\ Turn(N, t) = Turn(N, s)
    BY <1>7, <2>2 DEF Occupied, Turn
  <2>4. \A g \in Occupied(N, s) : g # f => s.frame[g].page # p /\ t.frame[g] = s.frame[g]
    BY <1>1, <1>4, <1>7, <2>1 DEF Shaped, OneFrameBut, Takes
  <2>5. OnePinned(t, p)
    BY <1>4, <1>7, <2>1, <2>2, <2>3, <2>4 DEF OnePinned
  <2>6. Past(t, loadedAt', now + 1)
    BY <1>2, <1>4, <2>1, <2>2, <2>3 DEF Orderly, Past
  <2>7. Filling(t)
    BY <1>2, <1>7, <2>3 DEF Orderly, Filling
  <2>8. t.strategy = "FIFO" => InOrder(t, loadedAt')
    BY <1>1, <1>2, <1>4, <2>1, <2>2, <2>3 DEF Orderly, InOrder
  <2> QED BY <2>5, <2>6, <2>7, <2>8 DEF Orderly
\* The page is new, and is put in frame f: it is the last to be loaded.
<1>8. ASSUME NEW f \in Frames(N), Takes(N, s, t, f, p), Holding(N, s, p) = {},
             t.frame[f].clientCount = 1, NEW O, O = Occupied(N, s) \cup {f},
             Filling(t),
             s.strategy = "FIFO" => \A x, y \in O : Before(Turn(N, t), x, y) =>
               x # f /\ (y = f \/ Before(Turn(N, s), x, y))
      PROVE  Orderly(t, p, now + 1, loadedAt')
  <2>1. t.frame[f].page = p /\ \A g \in Frames(N) \ {f} : t.frame[g] = s.frame[g]
    BY <1>8 DEF Takes
  <2>2. Occupied(N, t) = O
    BY <1>3, <1>8, <2>1 DEF Occupied
  <2>3. \A g \in O : g # f => /\ g \in Occupied(N, s) /\ t.frame[g] = s.frame[g]
                              /\ s.frame[g].page # p
    BY <1>4, <1>8, <2>1 DEF Holding
  <2>4. loadedAt'[p] = now /\ \A q \in Pages \ {p} : loadedAt'[q] = loadedAt[q]
    BY <1>2, <1>5, <1>8
  <2>5. \A g \in O : g # f => /\ loadedAt'[t.frame[g].page] = loadedAt[s.frame[g].page]
                              /\ loadedAt[s.frame[g].page] < now
                              /\ loadedAt[s.frame[g].page] \in Nat
    BY <1>2, <1>4, <2>3, <2>4 DEF Orderly, Past
  <2>6. loadedAt'[t.frame[f].page] = now
    BY <2>1, <2>4
  <2>7. OnePinned(t, p)
    BY <1>4, <1>8, <2>1, <2>2, <2>3 DEF OnePinned
  <2>8. Past(t, loadedAt', now + 1)
    BY <1>2, <2>2, <2>5, <2>6 DEF Past
  <2>9. t.strategy = "FIFO" => InOrder(t, loadedAt')
    <3> SUFFICES ASSUME s.strategy = "FIFO", NEW x \in O, NEW y \in O,
                        Before(Turn(N, t), x, y)
                 PROVE  loadedAt'[t.frame[x].page] < loadedAt'[t.frame[y].page]
      BY <1>1, <2>2 DEF InOrder
    <3>1. x # f /\ (y = f \/ Before(Turn(N, s), x, y))
      BY <1>8
    <3>2. CASE y = f
      BY <2>5, <2>6, <3>1, <3>2
    <3>3. CASE y # f
      <4>1. x \in Occupied(N, s) /\ y \in Occupied(N, s) /\ Before(Turn(N, s), x, y)
        BY <2>3, <3>1, <3>3
      <4>2. loadedAt[s.frame[x].page] < loadedAt[s.frame[y].page]
        BY <1>2, <4>1 DEF Orderly, InOrder
      <4> QED BY <2>5, <3>1, <3>3, <4>2
    <3> QED BY <3>2, <3>3
  <2> QED BY <1>8, <2>7, <2>8, <2>9 DEF Orderly
\* Into the first empty frame, ...
<1>9. ASSUME NEW f \in Frames(N), Takes(N, s, t, f, p), Holding(N, s, p) = {},
             t.frame[f].clientCount = 1, f \notin Occupied(N, s),
             \A g \in Frames(N) : g < f => g \in Occupied(N, s),
             t.pageCounter = IF f = 0 THEN s.pageCounter ELSE s.pageCounter + 1
      PROVE  Orderly(t, p, now + 1, loadedAt')
  <2> DEFINE O == Occupied(N, s) \cup {f}
  <2>1. f \in Nat /\ f < N /\ \A g \in Frames(N) : g \in Nat /\ g < N
    BY <1>3 DEF Frames
  <2>2. \A g \in Occupied(N, s) : g < f
    BY <1>1, <1>4, <1>9, <2>1 DEF Shaped, OccupiedIsPrefix
  <2>3. t.pageCounter = f
    <3>1. CASE f = 0
      BY <1>2, <1>3, <1>9, <3>1 DEF Orderly, Filling
    <3>2. CASE f # 0
      <4>1. f - 1 \in Frames(N) /\ f - 1 \in Occupied(N, s)
        <5>1. f - 1 \in Frames(N) /\ f - 1 < f
          BY <1>3, <2>1, <3>2 DEF Frames
        <5> QED BY <1>9, <5>1
      <4>2. f - 1 <= s.pageCounter /\ ~(f <= s.pageCounter)
        BY <1>2, <1>9, <4>1 DEF Orderly, Filling
      <4> QED BY <1>3, <1>9, <2>1, <3>2, <4>2
    <3> QED BY <3>1, <3>2
  <2>4. f # 0 => Turn(N, s) = f
    <3>1. f # 0 => s.pageCounter + 1 = f
      BY <1>3, <1>9, <2>3
    <3>2. f \in 0 .. N - 1 => f % N = f
      BY <1>3
    <3> QED BY <1>3, <2>1, <3>1, <3>2 DEF Turn
  <2>5. Turn(N, t) = IF f = N - 1 THEN 0 ELSE f + 1
    <3>1. f % N = f
      BY <1>3, <2>1
    <3> QED BY <1>3, <2>1, <2>3, <3>1, ModNext DEF Turn
  <2>6. ASSUME NEW x \in O, NEW y \in O, Before(Turn(N, t), x, y)
        PROVE  x # f /\ (y = f \/ Before(Turn(N, s), x, y))
    <3>1. x \in Nat /\ y \in Nat /\ x <= f /\ y <= f
      BY <2>1, <2>2, <1>4
    <3>2. x < y
      BY <2>1, <2>5, <2>6, <3>1 DEF Before
    <3>3. y # f => y < f /\ f # 0
      BY <2>1, <3>1
    <3> QED BY <2>1, <2>4, <3>1, <3>2, <3>3 DEF Before
  <2>7. Filling(t)
    <3>1. Occupied(N, t) = O
      BY <1>3, <1>9 DEF Occupied, Takes
    <3>2. \A g \in Frames(N) : g \in O <=> g <= f
      BY <1>9, <2>1, <2>2
    <3> QED BY <2>3, <3>1, <3>2 DEF Filling
  <2> HIDE DEF O
  <2> QED BY <1>8, <1>9, <2>6, <2>7 DEF O
\* ... or into the one whose turn it is.
<1>10. ASSUME NEW f \in Frames(N), Takes(N, s, t, f, p), Holding(N, s, p) = {},
              t.frame[f].clientCount = 1, Occupied(N, s) = Frames(N),
              t.pageCounter = s.pageCounter + 1,
              s.strategy = "FIFO" /\ s.frame[Turn(N, s)].clientCount = 0
                => f = Turn(N, s)
       PROVE  Orderly(t, p, now + 1, loadedAt')
  <2>1. /\ Turn(N, s) \in Frames(N)
        /\ Turn(N, t) = IF Turn(N, s) = N - 1 THEN 0 ELSE Turn(N, s) + 1
    BY <1>1, <1>10, NextTurn
  <2>2. s.strategy = "FIFO" => f = Turn(N, s)
    BY <1>4, <1>10, <2>1
  <2>3. Occupied(N, s) \cup {f} = Frames(N)
    BY <1>10
  <2>4. ASSUME f = Turn(N, s), NEW x \in Frames(N), NEW y \in Frames(N),
               Before(Turn(N, t), x, y)
        PROVE  x # f /\ (y = f \/ Before(Turn(N, s), x, y))
    <3>1. /\ f \in Nat /\ f < N /\ x \in Nat /\ x < N /\ y \in Nat /\ y < N
          /\ Turn(N, t) = IF f = N - 1 THEN 0 ELSE f + 1
      BY <1>3, <2>1, <2>4 DEF Frames
    <3> QED BY <1>3, <2>4, <3>1 DEF Before
  <2>5. Occupied(N, t) = Frames(N)
    BY <1>3, <1>10 DEF Occupied, Takes
  <2> QED BY <1>8, <1>10, <2>2, <2>3, <2>4, <2>5 DEF Filling
<1>11. ASSUME NEW f \in Frames(N), Takes(N, s, t, f, p)
       PROVE  Orderly(t, p, now + 1, loadedAt')
  BY <1>7, <1>9, <1>10, <1>11 DEF Takes
<1> QED BY <1>1, <1>6, <1>11 DEF t

\* Unpinning takes the one count back.
LEMMA LeaveOrderly ==
  ASSUME OrderInv, NEW h \in Handles, Leave(h), Running(pool')
  PROVE  Orderly(pool', NoPage, now, loadedAt)
<1> DEFINE p == visiting
           s == pool
           t == UnpinPage(N, pool, visiting)
<1>1. /\ s \in Pool(N) /\ Shaped(N, {}, s) /\ Running(s) /\ p \in Pages
      /\ Orderly(s, p, now, loadedAt) /\ Becomes(t, handle)
  BY ShapedIsShape DEF OrderInv, IInv, TypeOK, PoolShape, Leave, Unpin
<1>2. t \in Pool(N)
  BY <1>1, UnpinPageGood DEF Good
<1>3. /\ t.strategy = s.strategy /\ t.pageCounter = s.pageCounter
      /\ \A f \in Frames(N) : /\ t.frame[f].page = s.frame[f].page
                              /\ s.frame[f].page # p => t.frame[f] = s.frame[f]
  BY <1>1, UnpinEffect
<1>4. \A f \in Frames(N) : s.frame[f].page = p => t.frame[f].clientCount = 0
  <2>1. PICK f \in Frames(N) :
          /\ \A g \in Frames(N) \ {f} : t.frame[g] = s.frame[g]
          /\ Holding(N, s, p) # {} =>
               /\ s.frame[f].page = p
               /\ t.frame[f].clientCount = s.frame[f].clientCount - 1
    BY <1>1, UnpinEffect
  <2>2. p # NoPage
    BY <1>1, NoPageIsNone
  <2> HIDE DEF p, s, t
  <2> SUFFICES ASSUME NEW g \in Frames(N), s.frame[g].page = p
               PROVE  t.frame[g].clientCount = 0
    OBVIOUS
  <2>3. Holding(N, s, p) # {}
    BY DEF Holding
  <2>4. g = f /\ g \in Occupied(N, s)
    BY <1>1, <2>1, <2>2, <2>3 DEF Shaped, OneFrameBut, Occupied
  <2>5. s.frame[g].clientCount = 1
    BY <1>1, <2>4 DEF Orderly, OnePinned
  <2> QED BY <2>1, <2>3, <2>4, <2>5
<1>5. pool'.frame = t.frame /\ pool'.strategy = t.strategy /\ pool'.pageCounter = t.pageCounter
  BY <1>1, <1>2, BecomesSame
<1> HIDE DEF p, s, t
<1> DEFINE q == pool'
<1>6. q.frame = t.frame /\ q.strategy = t.strategy /\ q.pageCounter = t.pageCounter
  BY <1>5
<1> HIDE DEF q
<1>7. Occupied(N, q) = Occupied(N, s) /\ Turn(N, q) = Turn(N, s)
  BY <1>3, <1>6 DEF Occupied, Turn
<1>8. \A f \in Occupied(N, s) : f \in Frames(N) /\ s.frame[f].page # NoPage
  BY DEF Occupied
<1>9. OnePinned(q, NoPage)
  <2> SUFFICES ASSUME NEW f \in Occupied(N, s) PROVE q.frame[f].clientCount = 0
    BY <1>3, <1>6, <1>7, <1>8 DEF OnePinned
  <2>1. s.frame[f].page # p => s.frame[f].clientCount = 0
    BY <1>1 DEF Orderly, OnePinned
  <2> QED BY <1>3, <1>4, <1>6, <1>8, <2>1
<1>10. Filling(q)
  BY <1>1, <1>3, <1>6, <1>7 DEF Orderly, Filling
<1>11. Past(q, loadedAt, now)
  BY <1>1, <1>3, <1>6, <1>7, <1>8 DEF Orderly, Past
<1>12. q.strategy = "FIFO" => InOrder(q, loadedAt)
  BY <1>1, <1>3, <1>6, <1>7, <1>8 DEF Orderly, InOrder
<1>13. Orderly(q, NoPage, now, loadedAt)
  BY <1>9, <1>10, <1>11, <1>12 DEF Orderly
<1> QED BY <1>13 DEF q

\* An empty pool is in order.
LEMMA EmptyOrderly ==
  ASSUME NEW s, s.frame = [f \in Frames(N) |-> EmptyFrame], s.pageCounter = 0,
         NEW v, NEW n, NEW loaded
  PROVE  Orderly(s, v, n, loaded)
<1>1. Occupied(N, s) = {}
  BY DEF Occupied, EmptyFrame
<1> QED BY <1>1 DEF Orderly, OnePinned, Filling, Past, InOrder

LEMMA RestartOrderly ==
  ASSUME OrderInv, NEW strategy \in Using, Restart(strategy)
  PROVE  Orderly(pool', visiting, now, loadedAt')
<1> DEFINE s == InitBufferPool(N, pool, strategy)
<1>1. pool \in Pool(N) /\ strategy \in Strategies /\ Becomes(s, handle)
  BY UsingAssumption DEF OrderInv, IInv, TypeOK, Restart, Start
<1>2. s \in Pool(N)
  BY <1>1, InitBufferPoolGood DEF Good
<1>3. s.frame = [f \in Frames(N) |-> EmptyFrame] /\ s.pageCounter = 0
  BY <1>1 DEF InitBufferPool, Pool
<1> HIDE DEF s
<1>4. pool'.frame = [f \in Frames(N) |-> EmptyFrame] /\ pool'.pageCounter = 0
  BY <1>1, <1>2, <1>3, BecomesSame
<1> QED BY <1>4, EmptyOrderly

LEMMA InitOrderInv == OrderInit => OrderInv
<1> SUFFICES ASSUME OrderInit PROVE OrderInv
  OBVIOUS
<1>1. IInv
  BY InitIInv, OrderRefines
<1>2. pool.frame = [f \in Frames(N) |-> EmptyFrame] /\ pool.pageCounter = 0
  BY DEF OrderInit, Init, FreshPool
<1>3. Orderly(pool, visiting, now, loadedAt)
  BY <1>2, EmptyOrderly
<1> QED BY <1>1, <1>3 DEF OrderInit, OrderInv, Never

LEMMA NextOrderInv == OrderInv /\ [OrderNext]_orderVars => OrderInv'
<1> SUFFICES ASSUME OrderInv, [OrderNext]_orderVars PROVE OrderInv'
  OBVIOUS
<1>1. IInv'
  BY NextIInv, OrderStepRefines DEF OrderInv
<1>2. ASSUME NEW h \in Handles, NEW p \in Pages, Visit(h, p) PROVE OrderInv'
  <2>1. /\ visiting' \in Pages \cup {NoPage} /\ now' \in Nat /\ now' = now + 1
        /\ loadedAt' \in [Pages -> Nat] /\ visiting' = p
    BY <1>2 DEF OrderInv, Visit
  <2>2. Running(pool') => Orderly(pool', p, now + 1, loadedAt')
    BY <1>2, VisitOrderly
  <2> QED BY <1>1, <2>1, <2>2 DEF OrderInv
<1>3. ASSUME NEW h \in Handles, Leave(h) PROVE OrderInv'
  BY <1>1, <1>3, LeaveOrderly DEF OrderInv, Leave
<1>4. ASSUME NEW strategy \in Using, Restart(strategy) PROVE OrderInv'
  BY <1>1, <1>4, RestartOrderly DEF OrderInv, Restart, Never
<1>5. CASE UNCHANGED orderVars
  BY <1>1, <1>5 DEF orderVars, OrderInv
<1> QED BY <1>2, <1>3, <1>4, <1>5 DEF OrderNext

\* However the visits and the restarts follow one another, and under every
\* strategy: the counter says how far the pool is filled, and under FIFO the
\* pages stand, from the frame whose turn it is, in the order of their loads.
THEOREM OrderInvariance == OrderSpec => []OrderInv
BY InitOrderInv, NextOrderInv, PTL DEF OrderSpec

\* Visiting is one way of using a pool: what holds however it is used holds.
THEOREM OrderImplements == OrderSpec => Spec
BY OrderRefines, OrderStepRefines, PTL DEF OrderSpec, Spec

\* What a visit takes from the pool: nothing, or one page for its own.
LEMMA VisitTakes ==
  ASSUME OrderInv, NEW h \in Handles, NEW p \in Pages, Visit(h, p), Running(pool')
  PROVE  \/ /\ Gone = {}
            /\ \/ p \in Resident(pool')
               \/ pool.strategy = "LRU_K"
               \/ pool.strategy = "CLOCK" /\ pool.lastEntry > N
         \/ \E f \in Frames(N) :
              /\ Occupied(N, pool) = Frames(N)
              /\ Gone = {pool.frame[f].page}
              /\ p \in Resident(pool') \ Resident(pool)
              /\ pool.strategy = "FIFO" => f = Turn(N, pool)
<1> DEFINE s == pool
           t == pool'
<1>1. /\ s \in Pool(N) /\ Shaped(N, {}, s) /\ Orderly(s, NoPage, now, loadedAt)
      /\ \/ \E f \in Frames(N) : Takes(N, s, t, f, p)
         \/ /\ t.frame = s.frame /\ Holding(N, s, p) = {}
            /\ Occupied(N, s) = Frames(N) /\ NoPlace(N, s)
  BY VisitMoves DEF OrderInv, Visit
<1>2. Gone = Resident(s) \ Resident(t)
  BY DEF Gone
<1>3. p # NoPage /\ Turn(N, s) \in Frames(N)
  <2>1. s.pageCounter + 1 \in Nat
    BY <1>1, PoolMembers
  <2> QED BY <2>1, NoPageIsNone, ModFrame DEF Turn
<1> HIDE DEF s, t
<1>4. \A f \in Occupied(N, s) : f \in Frames(N) /\ s.frame[f].page # NoPage
                              /\ s.frame[f].clientCount = 0
  <2>1. \A f \in Occupied(N, s) : s.frame[f].page \in Pages
    BY <1>1, OccupiedMembers
  <2> QED BY <1>1, <2>1, NoPageIsNone DEF Orderly, OnePinned, Occupied
<1>5. CASE /\ t.frame = s.frame /\ Holding(N, s, p) = {}
           /\ Occupied(N, s) = Frames(N) /\ NoPlace(N, s)
  <2>1. Gone = {}
    BY <1>2, <1>5 DEF Resident, Occupied
  <2>2. s.strategy = "LRU_K" \/ (s.strategy = "CLOCK" /\ s.lastEntry > N)
    BY <1>4, <1>5 DEF NoPlace
  <2> QED BY <2>1, <2>2 DEF s
<1>6. ASSUME NEW f \in Frames(N), Takes(N, s, t, f, p)
      PROVE  \/ Gone = {} /\ p \in Resident(t)
             \/ /\ Occupied(N, s) = Frames(N)
                /\ Gone = {s.frame[f].page}
                /\ p \in Resident(t) \ Resident(s)
                /\ s.strategy = "FIFO" => f = Turn(N, s)
  <2>1. t.frame[f].page = p /\ \A g \in Frames(N) \ {f} : t.frame[g] = s.frame[g]
    BY <1>6 DEF Takes
  <2>2. p \in Resident(t)
    BY <1>3, <2>1 DEF Resident, Occupied
  <2>3. CASE s.frame[f].page = p \/ f \notin Occupied(N, s)
    <3>1. \A g \in Occupied(N, s) : g \in Occupied(N, t) /\ t.frame[g].page = s.frame[g].page
      BY <1>3, <2>1, <2>3 DEF Occupied
    <3> QED BY <1>2, <2>2, <3>1 DEF Resident
  <2>4. CASE /\ Holding(N, s, p) = {} /\ Occupied(N, s) = Frames(N)
             /\ s.strategy = "FIFO" /\ s.frame[Turn(N, s)].clientCount = 0
                  => f = Turn(N, s)
    <3>1. s.strategy = "FIFO" => f = Turn(N, s)
      BY <1>3, <1>4, <2>4
    <3>2. \A g \in Frames(N) : s.frame[g].page # p
      BY <2>4 DEF Holding
    <3>3. p \notin Resident(s)
      BY <3>2 DEF Resident, Occupied
    <3>4. Occupied(N, t) = Frames(N)
      BY <1>3, <2>1, <2>4 DEF Occupied
    <3>5. \A g \in Frames(N) : t.frame[g].page # s.frame[f].page
      BY <1>1, <2>1, <2>4, <3>2 DEF Shaped, OneFrameBut
    <3>6. \A q : q \in Resident(s) <=> \E g \in Frames(N) : q = s.frame[g].page
      BY <2>4 DEF Resident
    <3>7. \A q : q \in Resident(t) <=> \E g \in Frames(N) : q = t.frame[g].page
      BY <3>4 DEF Resident
    <3>8. Gone = {s.frame[f].page}
      BY <1>2, <2>1, <3>5, <3>6, <3>7
    <3> QED BY <2>2, <2>4, <3>1, <3>3, <3>8
  <2> QED BY <1>6, <2>3, <2>4 DEF Takes
<1> QED BY <1>1, <1>5, <1>6 DEF s, t

\* Only a visit takes a page from the pool and leaves one pinned.
LEMMA OnlyVisits ==
  ASSUME [OrderNext]_orderVars, Visits
  PROVE  \E h \in Handles, p \in Pages : Visit(h, p) /\ visiting' = p
BY DEF Visits, OrderNext, orderVars, Visit, Leave, Restart

LEMMA StepReplacesOne == OrderInv /\ [OrderNext]_orderVars => VisitStep
<1> SUFFICES ASSUME OrderInv, [OrderNext]_orderVars, Visits
             PROVE  /\ \/ Gone = {}
                       \/ /\ visiting' \in Resident(pool') \ Resident(pool)
                          /\ \E p \in Pages : Gone = {p}
                    /\ \/ visiting' \in Resident(pool')
                       \/ pool.strategy = "LRU_K"
                       \/ pool.strategy = "CLOCK" /\ pool.lastEntry > N
  BY DEF VisitStep
<1>1. PICK h \in Handles, p \in Pages : Visit(h, p) /\ visiting' = p
  BY OnlyVisits
<1>2. pool \in Pool(N) /\ Shaped(N, {}, pool) /\ Running(pool')
  BY ShapedIsShape DEF OrderInv, IInv, TypeOK, PoolShape, Visits
<1>3. \A f \in Occupied(N, pool) : pool.frame[f].page \in Pages
  BY <1>2, OccupiedMembers
<1> QED BY <1>1, <1>2, <1>3, VisitTakes

LEMMA StepEvictsOldest == OrderInv /\ [OrderNext]_orderVars => FIFOStep
<1> SUFFICES ASSUME OrderInv, [OrderNext]_orderVars, Visits, pool.strategy = "FIFO",
                    NEW o \in Gone, NEW q \in Resident(pool)
             PROVE  loadedAt[o] <= loadedAt[q]
  BY DEF FIFOStep
<1>1. PICK h \in Handles, p \in Pages : Visit(h, p) /\ visiting' = p
  BY OnlyVisits
<1>2. /\ pool \in Pool(N) /\ Shaped(N, {}, pool) /\ loadedAt \in [Pages -> Nat]
      /\ Running(pool') /\ Running(pool)
  BY <1>1, ShapedIsShape DEF OrderInv, IInv, TypeOK, PoolShape, Visits, Visit, Pin
<1>3. PICK f \in Frames(N) : /\ Occupied(N, pool) = Frames(N)
                             /\ Gone = {pool.frame[f].page} /\ f = Turn(N, pool)
  BY <1>1, <1>2, VisitTakes
<1>4. PICK g \in Frames(N) : q = pool.frame[g].page
  BY DEF Resident, Occupied
<1>5. o = pool.frame[f].page /\ o \in Pages /\ q \in Pages
  BY <1>2, <1>3, <1>4, OccupiedMembers
<1>6. CASE g = f
  BY <1>2, <1>4, <1>5, <1>6
<1>7. CASE g # f
  <2>1. Before(f, f, g)
    BY <1>7 DEF Before, Frames
  <2>2. loadedAt[o] < loadedAt[q]
    BY <1>2, <1>3, <1>4, <1>5, <2>1 DEF OrderInv, Orderly, InOrder
  <2> QED BY <1>2, <1>5, <2>2
<1> QED BY <1>6, <1>7

\* FIFO's counter, which frame 0 does not advance and which is never brought back
\* below N, gives the frames their turns in the order of the loads: the victim is
\* the page that was loaded first, for every number of frames, pages and visits.
THEOREM FIFOInOrder == OrderSpec => FIFOEvictsOldest
<1>1. OrderInv /\ [OrderNext]_orderVars => [FIFOStep]_orderVars
  BY StepEvictsOldest
<1> QED BY <1>1, OrderInvariance, PTL DEF OrderSpec, FIFOEvictsOldest

\* Under every strategy a visit drops no page but the one it has put its own in
\* the place of, and its page is then in the pool, but for RS_LRU_K and for a
\* CLOCK hand beyond the array.
THEOREM OneForOne == OrderSpec => VisitReplacesOne
<1>1. OrderInv /\ [OrderNext]_orderVars => [VisitStep]_orderVars
  BY StepReplacesOne
<1> QED BY <1>1, OrderInvariance, PTL DEF OrderSpec, VisitReplacesOne

=============================================================================
