--------------------------- MODULE TwoPoolsProofs ----------------------------
(***************************************************************************)
(* Two pools that share the number of frames and the counters lose nothing *)
(* but what the other has hidden: for every number of pools, frames, pages,*)
(* buffers and streams, and under every strategy.                          *)
(***************************************************************************)
EXTENDS TwoPools, BufferManagerProofs

-----------------------------------------------------------------------------
(* The inductive invariant *)

\* The frames one pool can have had malloc'ed for it.
Arrays == UNION {[Frames(n) -> Frame] : n \in Nat}

PoolRecord ==
  [size : Nat, strategy : Strategies, frame : Arrays,
   heap : [Bufs -> Content], file : FileValue]

Info ==
  [maxPgFrs : Nat, pageCounter : Nat, lastPg : Nat, lastEntry : Nat,
   lastPtr : Nat, streams : 0 .. MaxStreams]

Latest == [Pages -> Content \cup {Unwritten}]

Hold == [page : Pages \cup {NoPage}, data : Bufs \cup {Null}]

TypeOK ==
  /\ alive \in {"running", "astray", "ended"}
  /\ pageInfo \in Info
  /\ pools \in [PoolIds -> PoolRecord]
  /\ held \in [PoolIds -> Hold]
  /\ latest \in [PoolIds -> Latest]
  /\ hidden \in [PoolIds -> SUBSET Pages]

\* A pool, of which H are the hidden pages, has its frames in shape.
Framed(pl, H) ==
  /\ pl.frame \in [Frames(pl.size) -> Frame]
  /\ Shaped(pl.size, H, pl)
  /\ pl.file.exists

\* Pages the calls do not look at, where they look at m frames, are hidden.
Beheld(pl, H, m) ==
  /\ pl.size > 0 => m > 0
  /\ \A f \in Occupied(pl.size, pl) : pl.frame[f].page \notin H => f < m

\* The caller holds nothing, or a page in one of the frames, in its buffer.
Stays(pl, h) ==
  h # Nothing =>
    /\ h.page \in Pages
    /\ \E f \in Frames(pl.size) : pl.frame[f].page = h.page /\ pl.frame[f].data = h.data

\* A frame counts its holder.
Counted(pl, H, h) ==
  \A f \in Occupied(pl.size, pl) : pl.frame[f].page \notin H =>
    pl.frame[f].clientCount = IF h.page = pl.frame[f].page THEN 1 ELSE 0

\* A frame shows what was last stored in its page.
Current(pl, H, lt) ==
  \A f \in Occupied(pl.size, pl) :
    LET p == pl.frame[f].page
    IN  p \notin H /\ lt[p] # Unwritten => pl.heap[pl.frame[f].data] = lt[p]

\* So does the file, unless a frame with the page is dirty.
Settled(pl, H, lt) ==
  \A p \in Pages \ H : lt[p] # Unwritten =>
    \/ OnFile(pl.file)[p] = lt[p]
    \/ \E f \in Frames(pl.size) : pl.frame[f].page = p /\ pl.frame[f].dirty

Sound(pl, H, m, h, lt) ==
  /\ Framed(pl, H)
  /\ Beheld(pl, H, m)
  /\ Stays(pl, h)
  /\ Counted(pl, H, h)
  /\ Current(pl, H, lt)
  /\ Settled(pl, H, lt)

\* NoLostStore is not inductive alone: a replacement keeps it because what is
\* not dirty is on the file, a shutdown because a frame nobody holds has the
\* count that lets the flush write it, and another pool's opening because what
\* it hides, or brings back, is hidden for good.
IInv ==
  /\ TypeOK
  /\ \A i \in PoolIds :
       Sound(pools[i], hidden[i], pageInfo.maxPgFrs, held[i], latest[i])

-----------------------------------------------------------------------------
(* A pool as a call finds it, and as it leaves it *)

\* v is what a call on pl finds that looks at n frames, where m is the number
\* of frames of the pool opened last.
Views(pl, m, n, v) ==
  /\ m \in Nat /\ n \in Nat \ {0}
  /\ n <= pl.size /\ n <= m /\ (n = pl.size \/ n = m)
  /\ v \in Pool(n)
  /\ \A f \in Frames(n) : v.frame[f] = pl.frame[f]
  /\ v.heap = pl.heap
  /\ v.file = pl.file

LEMMA RecordMembers ==
  ASSUME NEW pl \in PoolRecord
  PROVE  /\ pl.size \in Nat /\ pl.strategy \in Strategies /\ pl.frame \in Arrays
         /\ pl.heap \in [Bufs -> Content] /\ pl.file \in FileValue
BY DEF PoolRecord

LEMMA FramedMembers ==
  ASSUME NEW pl, NEW H, Framed(pl, H), NEW f \in Occupied(pl.size, pl)
  PROVE  /\ f \in Frames(pl.size) /\ pl.frame[f].page \in Pages
         /\ pl.frame[f].data \in Bufs
<1>1. f \in Frames(pl.size) /\ pl.frame[f] \in Frame /\ pl.frame[f].page # NoPage
  BY DEF Framed, Occupied
<1>2. pl.frame[f].data # Null
  BY <1>1 DEF Framed, Shaped, EmptyIsBlank
<1> QED BY <1>1, <1>2, FrameMembers

\* What a call finds has a shape of its own, since the frames it does not look
\* at are the last ones.
LEMMA ViewShaped ==
  ASSUME NEW pl \in PoolRecord, NEW H, Framed(pl, H), NEW m, NEW n, NEW v,
         Views(pl, m, n, v)
  PROVE  Shaped(n, H, v) /\ \A f \in Frames(n) : f \in Frames(pl.size)
<1>1. n \in Nat /\ pl.size \in Nat /\ n <= pl.size
  BY RecordMembers DEF Views
<1>2. \A f \in Frames(n) : f \in Frames(pl.size) /\ f \in Int
  BY <1>1 DEF Frames
<1>3. \A f \in Occupied(n, v) : f \in Occupied(pl.size, pl) /\ f \in Frames(n)
  BY <1>2 DEF Occupied, Views
<1>4. \A f \in Frames(n) : v.frame[f] = pl.frame[f]
  BY DEF Views
<1>5. OccupiedIsPrefix(n, v)
  <2> SUFFICES ASSUME NEW f \in Occupied(n, v), NEW g \in Frames(n), g < f
               PROVE  g \in Occupied(n, v)
    BY DEF OccupiedIsPrefix
  <2>1. g \in Occupied(pl.size, pl)
    BY <1>2, <1>3 DEF Framed, Shaped, OccupiedIsPrefix
  <2> QED BY <1>4, <2>1 DEF Occupied
<1>6. OneFrameBut(n, H, v)
  BY <1>3, <1>4 DEF Framed, Shaped, OneFrameBut
<1>7. OneBufferPerFrame(n, v)
  BY <1>3, <1>4 DEF Framed, Shaped, OneBufferPerFrame
<1>8. EmptyIsBlank(n, v)
  <2> SUFFICES ASSUME NEW f \in Frames(n)
               PROVE  IF f \in Occupied(n, v) THEN v.frame[f].data # Null
                      ELSE v.frame[f] = EmptyFrame
    BY DEF EmptyIsBlank
  <2>1. f \in Occupied(n, v) <=> f \in Occupied(pl.size, pl)
    BY <1>2, <1>4 DEF Occupied
  <2> QED BY <1>2, <1>4, <2>1 DEF Framed, Shaped, EmptyIsBlank
<1> QED BY <1>2, <1>5, <1>6, <1>7, <1>8 DEF Shaped

LEMMA ViewOfPool ==
  ASSUME IInv, NEW i \in PoolIds, Open(i)
  PROVE  /\ Views(pools[i], pageInfo.maxPgFrs, Seen(i), View(i))
         /\ Running(View(i)) /\ View(i).strategy = pools[i].strategy
         /\ View(i).streams = pageInfo.streams
         /\ View(i).lastEntry = pageInfo.lastEntry
         /\ Shaped(Seen(i), hidden[i], View(i))
<1> DEFINE pl == pools[i]
           m == pageInfo.maxPgFrs
           n == Seen(i)
           v == View(i)
<1>1. /\ pl \in PoolRecord /\ pageInfo \in Info
      /\ Framed(pl, hidden[i]) /\ Beheld(pl, hidden[i], m)
  BY DEF IInv, TypeOK, Sound
<1>2. pl.size \in Nat \ {0} /\ m \in Nat \ {0}
  BY <1>1, RecordMembers DEF Open, Info, Beheld
<1>3. n \in Nat \ {0} /\ n <= pl.size /\ n <= m /\ (n = pl.size \/ n = m)
  BY <1>2 DEF Seen, Min2
<1>4. \A f \in Frames(n) : f \in Frames(pl.size)
  BY <1>2, <1>3 DEF Frames
<1>5. [f \in 0 .. n - 1 |-> pl.frame[f]] \in [Frames(n) -> Frame]
  BY <1>1, <1>4 DEF Framed, Frames
<1>6. v \in Pool(n)
  <2>1. /\ pl.strategy \in Strategies /\ pl.heap \in [Bufs -> Content]
        /\ pl.file \in FileValue
    BY <1>1, RecordMembers
  <2>2. /\ pageInfo.streams \in 0 .. MaxStreams /\ pageInfo.pageCounter \in Nat
        /\ pageInfo.lastPg \in Nat /\ pageInfo.lastEntry \in Nat
        /\ pageInfo.lastPtr \in Nat
    BY <1>1 DEF Info
  <2> HIDE DEF n
  <2> QED BY <1>5, <2>1, <2>2 DEF Pool, View, n
<1>7. /\ \A f \in Frames(n) : v.frame[f] = pl.frame[f]
      /\ v.heap = pl.heap /\ v.file = pl.file /\ Running(v)
      /\ v.strategy = pl.strategy /\ v.streams = pageInfo.streams
      /\ v.lastEntry = pageInfo.lastEntry
  BY DEF View, Frames, Running
<1> HIDE DEF n, v
<1>8. Views(pl, m, n, v)
  BY <1>2, <1>3, <1>6, <1>7 DEF Views
<1>9. Shaped(n, hidden[i], v)
  BY <1>1, <1>8, ViewShaped
<1> QED BY <1>7, <1>8, <1>9 DEF n, v

\* What a call leaves of a pool.
LEMMA LeftMembers ==
  ASSUME NEW pl \in PoolRecord, pl.frame \in [Frames(pl.size) -> Frame],
         NEW m, NEW n, NEW v, Views(pl, m, n, v), NEW s \in Pool(n), NEW h
  PROVE  LET q == Left(pl, s, h) IN
         /\ q \in PoolRecord
         /\ q.size = pl.size /\ q.strategy = pl.strategy /\ q.file = s.file
         /\ q.frame \in [Frames(pl.size) -> Frame]
         /\ \A f \in Frames(pl.size) :
              q.frame[f] = IF f \in Frames(n) THEN s.frame[f] ELSE pl.frame[f]
         /\ \A f \in Frames(pl.size) :
              q.frame[f].data \in Bufs => q.heap[q.frame[f].data] = s.heap[q.frame[f].data]
<1> DEFINE frame == [f \in DOMAIN pl.frame |->
                       IF f \in DOMAIN s.frame THEN s.frame[f] ELSE pl.frame[f]]
           heap == [b \in Bufs |-> IF b \in Used(frame, h.data)
                                   THEN s.heap[b] ELSE Blank]
           q == Left(pl, s, h)
<1>1. n \in Nat \ {0} /\ n <= pl.size /\ pl.size \in Nat
  BY RecordMembers DEF Views
<1>2. /\ s.frame \in [Frames(n) -> Frame] /\ s.heap \in [Bufs -> Content]
      /\ s.file \in FileValue
  BY <1>1, PoolMembers
<1>3. /\ frame \in [Frames(pl.size) -> Frame]
      /\ \A f \in Frames(pl.size) :
           frame[f] = IF f \in Frames(n) THEN s.frame[f] ELSE pl.frame[f]
  BY <1>2
<1>4. \A f \in Frames(pl.size) : frame[f].data \in Used(frame, h.data)
  <2>1. DOMAIN frame = Frames(pl.size)
    BY <1>3
  <2> HIDE DEF frame
  <2> QED BY <2>1 DEF Used
<1>5. q = [pl EXCEPT !.frame = frame, !.file = s.file, !.heap = heap]
  BY DEF Left
<1> HIDE DEF frame
<1>6. /\ heap \in [Bufs -> Content]
      /\ \A f \in Frames(pl.size) :
           frame[f].data \in Bufs => heap[frame[f].data] = s.heap[frame[f].data]
  BY <1>2, <1>4, ContentAssumption
<1>7. frame \in Arrays
  BY <1>1, <1>3 DEF Arrays
<1> HIDE DEF heap, q
<1>8. /\ q \in PoolRecord
      /\ q.size = pl.size /\ q.strategy = pl.strategy /\ q.file = s.file
      /\ q.frame = frame /\ q.heap = heap
  BY <1>2, <1>5, <1>6, <1>7 DEF PoolRecord
<1> QED BY <1>3, <1>6, <1>8 DEF q

-----------------------------------------------------------------------------
(* What a call does to the pool it is made on *)

\* A call that moves no page and touches no empty frame.
LEMMA TouchFramed ==
  ASSUME NEW pl \in PoolRecord, NEW H, Framed(pl, H), NEW m, Beheld(pl, H, m),
         NEW n, NEW v, Views(pl, m, n, v), NEW s \in Pool(n), NEW h,
         s.file.exists,
         \A f \in Frames(n) : /\ s.frame[f].page = v.frame[f].page
                              /\ s.frame[f].data = v.frame[f].data
                              /\ f \notin Occupied(n, v) => s.frame[f] = v.frame[f]
  PROVE  LET q == Left(pl, s, h) IN
         /\ Framed(q, H) /\ Beheld(q, H, m) /\ q.size = pl.size
         /\ Occupied(q.size, q) = Occupied(pl.size, pl)
         /\ \A f \in Frames(pl.size) : /\ q.frame[f].page = pl.frame[f].page
                                       /\ q.frame[f].data = pl.frame[f].data
<1> DEFINE q == Left(pl, s, h)
<1>1. /\ q.size = pl.size /\ q.file = s.file
      /\ q.frame \in [Frames(pl.size) -> Frame]
      /\ \A f \in Frames(pl.size) :
           q.frame[f] = IF f \in Frames(n) THEN s.frame[f] ELSE pl.frame[f]
  BY LeftMembers DEF Framed
<1>2. pl.size \in Nat \ {0}
  BY RecordMembers DEF Views
<1> HIDE DEF q
<1>3. \A f \in Frames(pl.size) :
        /\ q.frame[f].page = pl.frame[f].page
        /\ q.frame[f].data = pl.frame[f].data
        /\ f \notin Occupied(pl.size, pl) => q.frame[f] = pl.frame[f]
  BY <1>1 DEF Views, Occupied
<1>4. Shaped(pl.size, H, q) /\ Occupied(pl.size, q) = Occupied(pl.size, pl)
  BY <1>2, <1>3, ShapeKept DEF Framed
<1>5. Beheld(q, H, m)
  BY <1>1, <1>3, <1>4 DEF Beheld, Occupied
<1>6. Framed(q, H)
  BY <1>1, <1>4 DEF Framed
<1> QED BY <1>1, <1>3, <1>4, <1>5, <1>6 DEF q

\* A pin that finds its page.
LEMMA FoundSound ==
  ASSUME NEW pl \in PoolRecord, NEW H \in SUBSET Pages, NEW m, NEW lt \in Latest,
         Sound(pl, H, m, Nothing, lt),
         NEW n, NEW v, Views(pl, m, n, v), NEW s \in Pool(n), s.file.exists,
         NEW p \in Pages, NEW f \in Frames(n), Found(v, s, f, p),
         s.frame[f].page = p, \A g \in Frames(n) \ {f} : s.frame[g] = v.frame[g],
         NEW h \in Hold, h.page = p, h.data = s.frame[f].data
  PROVE  Sound(Left(pl, s, h), H, m, h, lt)
<1> DEFINE q == Left(pl, s, h)
<1>0. n \in Nat \ {0} /\ Framed(pl, H) /\ Beheld(pl, H, m)
  BY DEF Sound, Views
<1>1. /\ Shaped(n, H, v) /\ f \in Frames(pl.size)
      /\ pl.frame[f].page = p /\ f \in Occupied(n, v) /\ f \in Occupied(pl.size, pl)
  BY <1>0, ViewShaped, NoPageIsNone DEF Views, Found, Occupied
<1>2. /\ Framed(q, H) /\ Beheld(q, H, m) /\ q.size = pl.size
      /\ Occupied(q.size, q) = Occupied(pl.size, pl)
      /\ \A g \in Frames(pl.size) : /\ q.frame[g].page = pl.frame[g].page
                                    /\ q.frame[g].data = pl.frame[g].data
  BY <1>0, <1>1, TouchFramed DEF Views, Found
<1>3. /\ q.file = s.file
      /\ \A g \in Frames(pl.size) :
           q.frame[g] = IF g \in Frames(n) THEN s.frame[g] ELSE pl.frame[g]
      /\ \A g \in Frames(pl.size) :
           q.frame[g].data \in Bufs => q.heap[q.frame[g].data] = s.heap[q.frame[g].data]
  BY <1>0, LeftMembers DEF Framed
<1> HIDE DEF q
<1>4. \A g \in Frames(pl.size) \ {f} : q.frame[g] = pl.frame[g]
  BY <1>3 DEF Views
<1>5. /\ q.frame[f].dirty = pl.frame[f].dirty
      /\ q.frame[f].clientCount = pl.frame[f].clientCount + 1
      /\ q.file = pl.file /\ s.heap = pl.heap
  BY <1>1, <1>3 DEF Views, Found
<1>6. Stays(q, h)
  BY <1>1, <1>2, <1>3 DEF Stays
<1>7. Counted(q, H, h)
  <2> SUFFICES ASSUME NEW g \in Occupied(pl.size, pl), pl.frame[g].page \notin H
               PROVE  q.frame[g].clientCount = IF p = pl.frame[g].page THEN 1 ELSE 0
    BY <1>2 DEF Counted, Occupied
  <2>1. g \in Frames(pl.size) /\ pl.frame[g].page # NoPage
    BY DEF Occupied
  <2>2. pl.frame[g].clientCount = 0
    BY <2>1 DEF Sound, Counted, Nothing
  <2>3. CASE g = f
    BY <1>1, <1>5, <2>2, <2>3
  <2>4. CASE g # f
    <3>1. pl.frame[g].page # p
      BY <1>0, <1>1, <2>4 DEF Framed, Shaped, OneFrameBut
    <3> QED BY <1>4, <2>1, <2>2, <2>4, <3>1
  <2> QED BY <2>3, <2>4
<1>8. \A g \in Occupied(pl.size, pl) : g \in Frames(pl.size) /\ pl.frame[g].data \in Bufs
  BY <1>0, FramedMembers
<1>9. Current(q, H, lt)
  BY <1>2, <1>3, <1>5, <1>8 DEF Sound, Current
<1>10. \A g \in Frames(pl.size) : q.frame[g].dirty = pl.frame[g].dirty
  BY <1>4, <1>5
<1>11. Settled(q, H, lt)
  BY <1>2, <1>5, <1>10 DEF Sound, Settled
<1> QED BY <1>2, <1>6, <1>7, <1>9, <1>11 DEF Sound, q

\* A pin that reads its page into buffer b, for a frame that was empty or that
\* is written back first.
LEMMA TookSound ==
  ASSUME NEW pl \in PoolRecord, NEW H \in SUBSET Pages, NEW m, NEW lt \in Latest,
         Sound(pl, H, m, Nothing, lt),
         NEW n, NEW v, Views(pl, m, n, v), NEW s \in Pool(n), s.file.exists,
         NEW p \in Pages, NEW b \in Bufs, \A g \in Frames(pl.size) : pl.frame[g].data # b,
         NEW u, NEW f \in Frames(n), Took(n, v, s, f, p, b, u),
         s.frame[f].page = p, \A g \in Frames(n) \ {f} : s.frame[g] = v.frame[g],
         NEW h \in Hold, h.page = p, h.data = b
  PROVE  Sound(Left(pl, s, h), H, m, h, lt)
<1> DEFINE q == Left(pl, s, h)
<1>0. /\ n \in Nat \ {0} /\ pl.size \in Nat \ {0} /\ n <= pl.size
      /\ Framed(pl, H) /\ Beheld(pl, H, m)
  BY RecordMembers DEF Sound, Views
<1>1. f \in Frames(pl.size) /\ \A g \in Frames(n) : g \in Frames(pl.size)
  BY <1>0, ViewShaped
<1>2. /\ q.size = pl.size /\ q.file = s.file
      /\ q.frame \in [Frames(pl.size) -> Frame]
      /\ \A g \in Frames(pl.size) :
           q.frame[g] = IF g \in Frames(n) THEN s.frame[g] ELSE pl.frame[g]
      /\ \A g \in Frames(pl.size) :
           q.frame[g].data \in Bufs => q.heap[q.frame[g].data] = s.heap[q.frame[g].data]
  BY <1>0, LeftMembers DEF Framed
<1> HIDE DEF q
<1>3. /\ \A g \in Frames(pl.size) \ {f} : q.frame[g] = pl.frame[g]
      /\ q.frame[f].page = p /\ q.frame[f].data = b /\ ~q.frame[f].dirty
      /\ q.frame[f].clientCount = 1
  BY <1>1, <1>2 DEF Views, Took
<1>4. p # NoPage /\ \A g \in Frames(n) : pl.frame[g].page # p
  BY NoPageIsNone DEF Views, Took, Holding
<1>5. Occupied(pl.size, q) = Occupied(pl.size, pl) \cup {f}
  BY <1>1, <1>3, <1>4 DEF Occupied
<1>6. \A g \in Occupied(pl.size, pl) : /\ g \in Frames(pl.size) /\ pl.frame[g].page \in Pages
                                       /\ pl.frame[g].data \in Bufs \ {b}
  BY <1>0, FramedMembers
\* In the frames the call does not look at there are hidden pages only.
<1>7. \A g \in Occupied(pl.size, pl) : pl.frame[g].page \notin H => pl.frame[g].page # p
  <2> SUFFICES ASSUME NEW g \in Occupied(pl.size, pl), pl.frame[g].page \notin H
               PROVE  g \in Frames(n)
    BY <1>4
  <2>1. g < m
    BY <1>0 DEF Beheld
  <2>2. g \in Frames(pl.size)
    BY <1>6
  <2> QED BY <1>0, <2>1, <2>2 DEF Views, Frames
<1>8. Shaped(pl.size, H, q)
  <2>1. \A g \in Frames(pl.size) : g < f => g \in Occupied(pl.size, pl)
    BY <1>0, <1>1 DEF Took, Views, Occupied, Frames
  <2>2. OccupiedIsPrefix(pl.size, q)
    BY <1>0, <1>5, <2>1, <1>6 DEF Framed, Shaped, OccupiedIsPrefix
  <2>3. OneFrameBut(pl.size, H, q)
    BY <1>0, <1>3, <1>5, <1>6, <1>7 DEF Framed, Shaped, OneFrameBut
  <2>4. OneBufferPerFrame(pl.size, q)
    BY <1>0, <1>3, <1>5, <1>6 DEF Framed, Shaped, OneBufferPerFrame
  <2>5. EmptyIsBlank(pl.size, q)
    BY <1>0, <1>3, <1>5, NullAssumption DEF Framed, Shaped, EmptyIsBlank
  <2> QED BY <2>2, <2>3, <2>4, <2>5 DEF Shaped
<1>9. Framed(q, H)
  BY <1>2, <1>8 DEF Framed
<1>10. Beheld(q, H, m)
  <2>1. f < m
    BY <1>0 DEF Views, Frames
  <2> QED BY <1>0, <1>2, <1>3, <1>5, <1>6, <2>1 DEF Beheld
<1>11. Stays(q, h)
  BY <1>1, <1>2, <1>3 DEF Stays
<1>12. Counted(q, H, h)
  <2> SUFFICES ASSUME NEW g \in Occupied(pl.size, q), q.frame[g].page \notin H
               PROVE  q.frame[g].clientCount = IF p = q.frame[g].page THEN 1 ELSE 0
    BY <1>2 DEF Counted
  <2>1. CASE g = f
    BY <1>3, <2>1
  <2>2. CASE g # f
    <3>1. g \in Occupied(pl.size, pl) /\ q.frame[g] = pl.frame[g]
      BY <1>3, <1>5, <1>6, <2>2
    <3>2. pl.frame[g].page # NoPage /\ pl.frame[g].clientCount = 0
      BY <3>1 DEF Sound, Counted, Nothing, Occupied
    <3> QED BY <1>7, <3>1, <3>2
  <2> QED BY <2>1, <2>2
<1>13. /\ pl.heap \in [Bufs -> Content] /\ pl.file \in FileValue
       /\ pl.file.size \in Int
  BY RecordMembers, FileMembers
<1>14. /\ s.heap[b] = IF p < pl.file.size THEN pl.file.block[p] ELSE u.content
       /\ \A x \in Bufs \ {b} : s.heap[x] = pl.heap[x]
  BY <1>13 DEF Views, Took
<1>15. q.file = IF pl.frame[f].dirty
                THEN WriteAt(pl.file, pl.frame[f].page, pl.heap[pl.frame[f].data])
                ELSE pl.file
  BY <1>2 DEF Views, Took
<1>16. pl.frame[f].dirty => f \in Occupied(pl.size, pl)
  BY <1>0, <1>1 DEF Framed, Shaped, EmptyIsBlank, EmptyFrame
<1>17. Current(q, H, lt)
  <2> SUFFICES ASSUME NEW g \in Occupied(pl.size, q), NEW x, x = q.frame[g].page,
                      x \notin H, lt[x] # Unwritten
               PROVE  q.heap[q.frame[g].data] = lt[x]
    BY <1>2 DEF Current
  <2>1. CASE g = f
    <3>1. \A k \in Frames(pl.size) : pl.frame[k].page # p
      BY <1>3, <1>4, <1>7, <2>1 DEF Occupied
    <3>2. OnFile(pl.file)[p] = lt[p]
      BY <1>3, <2>1, <3>1 DEF Sound, Settled
    <3>3. p < pl.file.size /\ pl.file.block[p] = lt[p]
      BY <1>3, <2>1, <3>2 DEF OnFile
    <3> QED BY <1>1, <1>2, <1>3, <1>14, <2>1, <3>3
  <2>2. CASE g # f
    <3>1. g \in Occupied(pl.size, pl) /\ q.frame[g] = pl.frame[g]
      BY <1>3, <1>5, <1>6, <2>2
    <3>2. pl.heap[pl.frame[g].data] = lt[x]
      BY <3>1 DEF Sound, Current
    <3> QED BY <1>2, <1>6, <1>14, <3>1, <3>2
  <2> QED BY <2>1, <2>2
<1>18. Settled(q, H, lt)
  <2> SUFFICES ASSUME NEW x \in Pages \ H, lt[x] # Unwritten
               PROVE  \/ OnFile(q.file)[x] = lt[x]
                      \/ \E g \in Frames(pl.size) : q.frame[g].page = x /\ q.frame[g].dirty
    BY <1>2 DEF Settled
  <2>1. \/ OnFile(pl.file)[x] = lt[x]
        \/ \E g \in Frames(pl.size) : pl.frame[g].page = x /\ pl.frame[g].dirty
    BY DEF Sound, Settled
  <2>2. CASE ~pl.frame[f].dirty
    BY <1>3, <1>15, <2>1, <2>2
  <2>3. CASE pl.frame[f].dirty
    <3>1. /\ f \in Occupied(pl.size, pl) /\ pl.frame[f].page \in Pages
          /\ pl.heap[pl.frame[f].data] \in Content
      BY <1>6, <1>13, <1>16, <2>3
    <3>2. CASE pl.frame[f].page = x
      <4>1. pl.heap[pl.frame[f].data] = lt[x]
        BY <3>1, <3>2 DEF Sound, Current
      <4>2. OnFile(q.file)[x] = pl.heap[pl.frame[f].data]
        BY <1>13, <1>15, <2>3, <3>1, <3>2, WriteAtHas DEF OnFile
      <4> QED BY <4>1, <4>2
    <3>3. CASE pl.frame[f].page # x
      <4>1. OnFile(pl.file)[x] = lt[x] => OnFile(q.file)[x] = lt[x]
        BY <1>13, <1>15, <2>3, <3>1, <3>3, WriteAtHas DEF OnFile
      <4> QED BY <1>3, <2>1, <3>3, <4>1
    <3> QED BY <3>2, <3>3
  <2> QED BY <2>2, <2>3
<1> QED BY <1>9, <1>10, <1>11, <1>12, <1>17, <1>18 DEF Sound, q

\* The caller stores c through the pointer it holds and marks the page.
LEMMA StoredSound ==
  ASSUME NEW pl \in PoolRecord, NEW H \in SUBSET Pages, NEW m, NEW lt \in Latest,
         NEW h \in Hold, h # Nothing, Sound(pl, H, m, h, lt),
         NEW n, NEW v, Views(pl, m, n, v), NEW c \in Content,
         NEW s, s = MarkDirty(n, [v EXCEPT !.heap[h.data] = c], h.page)
  PROVE  /\ s \in Pool(n) /\ (Running(v) => Running(s))
         /\ Sound(Left(pl, s, h), H, m, h, [lt EXCEPT ![h.page] = c])
<1> DEFINE q == Left(pl, s, h)
           lt2 == [lt EXCEPT ![h.page] = c]
           heap == [v.heap EXCEPT ![h.data] = c]
           w == [v EXCEPT !.heap = heap]
<1>0. /\ n \in Nat \ {0} /\ pl.size \in Nat \ {0}
      /\ Framed(pl, H) /\ Beheld(pl, H, m)
      /\ pl.heap \in [Bufs -> Content]
  BY RecordMembers DEF Sound, Views
<1>1. PICK k \in Frames(pl.size) : pl.frame[k].page = h.page /\ pl.frame[k].data = h.data
  BY DEF Sound, Stays
<1>2. h.page \in Pages /\ k \in Occupied(pl.size, pl) /\ h.data \in Bufs
  <2>1. h.page \in Pages
    BY DEF Sound, Stays
  <2>2. k \in Occupied(pl.size, pl)
    BY <1>1, <2>1, NoPageIsNone DEF Occupied
  <2> QED BY <1>0, <1>1, <2>1, <2>2, FramedMembers
<1>3. heap \in [Bufs -> Content]
  BY <1>0 DEF Views
<1> HIDE DEF heap
<1>4. w \in Pool(n) /\ w.heap = heap /\ w.file = v.file /\ w.frame = v.frame
      /\ w.status = v.status
  BY <1>0, <1>3, SetHeap DEF Views, Pool
<1>5. s = MarkDirty(n, w, h.page)
  BY DEF heap
<1> HIDE DEF w
<1>6. Shaped(n, H, v) /\ Shaped(n, H, w)
  BY <1>0, <1>4, ViewShaped, ShapeOfFrames
<1>7. s \in Pool(n)
  BY <1>0, <1>2, <1>4, <1>5, <1>6, MarkDirtyGood DEF Good
<1>8. /\ s.heap = heap /\ s.file = pl.file /\ s.status = v.status
      /\ \A f \in Frames(n) :
           /\ s.frame[f].page = v.frame[f].page /\ s.frame[f].data = v.frame[f].data
           /\ s.frame[f].clientCount = v.frame[f].clientCount
           /\ v.frame[f].dirty => s.frame[f].dirty
           /\ f \notin Occupied(n, v) => s.frame[f] = v.frame[f]
      /\ Holding(n, v, h.page) # {} =>
           \E f \in Frames(n) : v.frame[f].page = h.page /\ s.frame[f].dirty
  <2>1. Holding(n, w, h.page) = Holding(n, v, h.page) /\ Occupied(n, w) = Occupied(n, v)
    BY <1>4 DEF Holding, Occupied
  <2>2. w.file = pl.file
    BY <1>4 DEF Views
  <2> QED BY <1>0, <1>2, <1>4, <1>5, <2>1, <2>2, MarkEffect
<1>9. /\ Framed(q, H) /\ Beheld(q, H, m) /\ q.size = pl.size
      /\ Occupied(q.size, q) = Occupied(pl.size, pl)
      /\ \A g \in Frames(pl.size) : /\ q.frame[g].page = pl.frame[g].page
                                    /\ q.frame[g].data = pl.frame[g].data
  <2>1. s.file.exists
    BY <1>0, <1>8 DEF Framed
  <2>2. \A f \in Frames(n) : /\ s.frame[f].page = v.frame[f].page
                             /\ s.frame[f].data = v.frame[f].data
                             /\ f \notin Occupied(n, v) => s.frame[f] = v.frame[f]
    BY <1>8
  <2> QED BY <1>0, <1>7, <2>1, <2>2, TouchFramed
<1>10. /\ q.file = pl.file
       /\ \A g \in Frames(pl.size) :
            q.frame[g] = IF g \in Frames(n) THEN s.frame[g] ELSE pl.frame[g]
       /\ \A g \in Frames(pl.size) :
            q.frame[g].data \in Bufs => q.heap[q.frame[g].data] = heap[q.frame[g].data]
  BY <1>0, <1>7, <1>8, LeftMembers DEF Framed
<1> HIDE DEF q
<1>11. \A g \in Frames(pl.size) : /\ q.frame[g].clientCount = pl.frame[g].clientCount
                                  /\ pl.frame[g].dirty => q.frame[g].dirty
  BY <1>8, <1>10 DEF Views
<1>12. Stays(q, h)
  BY <1>1, <1>2, <1>9 DEF Stays
<1>13. Counted(q, H, h)
  BY <1>9, <1>11 DEF Sound, Counted, Occupied
<1>14. heap[h.data] = c /\ \A x \in Bufs \ {h.data} : heap[x] = pl.heap[x]
  BY <1>0, <1>2 DEF heap, Views
<1>15. lt2[h.page] = c /\ \A x \in Pages \ {h.page} : lt2[x] = lt[x]
  BY <1>2 DEF Latest
<1>16. Current(q, H, lt2)
  <2> SUFFICES ASSUME NEW g \in Occupied(pl.size, pl), NEW x, x = pl.frame[g].page,
                      x \notin H, lt2[x] # Unwritten
               PROVE  q.heap[q.frame[g].data] = lt2[x]
    BY <1>9 DEF Current, Occupied
  <2>1. g \in Frames(pl.size) /\ x \in Pages /\ pl.frame[g].data \in Bufs
    BY <1>0, FramedMembers
  <2>2. q.heap[q.frame[g].data] = heap[pl.frame[g].data]
    BY <1>9, <1>10, <2>1
  <2>3. CASE x = h.page
    <3>1. g = k
      BY <1>0, <1>1, <1>2, <2>3 DEF Framed, Shaped, OneFrameBut
    <3> QED BY <1>1, <1>14, <1>15, <2>2, <2>3, <3>1
  <2>4. CASE x # h.page
    <3>1. pl.frame[g].data # h.data
      BY <1>0, <1>1, <1>2, <2>4 DEF Framed, Shaped, OneBufferPerFrame
    <3>2. pl.heap[pl.frame[g].data] = lt[x]
      BY <1>15, <2>1, <2>4 DEF Sound, Current
    <3> QED BY <1>14, <1>15, <2>1, <2>2, <2>4, <3>1, <3>2
  <2> QED BY <2>3, <2>4
<1>17. Settled(q, H, lt2)
  <2> SUFFICES ASSUME NEW x \in Pages \ H, lt2[x] # Unwritten
               PROVE  \/ OnFile(pl.file)[x] = lt2[x]
                      \/ \E g \in Frames(pl.size) : q.frame[g].page = x /\ q.frame[g].dirty
    BY <1>9, <1>10 DEF Settled
  <2>1. CASE x = h.page
    <3>1. k < m
      BY <1>0, <1>1, <1>2, <2>1 DEF Beheld
    <3>2. k \in Frames(n) /\ \A g \in Frames(n) : g \in Frames(pl.size)
      BY <1>0, <3>1 DEF Views, Frames
    <3>3. Holding(n, v, h.page) # {}
      BY <1>1, <3>2 DEF Holding, Views
    <3>4. PICK f \in Frames(n) : v.frame[f].page = h.page /\ s.frame[f].dirty
      BY <1>8, <3>3
    <3> QED BY <1>8, <1>10, <2>1, <3>2, <3>4
  <2>2. CASE x # h.page
    BY <1>9, <1>11, <1>15, <2>2 DEF Sound, Settled
  <2> QED BY <2>1, <2>2
<1> QED BY <1>7, <1>8, <1>9, <1>12, <1>13, <1>16, <1>17 DEF Sound, q, Running

\* The caller gives its page back.
LEMMA UnpinnedSound ==
  ASSUME NEW pl \in PoolRecord, NEW H \in SUBSET Pages, NEW m, NEW lt \in Latest,
         NEW h \in Hold, h # Nothing, Sound(pl, H, m, h, lt),
         NEW n, NEW v, Views(pl, m, n, v),
         NEW s, s = UnpinPage(n, v, h.page)
  PROVE  /\ s \in Pool(n) /\ (Running(v) => Running(s))
         /\ Sound(Left(pl, s, Nothing), H, m, Nothing, lt)
<1> DEFINE q == Left(pl, s, Nothing)
<1>0. /\ n \in Nat \ {0} /\ pl.size \in Nat \ {0} /\ v \in Pool(n)
      /\ Framed(pl, H) /\ Beheld(pl, H, m) /\ h.page \in Pages
  BY RecordMembers DEF Sound, Views, Stays
<1>1. Shaped(n, H, v)
  BY <1>0, ViewShaped
<1>2. s \in Pool(n)
  BY <1>0, <1>1, UnpinPageGood DEF Good
<1>3. /\ s.heap = pl.heap /\ s.file = pl.file /\ s.status = v.status
      /\ \A f \in Frames(n) :
           /\ s.frame[f].page = v.frame[f].page /\ s.frame[f].data = v.frame[f].data
           /\ s.frame[f].dirty = v.frame[f].dirty
           /\ v.frame[f].page # h.page => s.frame[f] = v.frame[f]
      /\ \E f \in Frames(n) :
           /\ \A g \in Frames(n) \ {f} : s.frame[g] = v.frame[g]
           /\ Holding(n, v, h.page) # {} =>
                /\ v.frame[f].page = h.page
                /\ s.frame[f].clientCount = v.frame[f].clientCount - 1
  BY <1>0, UnpinEffect DEF Views
<1>4. /\ Framed(q, H) /\ Beheld(q, H, m) /\ q.size = pl.size
      /\ Occupied(q.size, q) = Occupied(pl.size, pl)
      /\ \A g \in Frames(pl.size) : /\ q.frame[g].page = pl.frame[g].page
                                    /\ q.frame[g].data = pl.frame[g].data
  <2>1. s.file.exists
    BY <1>0, <1>3 DEF Framed
  <2>2. \A f \in Frames(n) : /\ s.frame[f].page = v.frame[f].page
                             /\ s.frame[f].data = v.frame[f].data
                             /\ f \notin Occupied(n, v) => s.frame[f] = v.frame[f]
    BY <1>0, <1>3, NoPageIsNone DEF Occupied
  <2> QED BY <1>0, <1>2, <2>1, <2>2, TouchFramed
<1>5. /\ q.file = pl.file
      /\ \A g \in Frames(pl.size) :
           q.frame[g] = IF g \in Frames(n) THEN s.frame[g] ELSE pl.frame[g]
      /\ \A g \in Frames(pl.size) :
           q.frame[g].data \in Bufs => q.heap[q.frame[g].data] = pl.heap[q.frame[g].data]
  BY <1>0, <1>2, <1>3, LeftMembers DEF Framed
<1> HIDE DEF q
<1>6. \A g \in Frames(pl.size) : q.frame[g].dirty = pl.frame[g].dirty
  BY <1>3, <1>5 DEF Views
<1>7. Stays(q, Nothing)
  BY DEF Stays
<1>8. Counted(q, H, Nothing)
  <2> SUFFICES ASSUME NEW g \in Occupied(pl.size, pl), pl.frame[g].page \notin H
               PROVE  q.frame[g].clientCount = 0
    BY <1>4, NoPageIsNone DEF Counted, Nothing, Occupied
  <2>1. g \in Frames(pl.size) /\ g < m
    BY <1>0 DEF Occupied, Beheld
  <2>2. g \in Frames(n)
    BY <1>0, <2>1 DEF Views, Frames
  <2>3. q.frame[g] = s.frame[g] /\ v.frame[g] = pl.frame[g]
    BY <1>5, <2>1, <2>2 DEF Views
  <2>4. CASE pl.frame[g].page # h.page
    BY <1>3, <2>2, <2>3, <2>4 DEF Sound, Counted
  <2>5. CASE pl.frame[g].page = h.page
    <3>1. PICK f \in Frames(n) :
            /\ \A x \in Frames(n) \ {f} : s.frame[x] = v.frame[x]
            /\ Holding(n, v, h.page) # {} =>
                 /\ v.frame[f].page = h.page
                 /\ s.frame[f].clientCount = v.frame[f].clientCount - 1
      BY <1>3
    <3>2. Holding(n, v, h.page) # {}
      BY <2>2, <2>3, <2>5 DEF Holding
    <3>3. g \in Occupied(n, v) /\ f \in Occupied(n, v)
      BY <1>0, <2>2, <2>3, <2>5, <3>1, <3>2, NoPageIsNone DEF Occupied
    <3>4. f = g
      BY <1>1, <2>3, <2>5, <3>1, <3>2, <3>3 DEF Shaped, OneFrameBut
    <3>5. pl.frame[g].clientCount = 1
      BY <2>5 DEF Sound, Counted
    <3> QED BY <2>3, <3>1, <3>2, <3>4, <3>5
  <2> QED BY <2>4, <2>5
<1>9. Current(q, H, lt)
  <2>1. \A g \in Occupied(pl.size, pl) : g \in Frames(pl.size) /\ pl.frame[g].data \in Bufs
    BY <1>0, FramedMembers
  <2> QED BY <1>4, <1>5, <2>1 DEF Sound, Current
<1>10. Settled(q, H, lt)
  BY <1>4, <1>5, <1>6 DEF Sound, Settled
<1> QED BY <1>2, <1>3, <1>4, <1>7, <1>8, <1>9, <1>10 DEF Sound, q, Running

\* The caller shuts the pool down, and the flush looks at all of its frames or
\* leaves out hidden pages only.
LEMMA ClosedSound ==
  ASSUME NEW pl \in PoolRecord, NEW H \in SUBSET Pages, NEW m, NEW lt \in Latest,
         Sound(pl, H, m, Nothing, lt),
         NEW n, NEW v, Views(pl, m, n, v), NEW s, s = ShutdownBufferPool(n, v),
         s.status # "crashed"
  PROVE  /\ s \in Pool(n) /\ Closed(s.file) \in PoolRecord
         /\ Sound(Closed(s.file), H, m, Nothing, lt)
<1> DEFINE q == Closed(s.file)
<1>0. /\ n \in Nat \ {0} /\ pl.size \in Nat \ {0} /\ v \in Pool(n)
      /\ Framed(pl, H) /\ Beheld(pl, H, m)
  BY RecordMembers DEF Sound, Views
<1>1. Shaped(n, H, v) /\ \A f \in Frames(n) : f \in Frames(pl.size)
  BY <1>0, ViewShaped
<1>2. s \in Pool(n) /\ s.file \in FileValue
  BY <1>0, <1>1, ForceFlushPoolGood, PoolMembers DEF Good, ShutdownBufferPool
<1>3. PICK W \in SUBSET Frames(n) :
        /\ s.file.exists = v.file.exists
        /\ v.file.size <= s.file.size
        /\ \A f \in Frames(n) : s.frame[f].dirty = (v.frame[f].dirty /\ f \notin W)
        /\ \A f \in W : /\ f \in Occupied(n, v)
                        /\ v.frame[f].page < s.file.size
                        /\ v.frame[f].page \notin H =>
                             s.file.block[v.frame[f].page] = v.heap[v.frame[f].data]
        /\ \A p \in Pages : \/ s.file.block[p] = v.file.block[p]
                            \/ \E f \in W : v.frame[f].page = p
        /\ \A f \in Frames(n) : v.frame[f].clientCount = 0 => ~s.frame[f].dirty
  <2>1. s = ForceFlushPool(n, v)
    BY DEF ShutdownBufferPool
  <2> QED BY <1>0, <1>1, <2>1, FlushEffect
<1>4. /\ q.size = 0 /\ q.file = s.file /\ q.frame = [f \in {} |-> {}]
      /\ q \in PoolRecord /\ Frames(0) = {}
  <2>1. Frames(0) = {}
    BY DEF Frames
  <2>2. [f \in {} |-> {}] \in [Frames(0) -> Frame]
    BY <2>1
  <2>3. [f \in {} |-> {}] \in Arrays
    BY <2>2 DEF Arrays
  <2> QED BY <1>2, <2>1, <2>3, ContentAssumption DEF Closed, PoolRecord, Strategies
<1> HIDE DEF q
<1>5. Framed(q, H)
  <2>1. q.frame \in [Frames(0) -> Frame]
    BY <1>4
  <2>2. Occupied(0, q) = {}
    BY <1>4 DEF Occupied
  <2>3. Shaped(0, H, q)
    BY <1>4, <2>2 DEF Shaped, OccupiedIsPrefix, OneFrameBut, OneBufferPerFrame,
                      EmptyIsBlank
  <2> QED BY <1>0, <1>3, <1>4, <2>1, <2>3 DEF Framed, Views
<1>6. Beheld(q, H, m) /\ Stays(q, Nothing) /\ Counted(q, H, Nothing) /\ Current(q, H, lt)
  BY <1>4 DEF Beheld, Stays, Counted, Current, Occupied
<1>7. Settled(q, H, lt)
  <2> SUFFICES ASSUME NEW p \in Pages \ H, lt[p] # Unwritten
               PROVE  OnFile(s.file)[p] = lt[p]
    BY <1>4 DEF Settled
  <2>1. ASSUME NEW f \in W, v.frame[f].page = p
        PROVE  OnFile(s.file)[p] = lt[p]
    <3>1. f \in Occupied(pl.size, pl) /\ pl.frame[f].page = p /\ f \in Frames(n)
      BY <1>1, <1>3, <2>1 DEF Occupied, Views
    <3>2. pl.heap[pl.frame[f].data] = lt[p]
      BY <3>1 DEF Sound, Current
    <3>3. p < s.file.size /\ s.file.block[p] = lt[p]
      BY <1>3, <2>1, <3>1, <3>2 DEF Views
    <3> QED BY <3>3 DEF OnFile
  <2>2. CASE OnFile(pl.file)[p] = lt[p]
    <3>1. p < v.file.size /\ v.file.block[p] = lt[p]
      BY <2>2 DEF OnFile, Views
    <3>2. p < s.file.size
      <4>1. v.file.size \in Int /\ s.file.size \in Int /\ p \in Int
        BY <1>0, <1>2, PoolMembers, FileMembers DEF Pages
      <4> QED BY <1>3, <3>1, <4>1
    <3>3. CASE s.file.block[p] = v.file.block[p]
      BY <3>1, <3>2, <3>3 DEF OnFile
    <3> QED BY <1>3, <2>1, <3>3
  <2>3. ASSUME NEW f \in Frames(pl.size), pl.frame[f].page = p, pl.frame[f].dirty
        PROVE  OnFile(s.file)[p] = lt[p]
    <3>1. f \in Occupied(pl.size, pl)
      BY <2>3, NoPageIsNone DEF Occupied
    <3>2. f < m
      BY <1>0, <2>3, <3>1 DEF Beheld
    <3>3. f \in Frames(n)
      BY <1>0, <3>2 DEF Views, Frames
    <3>4. pl.frame[f].clientCount = 0
      BY <2>3, <3>1, NoPageIsNone DEF Sound, Counted, Nothing
    <3>5. f \in W
      BY <1>3, <2>3, <3>3, <3>4 DEF Views
    <3> QED BY <2>1, <2>3, <3>3, <3>5 DEF Views
  <2> QED BY <2>2, <2>3 DEF Sound, Settled
<1> QED BY <1>2, <1>4, <1>5, <1>6, <1>7 DEF Sound, q

\* A pool is opened: it is the caller's to use, ...
LEMMA OpenedSound ==
  ASSUME NEW pl \in PoolRecord, NEW H \in SUBSET Pages, NEW m, NEW lt \in Latest,
         NEW h, Sound(pl, H, m, h, lt), pl.size = 0,
         NEW n \in Nat \ {0}, NEW strategy \in Strategies, NEW q,
         q = [pl EXCEPT !.size = n, !.strategy = strategy,
                        !.frame = [f \in 0 .. n - 1 |-> EmptyFrame]]
  PROVE  q \in PoolRecord /\ Sound(q, H, n, h, lt)
<1> DEFINE frame == [f \in 0 .. n - 1 |-> EmptyFrame]
<1>1. frame \in [Frames(n) -> Frame] /\ \A f \in Frames(n) : frame[f] = EmptyFrame
  BY EmptyFrameType DEF Frames
<1>2. frame \in Arrays
  BY <1>1 DEF Arrays
<1> HIDE DEF frame
<1>3. /\ q \in PoolRecord /\ q.size = n /\ q.frame = frame
      /\ q.file = pl.file /\ q.heap = pl.heap
  BY <1>2 DEF PoolRecord, frame
<1>4. Occupied(n, q) = {}
  BY <1>1, <1>3 DEF Occupied, EmptyFrame
<1>5. Shaped(n, H, q)
  BY <1>1, <1>3, <1>4 DEF Shaped, OccupiedIsPrefix, OneFrameBut, OneBufferPerFrame,
                          EmptyIsBlank
<1>6. Framed(q, H)
  BY <1>1, <1>3, <1>5 DEF Framed, Sound
<1>7. h = Nothing
  BY DEF Sound, Stays, Frames
<1>8. Beheld(q, H, n) /\ Stays(q, h) /\ Counted(q, H, h) /\ Current(q, H, lt)
  BY <1>3, <1>4, <1>7 DEF Beheld, Stays, Counted, Current
<1>9. Settled(q, H, lt)
  BY <1>3 DEF Sound, Settled, Frames
<1> QED BY <1>3, <1>6, <1>8, <1>9 DEF Sound

\* ... and some frames of the others may be out of the calls' sight.
LEMMA HiddenSound ==
  ASSUME NEW pl \in PoolRecord, NEW H \in SUBSET Pages, NEW m, NEW lt \in Latest,
         NEW h, Sound(pl, H, m, h, lt), NEW n \in Nat \ {0}
  PROVE  /\ H \cup Beyond(pl, n) \in SUBSET Pages
         /\ Sound(pl, H \cup Beyond(pl, n), n, h, lt)
<1> DEFINE K == H \cup Beyond(pl, n)
<1>1. Framed(pl, H) /\ pl.frame \in [Frames(pl.size) -> Frame] /\ pl.size \in Nat
  BY RecordMembers DEF Sound, Framed
<1>2. \A f \in Frames(pl.size) : pl.frame[f].page \in Pages \cup {NoPage}
  BY <1>1, FrameMembers
<1>3. K \in SUBSET Pages
  BY <1>1, <1>2 DEF Beyond
<1>4. \A f \in Occupied(pl.size, pl) : pl.frame[f].page \notin K => f < n
  BY <1>1 DEF Beyond, Occupied, Frames
<1> HIDE DEF K
<1>5. H \subseteq K
  BY DEF K
<1>6. Framed(pl, K)
  BY <1>1, <1>5 DEF Framed, Shaped, OneFrameBut
<1>7. Beheld(pl, K, n)
  BY <1>4 DEF Beheld
<1>8. Stays(pl, h) /\ Counted(pl, K, h) /\ Current(pl, K, lt) /\ Settled(pl, K, lt)
  BY <1>5 DEF Sound, Counted, Current, Settled
<1> QED BY <1>3, <1>6, <1>7, <1>8 DEF Sound, K

-----------------------------------------------------------------------------
(* The invariant is inductive *)

LEMMA InitIInv == Init => IInv
<1> SUFFICES ASSUME Init PROVE IInv
  OBVIOUS
<1>1. CreatedFile \in FileValue /\ CreatedFile.exists /\ CreatedFile.size = 1
  BY ContentAssumption, LastPageAssumption DEF CreatedFile, FileValue
<1> DEFINE c == Closed(CreatedFile)
           lt == OnFile(CreatedFile)
<1>2. lt \in Latest
  BY <1>1, ContentAssumption DEF OnFile, Latest, FileValue
<1>3. c.size = 0 /\ c.file = CreatedFile /\ c.frame = [f \in {} |-> {}]
  BY DEF Closed
<1>4. Frames(0) = {}
  BY DEF Frames
<1>5. c.frame \in [Frames(0) -> Frame] /\ c.frame \in Arrays
  <2>1. c.frame \in [Frames(0) -> Frame]
    BY <1>3, <1>4
  <2> QED BY <2>1 DEF Arrays
<1>6. c \in PoolRecord
  BY <1>1, <1>5, ContentAssumption DEF Closed, PoolRecord, Strategies
<1> HIDE DEF c, lt
<1>7. Framed(c, {})
  <2>1. Occupied(0, c) = {}
    BY <1>4 DEF Occupied
  <2>2. Shaped(0, {}, c)
    BY <1>4, <2>1 DEF Shaped, OccupiedIsPrefix, OneFrameBut, OneBufferPerFrame,
                      EmptyIsBlank
  <2> QED BY <1>1, <1>3, <1>5, <2>2 DEF Framed
<1>8. Sound(c, {}, 0, Nothing, lt)
  <2>1. Occupied(0, c) = {}
    BY <1>4 DEF Occupied
  <2>2. Settled(c, {}, lt)
    BY <1>3 DEF Settled, lt
  <2> QED BY <1>3, <1>7, <2>1, <2>2 DEF Sound, Beheld, Stays, Counted, Current
<1>9. Nothing \in Hold
  BY DEF Nothing, Hold
<1>10. pageInfo \in Info /\ pageInfo.maxPgFrs = 0
  BY StreamsAssumption DEF Init, Info
<1>11. TypeOK
  BY <1>2, <1>6, <1>9, <1>10 DEF Init, TypeOK, c, lt
<1>12. \A i \in PoolIds : /\ pools[i] = c /\ hidden[i] = {} /\ held[i] = Nothing
                          /\ latest[i] = lt
  BY DEF Init, c, lt
<1> QED BY <1>8, <1>10, <1>11, <1>12 DEF IInv

\* Where a call ends the process, or it is followed no further, nothing else
\* is changed.
LEMMA StoppedIInv ==
  ASSUME IInv, alive' \in {"running", "astray", "ended"},
         UNCHANGED <<pageInfo, pools, held, latest, hidden>>
  PROVE  IInv'
BY DEF IInv, TypeOK

\* A call that returns changes one pool, and of pageInfo what decides nothing
\* for the others.
LEMMA LeavesIInv ==
  ASSUME IInv, NEW i \in PoolIds, Open(i), NEW s \in Pool(Seen(i)), NEW h \in Hold,
         Leaves(i, s, h), s.status # "crashed",
         alive' \in {"running", "astray", "ended"}, UNCHANGED hidden,
         latest' \in [PoolIds -> Latest],
         \A j \in PoolIds \ {i} : latest'[j] = latest[j],
         Sound(Left(pools[i], s, h), hidden[i], pageInfo.maxPgFrs, h, latest'[i])
  PROVE  IInv'
<1> DEFINE q == Left(pools[i], s, h)
<1>1. /\ pageInfo \in Info /\ pools \in [PoolIds -> PoolRecord]
      /\ held \in [PoolIds -> Hold] /\ hidden \in [PoolIds -> SUBSET Pages]
  BY DEF IInv, TypeOK
<1>2. Views(pools[i], pageInfo.maxPgFrs, Seen(i), View(i))
  BY ViewOfPool
<1>3. Seen(i) \in Nat \ {0}
  BY <1>2 DEF Views
<1>4. q \in PoolRecord
  <2>1. pools[i].frame \in [Frames(pools[i].size) -> Frame]
    BY DEF IInv, Sound, Framed
  <2>2. pools[i] \in PoolRecord
    BY <1>1
  <2> QED BY <1>2, <2>1, <2>2, LeftMembers
<1>5. /\ s.streams \in 0 .. MaxStreams /\ s.pageCounter \in Nat /\ s.lastPg \in Nat
      /\ s.lastEntry \in Nat /\ s.lastPtr \in Nat
  BY <1>3, PoolMembers
<1>6. /\ pageInfo' = [pageInfo EXCEPT
           !.pageCounter = s.pageCounter, !.lastPg = s.lastPg,
           !.lastEntry = s.lastEntry, !.lastPtr = s.lastPtr,
           !.streams = s.streams]
      /\ pools' = [pools EXCEPT ![i] = q]
      /\ held' = [held EXCEPT ![i] = h]
  BY DEF Leaves
<1> HIDE DEF q
<1>7. pageInfo' \in Info /\ pageInfo'.maxPgFrs = pageInfo.maxPgFrs
  BY <1>1, <1>5, <1>6 DEF Info
<1>8. TypeOK'
  BY <1>1, <1>4, <1>6, <1>7 DEF TypeOK
<1>9. Sound(pools'[i], hidden'[i], pageInfo'.maxPgFrs, held'[i], latest'[i])
  BY <1>1, <1>6, <1>7 DEF q
<1>10. ASSUME NEW j \in PoolIds, j # i
       PROVE  Sound(pools'[j], hidden'[j], pageInfo'.maxPgFrs, held'[j], latest'[j])
  <2>1. /\ pools'[j] = pools[j] /\ held'[j] = held[j] /\ latest'[j] = latest[j]
        /\ hidden'[j] = hidden[j]
    BY <1>1, <1>6, <1>10
  <2> QED BY <1>7, <2>1 DEF IInv
<1> QED BY <1>8, <1>9, <1>10 DEF IInv

\* What pinPage does to the pool it is called on, where it is not lost.
LEMMA PinLeaves ==
  ASSUME IInv, NEW i \in PoolIds, Open(i), held[i] = Nothing, NEW p \in Pages,
         NEW b \in Bufs \ Used(pools[i].frame, Null), NEW u \in Undefined,
         \/ Holding(Seen(i), View(i), p) # {}
         \/ pageInfo.streams # MaxStreams,
         NEW s, s = PinPage(Seen(i), View(i), p, b, u)
  PROVE  LET h == [page |-> p, data |-> PinnedData(Seen(i), View(i), p, b)] IN
         /\ h \in Hold
         /\ s \in Pool(Seen(i))
         /\ s.status \in {"running", "crashed"}
         /\ Running(s) /\ Holding(Seen(i), s, p) # {} =>
              Sound(Left(pools[i], s, h), hidden[i], pageInfo.maxPgFrs, h, latest[i])
<1> DEFINE pl == pools[i]
           H == hidden[i]
           m == pageInfo.maxPgFrs
           n == Seen(i)
           v == View(i)
           h == [page |-> p, data |-> PinnedData(n, v, p, b)]
<1>1. /\ Views(pl, m, n, v) /\ Running(v) /\ v.streams = pageInfo.streams
      /\ Shaped(n, H, v)
  BY ViewOfPool
<1>2. /\ pl \in PoolRecord /\ pageInfo \in Info /\ H \in SUBSET Pages
      /\ latest[i] \in Latest
      /\ Sound(pl, H, m, Nothing, latest[i])
  BY DEF IInv, TypeOK
<1>3. n \in Nat \ {0} /\ v \in Pool(n) /\ v.file = pl.file /\ pl.file.exists
  BY <1>1, <1>2 DEF Views, Sound, Framed
<1>4. \A g \in Frames(pl.size) : pl.frame[g].data # b
  <2>1. DOMAIN pl.frame = Frames(pl.size)
    BY <1>2 DEF Sound, Framed
  <2> QED BY <2>1 DEF Used
<1> HIDE DEF n, v, pl, H, m
<1>5. \A g \in Frames(n) : v.frame[g].data # b
  BY <1>1, <1>2, <1>4, ViewShaped DEF Views, Sound
<1>6. s = PinPage(n, v, p, b, u) /\ s \in Pool(n)
  <2>1. s = PinPage(n, v, p, b, u)
    BY DEF n, v
  <2> QED BY <1>1, <1>3, <1>5, <2>1, PinPageGood DEF Good
<1>7. Kept(v, s)
  BY <1>1, <1>3, <1>5, <1>6, PinPageKeeps
<1>8. s.file.exists /\ s.status \in {"running", "crashed"}
  BY <1>1, <1>3, <1>7 DEF Kept, Running
<1>9. PinnedData(n, v, p, b) \in Bufs
  BY <1>1, <1>3, PinnedDataIsBuffer
<1>10. h \in Hold /\ h.page = p /\ h.data = PinnedData(n, v, p, b)
  BY <1>9 DEF Hold
<1>11. ASSUME Running(s), Holding(n, s, p) # {}
       PROVE  Sound(Left(pl, s, h), H, m, h, latest[i])
  <2>1. Holding(n, v, p) # {} \/ (v.file.exists /\ v.streams < MaxStreams)
    <3>1. Holding(n, v, p) # {} \/ v.streams # MaxStreams
      BY <1>1 DEF n, v
    <3>2. v.streams \in 0 .. MaxStreams
      BY <1>3, PoolMembers
    <3> QED BY <1>3, <3>1, <3>2, StreamsAssumption
  <2>2. PICK f \in Frames(n) : PutIn(n, v, s, f, p, b, u)
    BY <1>1, <1>3, <1>5, <1>6, <1>11, <2>1, PinShows
  <2> HIDE DEF h
  <2>3. /\ s.frame[f].page = p /\ s.frame[f].data = h.data
        /\ \A g \in Frames(n) \ {f} : s.frame[g] = v.frame[g]
    BY <1>10, <2>2 DEF PutIn
  <2>4. CASE Found(v, s, f, p)
    BY <1>1, <1>2, <1>6, <1>8, <1>10, <2>3, <2>4, FoundSound
  <2>5. CASE Took(n, v, s, f, p, b, u)
    <3>1. h.data = b
      BY <2>3, <2>5 DEF Took
    <3> QED BY <1>1, <1>2, <1>4, <1>6, <1>8, <1>10, <2>3, <2>5, <3>1, TookSound
  <2> QED BY <2>2, <2>4, <2>5 DEF PutIn
<1> QED BY <1>6, <1>8, <1>10, <1>11 DEF n, v, pl, H, m

LEMMA JunkIsUndefined == Junk \subseteq Undefined
BY ContentAssumption DEF Junk, Undefined

LEMMA PinIInv ==
  ASSUME IInv, NEW i \in PoolIds, NEW p \in Asked[i], Pin(i, p)
  PROVE  IInv'
<1>1. p \in Pages
  BY CallersAssumption
<1>2. /\ Open(i) /\ held[i] = Nothing /\ Bufs \ Used(pools[i].frame, Null) # {}
      /\ Alive /\ UNCHANGED <<latest, hidden>>
  BY DEF Pin
<1> DEFINE n == Seen(i)
           v == View(i)
           b == CHOOSE x \in Bufs \ Used(pools[i].frame, Null) : TRUE
<1>3. b \in Bufs \ Used(pools[i].frame, Null)
  BY <1>2
<1> HIDE DEF b
<1>4. PICK u \in Junk :
        LET s    == PinPage(n, v, p, b, u)
            lost == \/ PastArray(i) /\ Stops(n, v, p) = {}
                    \/ Running(s) /\ Holding(n, s, p) = {}
                    \/ /\ Holding(n, v, p) = {}
                       /\ pageInfo.streams = MaxStreams
        IN  IF lost
            THEN alive' = "astray" /\ UNCHANGED <<pageInfo, pools, held>>
            ELSE /\ Leaves(i, s, [page |-> p, data |-> PinnedData(n, v, p, b)])
                 /\ Running(s) => UNCHANGED alive
  BY DEF Pin, b
<1> DEFINE s == PinPage(n, v, p, b, u)
           h == [page |-> p, data |-> PinnedData(n, v, p, b)]
<1>5. CASE alive' = "astray" /\ UNCHANGED <<pageInfo, pools, held>>
  BY <1>2, <1>5, StoppedIInv
<1>6. CASE /\ Leaves(i, s, h) /\ (Running(s) => UNCHANGED alive)
           /\ ~(Running(s) /\ Holding(n, s, p) = {})
           /\ ~(Holding(n, v, p) = {} /\ pageInfo.streams = MaxStreams)
  <2>1. u \in Undefined
    BY JunkIsUndefined
  <2>2. /\ h \in Hold /\ s \in Pool(n) /\ s.status \in {"running", "crashed"}
        /\ Running(s) /\ Holding(n, s, p) # {} =>
             Sound(Left(pools[i], s, h), hidden[i], pageInfo.maxPgFrs, h, latest[i])
    BY <1>1, <1>2, <1>3, <1>6, <2>1, PinLeaves
  <2> HIDE DEF s, h, n, v
  <2>3. CASE s.status = "crashed"
    BY <1>2, <1>6, <2>3, StoppedIInv DEF Leaves
  <2>4. CASE s.status = "running"
    <3>1. Sound(Left(pools[i], s, h), hidden[i], pageInfo.maxPgFrs, h, latest'[i])
      BY <1>2, <1>6, <2>2, <2>4 DEF Running
    <3>2. alive' \in {"running", "astray", "ended"}
      BY <1>2, <1>6, <2>4 DEF Running, Alive
    <3>3. latest' \in [PoolIds -> Latest] /\ \A j \in PoolIds : latest'[j] = latest[j]
      BY <1>2 DEF IInv, TypeOK
    <3>4. s \in Pool(Seen(i)) /\ s.status # "crashed"
      BY <2>2, <2>4 DEF n
    <3> QED BY <1>2, <1>6, <2>2, <3>1, <3>2, <3>3, <3>4, LeavesIInv
  <2> QED BY <2>2, <2>3, <2>4
<1> QED BY <1>4, <1>5, <1>6

\* A page is held of an open pool only.
LEMMA HeldIsOpen ==
  ASSUME IInv, NEW i \in PoolIds, held[i] # Nothing
  PROVE  Open(i) /\ held[i] \in Hold /\ held[i].page \in Pages
<1>1. Stays(pools[i], held[i]) /\ held[i] \in Hold /\ pools[i].size \in Nat
  BY RecordMembers DEF IInv, TypeOK, Sound
<1> QED BY <1>1 DEF Stays, Frames, Open

LEMMA StoreIInv ==
  ASSUME IInv, NEW i \in PoolIds, NEW content \in Stored[i], Store(i, content)
  PROVE  IInv'
<1> DEFINE v == View(i)
           h == held[i]
           s == MarkDirty(Seen(i), [v EXCEPT !.heap[h.data] = content], h.page)
<1>1. content \in Content
  BY CallersAssumption
<1>2. /\ Alive /\ h # Nothing /\ Leaves(i, s, h) /\ UNCHANGED <<alive, hidden>>
      /\ latest' = [latest EXCEPT ![i][h.page] = content]
  BY DEF Store
<1>3. Open(i) /\ h \in Hold /\ h.page \in Pages
  BY <1>2, HeldIsOpen
<1>4. Views(pools[i], pageInfo.maxPgFrs, Seen(i), v) /\ Running(v)
  BY <1>3, ViewOfPool
<1>5. /\ pools[i] \in PoolRecord /\ hidden[i] \in SUBSET Pages
      /\ latest \in [PoolIds -> Latest]
      /\ Sound(pools[i], hidden[i], pageInfo.maxPgFrs, h, latest[i])
  BY DEF IInv, TypeOK
<1> HIDE DEF v, h
<1>6. /\ s \in Pool(Seen(i)) /\ (Running(v) => Running(s))
      /\ Sound(Left(pools[i], s, h), hidden[i], pageInfo.maxPgFrs, h,
               [latest[i] EXCEPT ![h.page] = content])
  <2>1. latest[i] \in Latest
    BY <1>5
  <2> QED BY <1>1, <1>2, <1>3, <1>4, <1>5, <2>1, StoredSound
<1> HIDE DEF s
<1>7. /\ latest' \in [PoolIds -> Latest]
      /\ latest'[i] = [latest[i] EXCEPT ![h.page] = content]
      /\ \A j \in PoolIds \ {i} : latest'[j] = latest[j]
  <2>1. [latest[i] EXCEPT ![h.page] = content] \in Latest
    BY <1>1, <1>5 DEF Latest
  <2> QED BY <1>2, <1>5, <2>1
<1>8. s.status # "crashed" /\ alive' \in {"running", "astray", "ended"}
  BY <1>2, <1>4, <1>6 DEF Running, Alive
<1> QED BY <1>2, <1>3, <1>6, <1>7, <1>8, LeavesIInv

LEMMA UnpinIInv ==
  ASSUME IInv, NEW i \in PoolIds, Unpin(i)
  PROVE  IInv'
<1> DEFINE v == View(i)
           h == held[i]
           s == UnpinPage(Seen(i), v, h.page)
<1>1. /\ Alive /\ h # Nothing /\ Leaves(i, s, Nothing)
      /\ UNCHANGED <<alive, latest, hidden>>
  BY DEF Unpin
<1>2. Open(i) /\ h \in Hold
  BY <1>1, HeldIsOpen
<1>3. Views(pools[i], pageInfo.maxPgFrs, Seen(i), v) /\ Running(v)
  BY <1>2, ViewOfPool
<1>4. /\ pools[i] \in PoolRecord /\ hidden[i] \in SUBSET Pages
      /\ latest \in [PoolIds -> Latest]
      /\ Sound(pools[i], hidden[i], pageInfo.maxPgFrs, h, latest[i])
  BY DEF IInv, TypeOK
<1> HIDE DEF v, h
<1>5. /\ s \in Pool(Seen(i)) /\ (Running(v) => Running(s))
      /\ Sound(Left(pools[i], s, Nothing), hidden[i], pageInfo.maxPgFrs, Nothing,
               latest[i])
  <2>1. latest[i] \in Latest
    BY <1>4
  <2> QED BY <1>1, <1>2, <1>3, <1>4, <2>1, UnpinnedSound
<1> HIDE DEF s
<1>6. Nothing \in Hold
  BY DEF Nothing, Hold
<1>7. s.status # "crashed" /\ alive' \in {"running", "astray", "ended"}
  BY <1>1, <1>3, <1>5 DEF Running, Alive
<1>8. latest' = latest
  BY <1>1
<1> QED BY <1>1, <1>2, <1>4, <1>5, <1>6, <1>7, <1>8, LeavesIInv

LEMMA CloseIInv ==
  ASSUME IInv, NEW i \in PoolIds, ClosePool(i)
  PROVE  IInv'
<1> DEFINE s == ShutdownBufferPool(Seen(i), View(i))
<1>1. Alive /\ Open(i) /\ held[i] = Nothing /\ UNCHANGED <<held, latest, hidden>>
  BY DEF ClosePool
<1>2. CASE UNCHANGED <<pageInfo, pools>> /\ alive' \in {"astray", "ended"}
  BY <1>1, <1>2, StoppedIInv
<1>3. CASE /\ s.status # "crashed" /\ UNCHANGED alive
           /\ pools' = [pools EXCEPT ![i] = Closed(s.file)]
           /\ pageInfo' = [pageInfo EXCEPT !.streams = s.streams]
  <2>1. Views(pools[i], pageInfo.maxPgFrs, Seen(i), View(i))
    BY <1>1, ViewOfPool
  <2>2. /\ pools \in [PoolIds -> PoolRecord] /\ hidden[i] \in SUBSET Pages
        /\ latest \in [PoolIds -> Latest] /\ pageInfo \in Info
        /\ Sound(pools[i], hidden[i], pageInfo.maxPgFrs, Nothing, latest[i])
    BY <1>1 DEF IInv, TypeOK
  <2>3. /\ s \in Pool(Seen(i)) /\ Closed(s.file) \in PoolRecord
        /\ Sound(Closed(s.file), hidden[i], pageInfo.maxPgFrs, Nothing, latest[i])
    <3>1. latest[i] \in Latest /\ pools[i] \in PoolRecord
      BY <2>2
    <3> QED BY <1>3, <2>1, <2>2, <3>1, ClosedSound
  <2>4. s.streams \in 0 .. MaxStreams
    <3>1. Seen(i) \in Nat \ {0}
      BY <2>1 DEF Views
    <3> QED BY <2>3, <3>1, PoolMembers
  <2> HIDE DEF s
  <2>5. pageInfo' \in Info /\ pageInfo'.maxPgFrs = pageInfo.maxPgFrs
    BY <1>3, <2>2, <2>4 DEF Info
  <2>6. TypeOK'
    BY <1>1, <1>3, <2>2, <2>3, <2>5 DEF IInv, TypeOK, Alive
  <2>7. ASSUME NEW j \in PoolIds
        PROVE  Sound(pools'[j], hidden'[j], pageInfo'.maxPgFrs, held'[j], latest'[j])
    <3>1. hidden'[j] = hidden[j] /\ held'[j] = held[j] /\ latest'[j] = latest[j]
      BY <1>1
    <3>2. CASE j = i
      BY <1>1, <1>3, <2>2, <2>3, <2>5, <3>1, <3>2
    <3>3. CASE j # i
      BY <1>3, <2>2, <2>5, <3>1, <3>3 DEF IInv
    <3> QED BY <3>2, <3>3
  <2> QED BY <2>6, <2>7 DEF IInv
<1> QED BY <1>1, <1>2, <1>3 DEF ClosePool

LEMMA OpenIInv ==
  ASSUME IInv, NEW i \in PoolIds, NEW n \in Sizes, NEW strategy \in Using[i],
         OpenPool(i, n, strategy)
  PROVE  IInv'
<1> DEFINE q == [pools[i] EXCEPT !.size = n, !.strategy = strategy,
                                 !.frame = [f \in 0 .. n - 1 |-> EmptyFrame]]
           m == pageInfo.maxPgFrs
<1>1. n \in Nat \ {0} /\ strategy \in Strategies
  BY SizesAssumption, CallersAssumption
<1>2. /\ Alive /\ ~Open(i) /\ UNCHANGED <<alive, held, latest>>
      /\ pageInfo' = [pageInfo EXCEPT !.maxPgFrs = n, !.pageCounter = 0,
                                      !.lastEntry = 0, !.lastPtr = 0]
      /\ pools' = [pools EXCEPT ![i] = q]
      /\ hidden' = [j \in PoolIds |-> hidden[j] \cup Beyond(pools[j], n)]
  BY DEF OpenPool
<1>3. /\ pools \in [PoolIds -> PoolRecord] /\ hidden \in [PoolIds -> SUBSET Pages]
      /\ latest \in [PoolIds -> Latest] /\ pageInfo \in Info
      /\ \A j \in PoolIds : Sound(pools[j], hidden[j], m, held[j], latest[j])
  BY DEF IInv, TypeOK
<1> HIDE DEF q, m
<1>4. \A j \in PoolIds :
        /\ hidden[j] \cup Beyond(pools[j], n) \in SUBSET Pages
        /\ Sound(pools[j], hidden[j] \cup Beyond(pools[j], n), n, held[j], latest[j])
  <2> SUFFICES ASSUME NEW j \in PoolIds
               PROVE  /\ hidden[j] \cup Beyond(pools[j], n) \in SUBSET Pages
                      /\ Sound(pools[j], hidden[j] \cup Beyond(pools[j], n), n,
                               held[j], latest[j])
    OBVIOUS
  <2>1. /\ pools[j] \in PoolRecord /\ hidden[j] \in SUBSET Pages
        /\ latest[j] \in Latest
        /\ Sound(pools[j], hidden[j], m, held[j], latest[j])
    BY <1>3
  <2> QED BY <1>1, <2>1, HiddenSound
<1>5. pools[i].size = 0
  <2>1. pools[i].size \in Nat
    BY <1>3, RecordMembers
  <2> QED BY <1>2, <2>1 DEF Open
<1>6. q \in PoolRecord /\ Sound(q, hidden'[i], n, held[i], latest[i])
  <2>1. /\ pools[i] \in PoolRecord /\ latest[i] \in Latest
        /\ hidden'[i] \in SUBSET Pages
        /\ Sound(pools[i], hidden'[i], n, held[i], latest[i])
    BY <1>2, <1>3, <1>4
  <2> QED BY <1>1, <1>5, <2>1, OpenedSound DEF q
<1>7. pageInfo' \in Info /\ pageInfo'.maxPgFrs = n
  BY <1>1, <1>2, <1>3 DEF Info
<1>8. TypeOK'
  BY <1>2, <1>3, <1>4, <1>6, <1>7 DEF IInv, TypeOK
<1>9. ASSUME NEW j \in PoolIds
      PROVE  Sound(pools'[j], hidden'[j], pageInfo'.maxPgFrs, held'[j], latest'[j])
  <2>1. CASE j = i
    BY <1>2, <1>3, <1>6, <1>7, <2>1
  <2>2. CASE j # i
    BY <1>2, <1>3, <1>4, <1>7, <2>2
  <2> QED BY <2>1, <2>2
<1> QED BY <1>8, <1>9 DEF IInv

LEMMA NextIInv == IInv /\ [Next]_vars => IInv'
<1> SUFFICES ASSUME IInv, [Next]_vars PROVE IInv'
  OBVIOUS
<1>1. CASE UNCHANGED vars
  BY <1>1 DEF vars, IInv, TypeOK
<1>2. ASSUME NEW i \in PoolIds, NEW n \in Sizes, NEW strategy \in Using[i],
             OpenPool(i, n, strategy)
      PROVE  IInv'
  BY <1>2, OpenIInv
<1>3. ASSUME NEW i \in PoolIds, NEW p \in Asked[i], Pin(i, p)
      PROVE  IInv'
  BY <1>3, PinIInv
<1>4. ASSUME NEW i \in PoolIds, NEW content \in Stored[i], Store(i, content)
      PROVE  IInv'
  BY <1>4, StoreIInv
<1>5. ASSUME NEW i \in PoolIds, Unpin(i)
      PROVE  IInv'
  BY <1>5, UnpinIInv
<1>6. ASSUME NEW i \in PoolIds, ClosePool(i)
      PROVE  IInv'
  BY <1>6, CloseIInv
<1> QED BY <1>1, <1>2, <1>3, <1>4, <1>5, <1>6 DEF Next

\* Every reachable state satisfies the invariant.
THEOREM Invariance == Spec => []IInv
BY InitIInv, NextIInv, PTL DEF Spec

-----------------------------------------------------------------------------
(* What it shows *)

LEMMA IInvNothingLost == IInv => NoLostStore
<1> SUFFICES ASSUME IInv, NEW i \in PoolIds, NEW p \in Pages \ hidden[i],
                    latest[i][p] # Unwritten
             PROVE  Shown(i, p) = latest[i][p]
  BY DEF NoLostStore
<1> DEFINE pl == pools[i]
           m == pageInfo.maxPgFrs
           holding == {f \in 0 .. Seen(i) - 1 : pl.frame[f].page = p}
<1>1. /\ Beheld(pl, hidden[i], m) /\ Current(pl, hidden[i], latest[i])
      /\ Settled(pl, hidden[i], latest[i])
  BY DEF IInv, Sound
<1>2. pl.size \in Nat /\ m \in Nat
  BY RecordMembers DEF IInv, TypeOK, Info
<1>3. \A f : f \in 0 .. Seen(i) - 1 <=> f \in Frames(pl.size) /\ f < m
  BY <1>2 DEF Seen, Min2, Frames
<1>4. p # NoPage
  BY NoPageIsNone
<1> HIDE DEF pl, m
<1>5. \A f \in Frames(pl.size) : pl.frame[f].page = p => f \in holding
  <2> SUFFICES ASSUME NEW f \in Frames(pl.size), pl.frame[f].page = p
               PROVE  f \in holding
    OBVIOUS
  <2>1. f \in Occupied(pl.size, pl)
    BY <1>4 DEF Occupied
  <2> QED BY <1>1, <1>3, <2>1 DEF Beheld
<1>6. CASE holding = {}
  <2>1. OnFile(pl.file)[p] = latest[i][p]
    BY <1>1, <1>5, <1>6 DEF Settled
  <2> QED BY <1>6, <2>1 DEF Shown, pl
<1>7. CASE holding # {}
  <2> DEFINE f == CHOOSE g \in holding : TRUE
  <2>1. f \in holding
    BY <1>7
  <2> HIDE DEF f
  <2>2. f \in Occupied(pl.size, pl) /\ pl.frame[f].page = p
    BY <1>3, <1>4, <2>1 DEF Occupied
  <2>3. pl.heap[pl.frame[f].data] = latest[i][p]
    BY <1>1, <2>2 DEF Current
  <2> QED BY <1>7, <2>3 DEF Shown, pl, f
<1> QED BY <1>6, <1>7

\* NoLostStore: for every number of pools and of frames, under every strategy
\* of buffer_mgr.c, and over every order of opening, pinning, storing and
\* shutting down, what was stored last in a page shows in the next pin of it,
\* unless the page has been in a frame another pool's initBufferPool left out.
THEOREM NothingLost == Spec => []NoLostStore
BY Invariance, IInvNothingLost, PTL

LEMMA PinStray ==
  ASSUME IInv, NEW i \in PoolIds, NEW p \in Asked[i], Pin(i, p)
  PROVE  StrayStep
<1> SUFFICES ASSUME alive' = "astray", pageInfo.streams # MaxStreams, ~PastArray(i)
             PROVE  \/ pools[i].strategy = "LRU_K"
                    \/ pools[i].strategy = "CLOCK" /\ pageInfo.lastEntry > Seen(i)
                    \/ pools[i].strategy = "FIFO" /\ hidden[i] # {}
  BY DEF Pin, StrayStep
<1> DEFINE n == Seen(i)
           v == View(i)
           b == CHOOSE x \in Bufs \ Used(pools[i].frame, Null) : TRUE
<1>1. p \in Pages
  BY CallersAssumption
<1>2. Open(i) /\ held[i] = Nothing /\ Alive /\ b \in Bufs \ Used(pools[i].frame, Null)
  BY DEF Pin
<1> HIDE DEF b
<1>3. PICK u \in Junk :
        LET s    == PinPage(n, v, p, b, u)
            lost == \/ PastArray(i) /\ Stops(n, v, p) = {}
                    \/ Running(s) /\ Holding(n, s, p) = {}
                    \/ /\ Holding(n, v, p) = {}
                       /\ pageInfo.streams = MaxStreams
        IN  IF lost
            THEN alive' = "astray" /\ UNCHANGED <<pageInfo, pools, held>>
            ELSE /\ Leaves(i, s, [page |-> p, data |-> PinnedData(n, v, p, b)])
                 /\ Running(s) => UNCHANGED alive
  BY DEF Pin, b
<1> DEFINE s == PinPage(n, v, p, b, u)
<1>4. u \in Undefined
  BY JunkIsUndefined
<1>5. s.status \in {"running", "crashed"}
  BY <1>1, <1>2, <1>4, PinLeaves
<1>6. Running(s) /\ Holding(n, s, p) = {}
  BY <1>2, <1>3, <1>5 DEF Leaves, Running, Alive
<1>7. /\ Views(pools[i], pageInfo.maxPgFrs, n, v) /\ Running(v)
      /\ v.strategy = pools[i].strategy /\ v.streams = pageInfo.streams
      /\ v.lastEntry = pageInfo.lastEntry
      /\ Shaped(n, hidden[i], v)
  BY <1>2, ViewOfPool
<1>8. /\ pools[i] \in PoolRecord /\ Framed(pools[i], hidden[i])
      /\ Counted(pools[i], hidden[i], Nothing)
  BY <1>2 DEF IInv, TypeOK, Sound
<1> HIDE DEF n, v
<1>9. /\ n \in Nat \ {0} /\ v \in Pool(n) /\ v.file.exists
      /\ \A g \in Frames(n) : g \in Frames(pools[i].size) /\ v.frame[g] = pools[i].frame[g]
  BY <1>7, <1>8, ViewShaped DEF Views, Framed
<1>10. \A g \in Frames(n) : v.frame[g].data # b
  <2>1. DOMAIN pools[i].frame = Frames(pools[i].size)
    BY <1>8 DEF Framed
  <2> QED BY <1>2, <1>9, <2>1 DEF Used
<1>11. v.streams < MaxStreams
  <2>1. v.streams \in 0 .. MaxStreams
    BY <1>9, PoolMembers
  <2> QED BY <1>7, <2>1, StreamsAssumption
<1>12. Occupied(n, v) = Frames(n) /\ NoPlace(n, v)
  BY <1>1, <1>2, <1>4, <1>6, <1>7, <1>9, <1>10, <1>11, PinPlaces
<1>13. ASSUME NEW f \in Frames(n), v.frame[f].clientCount # 0
       PROVE  hidden[i] # {}
  <2>1. /\ f \in Occupied(pools[i].size, pools[i])
        /\ pools[i].frame[f].page # NoPage
        /\ pools[i].frame[f].clientCount # 0
    BY <1>9, <1>12, <1>13 DEF Occupied
  <2> QED BY <1>8, <2>1 DEF Counted, Nothing
<1> QED BY <1>7, <1>12, <1>13 DEF NoPlace, n

LEMMA NextStray == IInv /\ [Next]_vars => [StrayStep]_vars
<1> SUFFICES ASSUME IInv, Next PROVE StrayStep
  OBVIOUS
<1>1. CASE UNCHANGED alive
  BY <1>1 DEF StrayStep, Alive
<1>2. ASSUME NEW i \in PoolIds, NEW p \in Asked[i], Pin(i, p)
      PROVE  StrayStep
  BY <1>2, PinStray
<1>3. ASSUME NEW i \in PoolIds, ClosePool(i)
      PROVE  StrayStep
  BY <1>3 DEF ClosePool, StrayStep, Alive
<1> QED BY <1>1, <1>2, <1>3 DEF Next, OpenPool, Store, Unpin

\* StrayHasCause: a page goes astray in no other way than those of the code
\* StrayStep names; under RS_LRU and RS_LFU only by the streams and by a search
\* past the array.
THEOREM StrayCaused == Spec => StrayHasCause
BY Invariance, NextStray, PTL DEF Spec, StrayHasCause

=============================================================================
