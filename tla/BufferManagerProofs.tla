------------------------ MODULE BufferManagerProofs -------------------------
(***************************************************************************)
(* Lemmas about the operators of BufferManager: each call keeps a pool of  *)
(* the right type and shape, for every number of frames, pages, buffers    *)
(* and streams, and for every choice the C standard leaves open.           *)
(***************************************************************************)
EXTENDS BufferManager, FiniteSetTheorems, WellFoundedInduction, TLAPS

\* The shape of a pool, but for the pages of H: they may be in several frames,
\* as they come to be where two pools share the number of frames.
OneFrameBut(N, H, s) ==
  \A f, g \in Occupied(N, s) :
    s.frame[f].page = s.frame[g].page /\ s.frame[f].page \notin H => f = g

Shaped(N, H, s) ==
  /\ OccupiedIsPrefix(N, s)
  /\ OneFrameBut(N, H, s)
  /\ OneBufferPerFrame(N, s)
  /\ EmptyIsBlank(N, s)

Good(N, H, s) == s \in Pool(N) /\ Shaped(N, H, s)

LEMMA ShapedIsShape ==
  ASSUME NEW N, NEW s
  PROVE  Shape(N, s) <=> Shaped(N, {}, s)
BY DEF Shape, Shaped, OneFramePerPage, OneFrameBut

LEMMA NoPageIsNone == NoPage \notin Pages
BY LastPageAssumption DEF NoPage, Pages

-----------------------------------------------------------------------------
(* Least elements *)

\* A nonempty set of naturals has a least element: the library's least-number
\* principle, for a set instead of a predicate.
LEMMA LeastNat ==
  ASSUME NEW S \in SUBSET Nat, S # {}
  PROVE  \E n \in S : \A m \in S : n <= m
<1> DEFINE R == {ss \in Nat \X Nat : ss[1] < ss[2]}
<1>1. IsWellFoundedOn(R, Nat)
  BY NatLessThanWellFounded DEF OpToRel
<1>2. \A x, y \in Nat : y < x => <<y, x>> \in R
  OBVIOUS
<1> HIDE DEF R
<1>3. S \subseteq Nat
  OBVIOUS
<1>4. PICK x \in S : \A y \in S : ~(<<y, x>> \in R)
  BY <1>1, <1>3, WFMin
<1>5. \A y \in S : ~(y < x)
  BY <1>2, <1>3, <1>4, Zenon
<1>6. \A y \in S : x <= y
  BY <1>3, <1>5
<1> QED BY <1>6

\* What Least chooses, wherever a loop of the code stops at the first match.
LEMMA LeastIsMember ==
  ASSUME NEW S \in SUBSET Nat, S # {}
  PROVE  Least(S) \in S /\ \A y \in S : Least(S) <= y
BY LeastNat DEF Least

\* The last of some frames is one of them.
LEMMA GreatestIsMember ==
  ASSUME NEW N \in Nat \ {0}, NEW S \in SUBSET Frames(N), S # {}
  PROVE  Greatest(S) \in S
<1> DEFINE Bound == {m \in Nat : \A x \in S : x <= m}
<1>1. N - 1 \in Bound
  BY DEF Frames
<1>2. PICK m \in Bound : \A n \in Bound : m <= n
  <2>1. Bound \in SUBSET Nat
    OBVIOUS
  <2> HIDE DEF Bound
  <2> QED BY <1>1, <2>1, LeastNat
<1>3. m \in S
  <2> SUFFICES ASSUME m \notin S PROVE FALSE
    OBVIOUS
  <2>1. m \in Nat /\ \A x \in S : x \in Nat /\ x < m
    BY <1>2 DEF Frames
  <2>2. m - 1 \in Bound
    BY <2>1
  <2>3. m <= m - 1
    <3> HIDE DEF Bound
    <3> QED BY <1>2, <2>2
  <2> QED BY <2>1, <2>3
<1>4. \A x \in S : x <= m
  BY <1>2
<1> QED BY <1>3, <1>4 DEF Greatest

\* The loops of LRU and LFU end on a frame of the array, whatever the ages and
\* the frequencies are, uninitialised ones included.
LEMMA LastLeastIsFrame ==
  ASSUME NEW N \in Nat \ {0}, NEW v \in [Frames(N) -> Int]
  PROVE  LastLeast(N, v) \in Frames(N)
<1> DEFINE Best(m, f) == \A g \in 0 .. m : v[f] <= v[g] /\ (v[g] = v[f] => g <= f)
           Bad == {m \in Frames(N) : ~ \E f \in 0 .. m : Best(m, f)}
<1>1. Bad = {}
  <2> SUFFICES ASSUME Bad # {} PROVE FALSE
    OBVIOUS
  <2>0. Bad \in SUBSET Nat
    BY DEF Frames
  <2>1. PICK m \in Bad : \A n \in Bad : m <= n
    <3> HIDE DEF Bad
    <3> QED BY <2>0, LeastNat
  <2>2. m \in Frames(N) /\ m \in Nat /\ N \in Nat
    BY <2>1 DEF Frames
  <2>3. CASE m = 0
    <3>1. \A g \in 0 .. 0 : g = 0
      OBVIOUS
    <3>2. v[0] \in Int
      BY <2>2, <2>3
    <3>3. Best(m, 0)
      BY <3>1, <3>2, <2>3
    <3>4. 0 \in 0 .. m
      BY <2>3
    <3> QED BY <3>3, <3>4, <2>1
  <2>4. CASE m # 0
    <3>1. m - 1 \in Frames(N) /\ m - 1 \notin Bad
      <4>1. m - 1 \in Frames(N) /\ ~(m <= m - 1)
        BY <2>2, <2>4 DEF Frames
      <4> HIDE DEF Bad
      <4> QED BY <4>1, <2>1
    <3>2. PICK f \in 0 .. m - 1 : Best(m - 1, f)
      BY <3>1
    <3>3. /\ f \in Frames(N) /\ f \in 0 .. m /\ m \in 0 .. m
          /\ f < m
          /\ \A g \in 0 .. m : g = m \/ g \in 0 .. m - 1
          /\ \A g \in 0 .. m : g \in Frames(N)
      BY <2>2 DEF Frames
    <3>4. \A g \in 0 .. m : v[g] \in Int
      BY <3>3
    <3>5. CASE v[m] <= v[f]
      <4>1. ASSUME NEW g \in 0 .. m PROVE v[m] <= v[g] /\ g <= m
        BY <3>2, <3>3, <3>4, <3>5, <2>2
      <4> QED BY <4>1, <3>3, <2>1
    <3>6. CASE ~(v[m] <= v[f])
      <4>1. ASSUME NEW g \in 0 .. m
            PROVE  v[f] <= v[g] /\ (v[g] = v[f] => g <= f)
        BY <3>2, <3>3, <3>4, <3>6, <2>2
      <4> QED BY <4>1, <3>3, <2>1
    <3> QED BY <3>5, <3>6
  <2> QED BY <2>3, <2>4
<1>2. N - 1 \in Frames(N) /\ Frames(N) = 0 .. N - 1
  BY DEF Frames
<1>3. N - 1 \notin Bad
  BY <1>1, <1>2
<1>4. PICK f \in Frames(N) : Best(N - 1, f)
  BY <1>2, <1>3
<1> QED BY <1>2, <1>4 DEF LastLeast

\* An index reduced modulo N is a frame.
LEMMA ModFrame ==
  ASSUME NEW N \in Nat \ {0}, NEW a \in Nat
  PROVE  a % N \in Frames(N)
BY DEF Frames

LEMMA OneQuotient ==
  ASSUME NEW N \in Nat \ {0}, NEW q \in Nat, NEW r \in 0 .. N - 1,
         NEW k \in Nat, NEW s \in 0 .. N - 1, N * q + r = N * k + s
  PROVE  r = s
<1>1. CASE q = k
  BY <1>1
<1>2. ASSUME NEW x \in Nat, NEW y \in Nat, x < y PROVE N * y >= N * x + N
  <2>1. PICK d \in Nat : y = x + d + 1
    <3>1. y - x - 1 \in Nat /\ y = x + (y - x - 1) + 1
      BY <1>2
    <3> QED BY <3>1
  <2>2. N * (x + d + 1) = N * x + N * d + N /\ N * d \in Nat /\ N * x \in Nat
    OBVIOUS
  <2> QED BY <2>1, <2>2
<1>3. N * q \in Nat /\ N * k \in Nat
  OBVIOUS
<1>4. CASE q < k
  <2>1. N * k >= N * q + N
    BY <1>2, <1>4
  <2> QED BY <1>3, <2>1
<1>5. CASE k < q
  <2>1. N * q >= N * k + N
    BY <1>2, <1>5
  <2> QED BY <1>3, <2>1
<1> QED BY <1>1, <1>4, <1>5

\* A counter that advances by one takes the frames in turn.
LEMMA ModNext ==
  ASSUME NEW N \in Nat \ {0}, NEW a \in Nat
  PROVE  (a + 1) % N = IF a % N = N - 1 THEN 0 ELSE (a % N) + 1
<1> DEFINE q == a \div N
           r == a % N
           k == (a + 1) \div N
           s == (a + 1) % N
<1>1. q \in Nat /\ r \in 0 .. N - 1 /\ a = N * q + r
  OBVIOUS
<1>2. a + 1 \in Nat
  OBVIOUS
<1>3. k \in Nat /\ s \in 0 .. N - 1 /\ a + 1 = N * k + s
  BY <1>2
<1> HIDE DEF q, r, k, s
<1>4. CASE r = N - 1
  <2>1. N * (q + 1) = N * q + N /\ N * q \in Nat
    BY <1>1
  <2>2. a + 1 = N * (q + 1) + 0 /\ q + 1 \in Nat /\ 0 \in 0 .. N - 1
    BY <1>1, <1>4, <2>1
  <2>3. s = 0
    BY <1>3, <2>2, OneQuotient
  <2> QED BY <1>4, <2>3 DEF r, s
<1>5. CASE r # N - 1
  <2>1. a + 1 = N * q + (r + 1) /\ r + 1 \in 0 .. N - 1
    BY <1>1, <1>5
  <2>2. s = r + 1
    BY <1>1, <1>3, <2>1, OneQuotient
  <2> QED BY <1>5, <2>2 DEF r, s
<1> QED BY <1>4, <1>5

LEMMA ModSelf ==
  ASSUME NEW N \in Nat \ {0}
  PROVE  N % N = 0
OBVIOUS

-----------------------------------------------------------------------------
(* One member of the pool record at a time *)

LEMMA SetStatus ==
  ASSUME NEW N \in Nat \ {0},
         NEW s \in Pool(N), NEW x \in {"running", "closed", "crashed"}
  PROVE  [s EXCEPT !.status = x] \in Pool(N)
BY DEF Pool

LEMMA SetStrategy ==
  ASSUME NEW N \in Nat \ {0}, NEW s \in Pool(N), NEW x \in Strategies
  PROVE  [s EXCEPT !.strategy = x] \in Pool(N)
BY DEF Pool

LEMMA SetFrames ==
  ASSUME NEW N \in Nat \ {0},
         NEW s \in Pool(N), NEW x \in [Frames(N) -> Frame]
  PROVE  [s EXCEPT !.frame = x] \in Pool(N)
BY DEF Pool

LEMMA SetHeap ==
  ASSUME NEW N \in Nat \ {0}, NEW s \in Pool(N), NEW x \in [Bufs -> Content]
  PROVE  [s EXCEPT !.heap = x] \in Pool(N)
BY DEF Pool

LEMMA SetFile ==
  ASSUME NEW N \in Nat \ {0}, NEW s \in Pool(N), NEW x \in FileValue
  PROVE  [s EXCEPT !.file = x] \in Pool(N)
BY DEF Pool

LEMMA SetStreams ==
  ASSUME NEW N \in Nat \ {0}, NEW s \in Pool(N), NEW x \in 0 .. MaxStreams
  PROVE  [s EXCEPT !.streams = x] \in Pool(N)
BY DEF Pool

LEMMA SetPageCounter ==
  ASSUME NEW N \in Nat \ {0}, NEW s \in Pool(N), NEW x \in Nat
  PROVE  [s EXCEPT !.pageCounter = x] \in Pool(N)
BY DEF Pool

LEMMA SetLastPg ==
  ASSUME NEW N \in Nat \ {0}, NEW s \in Pool(N), NEW x \in Nat
  PROVE  [s EXCEPT !.lastPg = x] \in Pool(N)
BY DEF Pool

LEMMA SetLastEntry ==
  ASSUME NEW N \in Nat \ {0}, NEW s \in Pool(N), NEW x \in Nat
  PROVE  [s EXCEPT !.lastEntry = x] \in Pool(N)
BY DEF Pool

LEMMA SetLastPtr ==
  ASSUME NEW N \in Nat \ {0}, NEW s \in Pool(N), NEW x \in Nat
  PROVE  [s EXCEPT !.lastPtr = x] \in Pool(N)
BY DEF Pool

\* The members of a pool have their types.
LEMMA PoolMembers ==
  ASSUME NEW N \in Nat \ {0}, NEW s \in Pool(N)
  PROVE  /\ s.status \in {"running", "closed", "crashed"}
         /\ s.strategy \in Strategies
         /\ s.frame \in [Frames(N) -> Frame]
         /\ s.heap \in [Bufs -> Content]
         /\ s.file \in FileValue
         /\ s.streams \in 0 .. MaxStreams
         /\ s.pageCounter \in Nat
         /\ s.lastPg \in Nat
         /\ s.lastEntry \in Nat
         /\ s.lastPtr \in Nat
BY DEF Pool

LEMMA FrameMembers ==
  ASSUME NEW fr \in Frame
  PROVE  /\ fr.page \in Pages \cup {NoPage}
         /\ fr.data \in Bufs \cup {Null}
         /\ fr.dirty \in BOOLEAN
         /\ fr.clientCount \in Int
         /\ fr.lruPage \in Int
         /\ fr.lfuPage \in Int
BY DEF Frame

LEMMA FileMembers ==
  ASSUME NEW file \in FileValue
  PROVE  /\ file.exists \in BOOLEAN
         /\ file.size \in 0 .. LastPage + 1
         /\ file.block \in [Pages -> Content]
BY DEF FileValue

LEMMA SetDirty ==
  ASSUME NEW fr \in Frame, NEW x \in BOOLEAN
  PROVE  [fr EXCEPT !.dirty = x] \in Frame
BY DEF Frame

LEMMA SetClientCount ==
  ASSUME NEW fr \in Frame, NEW x \in Int
  PROVE  [fr EXCEPT !.clientCount = x] \in Frame
BY DEF Frame

LEMMA SetLruPage ==
  ASSUME NEW fr \in Frame, NEW x \in Int
  PROVE  [fr EXCEPT !.lruPage = x] \in Frame
BY DEF Frame

LEMMA SetLfuPage ==
  ASSUME NEW fr \in Frame, NEW x \in Int
  PROVE  [fr EXCEPT !.lfuPage = x] \in Frame
BY DEF Frame

\* The shape of a pool is a matter of its frames alone.
LEMMA ShapeOfFrames ==
  ASSUME NEW N \in Nat \ {0}, NEW H, NEW s, NEW t, Shaped(N, H, s), t.frame = s.frame
  PROVE  Shaped(N, H, t)
BY DEF Shaped, OccupiedIsPrefix, OneFrameBut, OneBufferPerFrame,
       EmptyIsBlank, Occupied

\* It survives a step that moves no page and touches no empty frame ...
LEMMA ShapeKept ==
  ASSUME NEW N \in Nat \ {0}, NEW H, NEW s, NEW t, Shaped(N, H, s),
         \A f \in Frames(N) : /\ t.frame[f].page = s.frame[f].page
                              /\ t.frame[f].data = s.frame[f].data
                              /\ f \notin Occupied(N, s) => t.frame[f] = s.frame[f]
  PROVE  Shaped(N, H, t) /\ Occupied(N, t) = Occupied(N, s)
<1>1. Occupied(N, t) = Occupied(N, s)
  BY DEF Occupied
<1>2. \A f \in Occupied(N, s) : f \in Frames(N)
  BY DEF Occupied
<1>3. OccupiedIsPrefix(N, t)
  BY <1>1 DEF Shaped, OccupiedIsPrefix
<1>4. OneFrameBut(N, H, t)
  BY <1>1, <1>2 DEF Shaped, OneFrameBut
<1>5. OneBufferPerFrame(N, t)
  BY <1>1, <1>2 DEF Shaped, OneBufferPerFrame
<1>6. EmptyIsBlank(N, t)
  BY <1>1 DEF Shaped, EmptyIsBlank
<1> QED BY <1>1, <1>3, <1>4, <1>5, <1>6 DEF Shaped

\* ... and one that puts a page that was in no frame, with a buffer of its
\* own, in an occupied frame or in the first empty one.
LEMMA ShapePut ==
  ASSUME NEW N \in Nat \ {0}, NEW H, NEW s, NEW t, Shaped(N, H, s),
         s.frame \in [Frames(N) -> Frame],
         NEW f \in Frames(N), \A g \in Frames(N) : g < f => g \in Occupied(N, s),
         NEW pg \in Frame, pg.page \in Pages, pg.data \in Bufs,
         \A g \in Frames(N) : s.frame[g].page # pg.page,
         \A g \in Frames(N) : s.frame[g].data # pg.data,
         t.frame = [s.frame EXCEPT ![f] = pg]
  PROVE  Shaped(N, H, t) /\ Occupied(N, t) = Occupied(N, s) \cup {f}
<1>1. /\ t.frame[f] = pg
      /\ \A g \in Frames(N) : g # f => t.frame[g] = s.frame[g]
  OBVIOUS
<1>2. pg.page # NoPage /\ pg.data # Null
  BY NullAssumption, LastPageAssumption DEF Pages, NoPage
<1>3. Occupied(N, t) = Occupied(N, s) \cup {f}
  BY <1>1, <1>2 DEF Occupied
<1>4. \A g \in Occupied(N, s) : g \in Frames(N)
  BY DEF Occupied
<1>5. OccupiedIsPrefix(N, t)
  BY <1>3, <1>4 DEF Shaped, OccupiedIsPrefix
<1>6. OneFrameBut(N, H, t)
  BY <1>1, <1>3, <1>4 DEF Shaped, OneFrameBut
<1>7. OneBufferPerFrame(N, t)
  BY <1>1, <1>3, <1>4 DEF Shaped, OneBufferPerFrame
<1>8. EmptyIsBlank(N, t)
  BY <1>1, <1>2, <1>3 DEF Shaped, EmptyIsBlank
<1> QED BY <1>3, <1>5, <1>6, <1>7, <1>8 DEF Shaped

\* What an occupied frame is made of.
LEMMA OccupiedMembers ==
  ASSUME NEW N \in Nat \ {0}, NEW H,
         NEW s \in Pool(N), Shaped(N, H, s), NEW f \in Occupied(N, s)
  PROVE  f \in Frames(N) /\ s.frame[f].page \in Pages /\ s.frame[f].data \in Bufs
<1>1. f \in Frames(N) /\ s.frame[f] \in Frame /\ s.frame[f].page # NoPage
  BY PoolMembers DEF Occupied
<1>2. s.frame[f].data # Null
  BY <1>1 DEF Shaped, EmptyIsBlank
<1> QED BY <1>1, <1>2, FrameMembers

-----------------------------------------------------------------------------
(* The page file *)

LEMMA WriteAtType ==
  ASSUME NEW file \in FileValue, NEW p \in Pages, NEW c \in Content
  PROVE  WriteAt(file, p, c) \in FileValue
<1>1. /\ file.size \in 0 .. LastPage + 1
      /\ file.block \in [Pages -> Content]
  BY FileMembers
<1>2. p + 1 \in 0 .. LastPage + 1
  BY LastPageAssumption DEF Pages
<1>3. [file EXCEPT !.size = IF p < file.size THEN file.size ELSE p + 1]
        \in FileValue
  BY <1>1, <1>2 DEF FileValue
<1>4. [file.block EXCEPT ![p] = c] \in [Pages -> Content]
  BY <1>1
<1>5. \A g \in FileValue, bl \in [Pages -> Content] :
        [g EXCEPT !.block = bl] \in FileValue
  BY DEF FileValue
<1>6. file.block = [file EXCEPT !.size = IF p < file.size THEN file.size ELSE p + 1].block
  BY DEF FileValue
<1> QED BY <1>3, <1>4, <1>5, <1>6 DEF WriteAt

\* A write is there at its page, and so is what has been there before.
LEMMA WriteAtHas ==
  ASSUME NEW file \in FileValue, NEW p \in Pages, NEW c \in Content
  PROVE  LET w == WriteAt(file, p, c) IN
         /\ p < w.size /\ w.block[p] = c
         /\ \A q \in Pages \ {p} :
              q < file.size => q < w.size /\ w.block[q] = file.block[q]
<1> DEFINE size == IF p < file.size THEN file.size ELSE p + 1
           block == [file.block EXCEPT ![p] = c]
<1>1. WriteAt(file, p, c) = [[file EXCEPT !.size = size] EXCEPT !.block = block]
  BY DEF WriteAt
<1>2. /\ WriteAt(file, p, c).size = size
      /\ WriteAt(file, p, c).block = block
  BY <1>1 DEF FileValue
<1>3. /\ file.size \in 0 .. LastPage + 1
      /\ file.block \in [Pages -> Content]
  BY FileMembers
<1>4. p < size /\ block[p] = c
  BY <1>3, LastPageAssumption DEF Pages
<1>5. \A q \in Pages \ {p} : q < file.size => q < size /\ block[q] = file.block[q]
  BY <1>3, LastPageAssumption DEF Pages
<1> HIDE DEF size, block
<1> QED BY <1>2, <1>4, <1>5

LEMMA CrashedGood ==
  ASSUME NEW N \in Nat \ {0}, NEW H, NEW s \in Pool(N), Shaped(N, H, s)
  PROVE  Good(N, H, Crashed(s)) /\ Crashed(s).frame = s.frame
<1>1. Crashed(s) \in Pool(N)
  BY SetStatus DEF Crashed
<1>2. Crashed(s).frame = s.frame
  BY DEF Crashed, Pool
<1> QED BY <1>1, <1>2, ShapeOfFrames DEF Good

\* Reading a page changes no frame and no counter.
LEMMA ReadIntoGood ==
  ASSUME NEW N \in Nat \ {0}, NEW H,
         NEW s \in Pool(N), Shaped(N, H, s), NEW p \in Pages, NEW b \in Bufs,
         NEW u \in Undefined
  PROVE  LET r == ReadInto(s, p, b, u)
         IN  /\ Good(N, H, r)
             /\ r.frame = s.frame
             /\ r.strategy = s.strategy
<1> DEFINE opened == s.file.exists /\ s.streams < MaxStreams
           k == IF opened THEN s.streams + 1 ELSE s.streams
           c == IF opened /\ p < s.file.size THEN s.file.block[p] ELSE u.content
           t == [s EXCEPT !.streams = k]
           h == [s.heap EXCEPT ![b] = c]
           r == [t EXCEPT !.heap = h]
<1>1. u.content \in Content
  BY DEF Undefined
<1>2. c \in Content
  BY <1>1, PoolMembers, FileMembers
<1>3. k \in 0 .. MaxStreams
  BY PoolMembers, StreamsAssumption
<1>4. t \in Pool(N)
  BY <1>3, SetStreams
<1>5. h \in [Bufs -> Content]
  BY <1>2, PoolMembers
<1>6. r \in Pool(N)
  <2> HIDE DEF t, h
  <2> QED BY <1>4, <1>5, SetHeap
<1>7. r.frame = s.frame /\ r.strategy = s.strategy
  BY DEF Pool
<1>8. Good(N, H, r)
  BY <1>6, <1>7, ShapeOfFrames DEF Good
<1>9. t.heap = s.heap
  BY DEF Pool
<1>10. ReadInto(s, p, b, u) = r \/ ReadInto(s, p, b, u) = Crashed(s)
  BY <1>9 DEF ReadInto
<1>11. Crashed(s).strategy = s.strategy
  BY DEF Crashed, Pool
<1> HIDE DEF r
<1> QED BY <1>7, <1>8, <1>10, <1>11, CrashedGood

\* Writing a frame out needs a page and a buffer to write; it moves nothing.
LEMMA WriteFrameGood ==
  ASSUME NEW N \in Nat \ {0}, NEW H,
         NEW s \in Pool(N), Shaped(N, H, s), NEW f \in Occupied(N, s)
  PROVE  LET w == WriteFrame(s, f)
         IN  /\ Good(N, H, w)
             /\ Occupied(N, w) = Occupied(N, s)
             /\ \A g \in Frames(N) : /\ w.frame[g].page = s.frame[g].page
                                     /\ w.frame[g].data = s.frame[g].data
<1> DEFINE fr == s.frame[f]
           file == WriteAt(s.file, fr.page, s.heap[fr.data])
           clean == [fr EXCEPT !.dirty = FALSE]
           fs == [s.frame EXCEPT ![f] = clean]
           t1 == [s EXCEPT !.streams = s.streams + 1]
           t2 == [t1 EXCEPT !.file = file]
           w == [t2 EXCEPT !.frame = fs]
<1>1. f \in Frames(N) /\ fr.page \in Pages /\ fr.data \in Bufs /\ fr \in Frame
  BY OccupiedMembers, PoolMembers
<1>2. file \in FileValue
  BY <1>1, WriteAtType, PoolMembers
<1>3. clean \in Frame /\ clean.page = fr.page /\ clean.data = fr.data
  BY <1>1, SetDirty DEF Frame
<1>4. fs \in [Frames(N) -> Frame]
  BY <1>3, PoolMembers
<1>5. CASE s.file.exists /\ s.streams + 1 < MaxStreams
  <2>1. t1 \in Pool(N)
    BY <1>5, SetStreams, PoolMembers, StreamsAssumption
  <2>2. t2 \in Pool(N)
    <3> HIDE DEF t1, file
    <3> QED BY <2>1, <1>2, SetFile
  <2>3. w \in Pool(N)
    <3> HIDE DEF t2, fs
    <3> QED BY <2>2, <1>4, SetFrames
  <2>4. w.frame = fs
    BY <2>3 DEF Pool
  <2>5. WriteFrame(s, f) = w
    BY <1>5 DEF WriteFrame
  <2>6. \A g \in Frames(N) : /\ fs[g].page = s.frame[g].page
                             /\ fs[g].data = s.frame[g].data
                             /\ g \notin Occupied(N, s) => fs[g] = s.frame[g]
    <3> HIDE DEF clean, fr
    <3> QED BY <1>1, <1>3, PoolMembers DEF fr
  <2> HIDE DEF w, fs
  <2>7. Shaped(N, H, w) /\ Occupied(N, w) = Occupied(N, s)
    BY <2>4, <2>6, ShapeKept
  <2> QED BY <2>3, <2>4, <2>5, <2>6, <2>7 DEF Good
<1>6. CASE ~(s.file.exists /\ s.streams + 1 < MaxStreams)
  <2>1. WriteFrame(s, f) = Crashed(s)
    BY <1>6 DEF WriteFrame
  <2> QED BY <2>1, CrashedGood DEF Occupied
<1> QED BY <1>5, <1>6

LEMMA WriteInvokeGood ==
  ASSUME NEW N \in Nat \ {0}, NEW H,
         NEW s \in Pool(N), Shaped(N, H, s), NEW f \in Occupied(N, s)
  PROVE  LET w == WriteInvoke(s, f)
         IN  /\ Good(N, H, w)
             /\ Occupied(N, w) = Occupied(N, s)
             /\ \A g \in Frames(N) : /\ w.frame[g].page = s.frame[g].page
                                     /\ w.frame[g].data = s.frame[g].data
<1>1. CASE PointersFitInt
  BY <1>1, WriteFrameGood DEF WriteInvoke
<1>2. CASE ~PointersFitInt
  <2>1. WriteInvoke(s, f) = Crashed(s)
    BY <1>2 DEF WriteInvoke
  <2> QED BY <2>1, CrashedGood DEF Occupied
<1> QED BY <1>1, <1>2

-----------------------------------------------------------------------------
(* Replacement in a full pool *)

\* pg is a frame value for a page that is in no frame, in a buffer of its own.
NewPage(N, s, pg) ==
  /\ pg \in Frame
  /\ pg.page \in Pages
  /\ pg.data \in Bufs
  /\ \A g \in Frames(N) : s.frame[g].page # pg.page /\ s.frame[g].data # pg.data

LEMMA ReplaceGood ==
  ASSUME NEW N \in Nat \ {0}, NEW H,
         NEW s \in Pool(N), Shaped(N, H, s), NEW f \in Occupied(N, s), NEW pg, NewPage(N, s, pg)
  PROVE  Good(N, H, Replace(s, f, pg))
<1> DEFINE w == IF s.frame[f].dirty THEN WriteInvoke(s, f) ELSE s
           new == [pg EXCEPT !.lfuPage = s.frame[f].lfuPage]
           t == [w EXCEPT !.frame = [w.frame EXCEPT ![f] = new]]
<1>1. f \in Frames(N) /\ s.frame[f] \in Frame
  BY PoolMembers DEF Occupied
<1>2. /\ w \in Pool(N) /\ Shaped(N, H, w) /\ Occupied(N, w) = Occupied(N, s)
      /\ \A g \in Frames(N) : /\ w.frame[g].page = s.frame[g].page
                              /\ w.frame[g].data = s.frame[g].data
  BY WriteInvokeGood DEF Good
<1>3. new \in Frame /\ new.page = pg.page /\ new.data = pg.data
  <2>1. s.frame[f].lfuPage \in Int
    BY <1>1, FrameMembers
  <2> QED BY <2>1, SetLfuPage DEF NewPage, Frame
<1>4. Replace(s, f, pg) = IF Running(w) THEN t ELSE w
  BY DEF Replace
<1>5. \A g \in Frames(N) : g < f => g \in Occupied(N, w)
  BY <1>2 DEF Shaped, OccupiedIsPrefix
<1> HIDE DEF w, new
<1>6. [w.frame EXCEPT ![f] = new] \in [Frames(N) -> Frame]
  BY <1>2, <1>3, PoolMembers
<1>7. t \in Pool(N) /\ t.frame = [w.frame EXCEPT ![f] = new]
  <2>1. t \in Pool(N)
    BY <1>2, <1>6, SetFrames
  <2> QED BY <2>1, <1>2 DEF Pool
<1> HIDE DEF t
<1>8. Shaped(N, H, t)
  <2>1. /\ new.page \in Pages /\ new.data \in Bufs
        /\ \A g \in Frames(N) : w.frame[g].page # new.page
        /\ \A g \in Frames(N) : w.frame[g].data # new.data
    BY <1>2, <1>3 DEF NewPage
  <2> QED BY <2>1, <1>1, <1>2, <1>3, <1>5, <1>7, PoolMembers, ShapePut
<1> QED BY <1>2, <1>4, <1>7, <1>8 DEF Good

LEMMA FIFOGood ==
  ASSUME NEW N \in Nat \ {0}, NEW H,
         NEW s \in Pool(N), Shaped(N, H, s), Occupied(N, s) = Frames(N),
         NEW pg, NewPage(N, s, pg), NEW u \in Undefined
  PROVE  Good(N, H, FIFO(N, s, pg, u))
<1> DEFINE start == s.pageCounter % N
           free == {f \in start .. N - 1 : s.frame[f].clientCount = 0}
<1>1. start \in Frames(N)
  BY ModFrame, PoolMembers
<1>2. free \subseteq Frames(N) /\ free \in SUBSET Nat
  <2> HIDE DEF start
  <2> QED BY <1>1 DEF Frames
<1>3. CASE free # {}
  <2>1. Least(free) \in Occupied(N, s)
    <3> HIDE DEF free
    <3> QED BY <1>2, <1>3, LeastIsMember
  <2>2. FIFO(N, s, pg, u) = Replace(s, Least(free), pg)
    BY <1>3 DEF FIFO
  <2> HIDE DEF free
  <2> QED BY <2>1, <2>2, ReplaceGood
<1>4. CASE free = {}
  <2>1. FIFO(N, s, pg, u) \in {s, Crashed(s)}
    BY <1>4 DEF FIFO
  <2> QED BY <2>1, CrashedGood DEF Good
<1> QED BY <1>3, <1>4

LEMMA LRUGood ==
  ASSUME NEW N \in Nat \ {0}, NEW H,
         NEW s \in Pool(N), Shaped(N, H, s), Occupied(N, s) = Frames(N),
         NEW pg, NewPage(N, s, pg)
  PROVE  Good(N, H, LRU(N, s, pg))
<1> DEFINE v == [f \in Frames(N) |-> s.frame[f].lruPage]
<1>1. v \in [Frames(N) -> Int]
  BY PoolMembers, FrameMembers
<1>2. LastLeast(N, v) \in Occupied(N, s)
  BY <1>1, LastLeastIsFrame
<1> QED BY <1>2, ReplaceGood DEF LRU

LEMMA CLOCKGood ==
  ASSUME NEW N \in Nat \ {0}, NEW H,
         NEW s \in Pool(N), Shaped(N, H, s), Occupied(N, s) = Frames(N),
         NEW pg, NewPage(N, s, pg), NEW u \in Undefined
  PROVE  Good(N, H, CLOCK(N, s, pg, u))
<1> DEFINE hand == IF s.lastEntry % N = 0 THEN 0 ELSE s.lastEntry
           past == IF u.luck = "crash" THEN Crashed(s) ELSE s
           took == IF hand < N THEN Replace(s, hand, pg) ELSE past
           next == IF hand >= N /\ u.luck = "busy" THEN hand ELSE hand + 1
           t == [took EXCEPT !.lastEntry = next]
<1>1. hand \in Nat
  BY PoolMembers
<1>2. next \in Nat
  BY <1>1
<1>3. Good(N, H, took)
  <2>1. CASE hand < N
    <3>1. hand \in Occupied(N, s)
      BY <1>1, <2>1 DEF Frames
    <3> HIDE DEF hand
    <3> QED BY <2>1, <3>1, ReplaceGood
  <2>2. CASE ~(hand < N)
    BY <2>2, CrashedGood DEF Good
  <2> QED BY <2>1, <2>2
<1>4. CLOCK(N, s, pg, u) = t
  BY DEF CLOCK
<1> HIDE DEF took, next
<1>5. t \in Pool(N) /\ t.frame = took.frame
  BY <1>2, <1>3, SetLastEntry DEF Good, Pool
<1> QED BY <1>3, <1>4, <1>5, ShapeOfFrames DEF Good

LEMMA LFUGood ==
  ASSUME NEW N \in Nat \ {0}, NEW H,
         NEW s \in Pool(N), Shaped(N, H, s), Occupied(N, s) = Frames(N),
         NEW pg, NewPage(N, s, pg)
  PROVE  Good(N, H, LFU(N, s, pg))
<1> DEFINE at(k) == (s.lastPtr + 1 + k) % N
           v == [k \in Frames(N) |-> s.frame[at(k)].lfuPage]
           victim == at(LastLeast(N, v))
           r == Replace(s, victim, pg)
           t == [r EXCEPT !.lastPtr = victim + 1]
<1>1. \A k \in Frames(N) : at(k) \in Frames(N)
  <2>1. \A k \in Frames(N) : s.lastPtr + 1 + k \in Nat
    BY PoolMembers DEF Frames
  <2> QED BY <2>1, ModFrame
<1> HIDE DEF at
<1>2. v \in [Frames(N) -> Int]
  BY <1>1, PoolMembers, FrameMembers
<1> HIDE DEF v
<1>3. victim \in Occupied(N, s)
  BY <1>1, <1>2, LastLeastIsFrame
<1>4. victim + 1 \in Nat
  <2> HIDE DEF victim
  <2> QED BY <1>3 DEF Frames
<1>5. LFU(N, s, pg) = t
  BY DEF LFU, at, v
<1> HIDE DEF victim
<1>6. Good(N, H, r)
  BY <1>3, ReplaceGood
<1> HIDE DEF r
<1>7. t \in Pool(N) /\ t.frame = r.frame
  BY <1>4, <1>6, SetLastPtr DEF Good, Pool
<1> QED BY <1>5, <1>6, <1>7, ShapeOfFrames DEF Good

-----------------------------------------------------------------------------
(* pinPage *)

\* p is a page that pinPage has to read, b a buffer no frame points to.
Fresh(N, s, p, b) ==
  /\ p \in Pages
  /\ b \in Bufs
  /\ \A g \in Frames(N) : s.frame[g].page # p /\ s.frame[g].data # b

LEMMA LoadFullGood ==
  ASSUME NEW N \in Nat \ {0}, NEW H,
         NEW s \in Pool(N), Shaped(N, H, s), Occupied(N, s) = Frames(N),
         NEW p, NEW b, Fresh(N, s, p, b), NEW u \in Undefined
  PROVE  Good(N, H, LoadFull(N, s, p, b, u))
<1> DEFINE pg == [page |-> p, data |-> b, dirty |-> FALSE, clientCount |-> 1,
                  lruPage |-> u.lruPage, lfuPage |-> 0]
           t1 == [s EXCEPT !.lastPg = s.lastPg + 1]
           t  == [t1 EXCEPT !.pageCounter = s.pageCounter + 1]
<1>1. t1 \in Pool(N)
  BY PoolMembers, SetLastPg
<1>2. t \in Pool(N)
  <2>1. s.pageCounter + 1 \in Nat
    BY PoolMembers
  <2> HIDE DEF t1
  <2> QED BY <1>1, <2>1, SetPageCounter
<1>3. t.frame = s.frame
  BY DEF Pool
<1>4. t1.pageCounter = s.pageCounter
  BY DEF Pool
<1>5. u.lruPage \in Int
  BY JunkAssumption DEF Undefined
<1>6. pg \in Frame
  BY <1>5 DEF Frame, Fresh
<1>7. NewPage(N, t, pg)
  BY <1>3, <1>6 DEF NewPage, Fresh
<1>8. Shaped(N, H, t) /\ Occupied(N, t) = Frames(N)
  BY <1>3, ShapeOfFrames DEF Occupied
<1>9. LoadFull(N, s, p, b, u) \in {FIFO(N, t, pg, u), LRU(N, t, pg), CLOCK(N, t, pg, u),
                                LFU(N, t, pg), t}
  BY <1>4 DEF LoadFull
<1> HIDE DEF t, pg
<1> QED BY <1>2, <1>7, <1>8, <1>9, FIFOGood, LRUGood, CLOCKGood, LFUGood DEF Good

LEMMA LoadEmptyGood ==
  ASSUME NEW N \in Nat \ {0}, NEW H,
         NEW s \in Pool(N), Shaped(N, H, s), NEW p, NEW b, Fresh(N, s, p, b),
         NEW f \in Frames(N), \A g \in Frames(N) : g < f => g \in Occupied(N, s)
  PROVE  Good(N, H, LoadEmpty(s, f, p, b))
<1> DEFINE fr == s.frame[f]
           Put(pg) == [s EXCEPT !.frame = [s.frame EXCEPT ![f] = pg]]
<1>1. fr \in Frame
  BY PoolMembers
<1>2. ASSUME NEW count \in Int, NEW age \in Int
      PROVE  LET pg == Loaded(fr, p, b, count, age)
             IN  Put(pg) \in Pool(N) /\ Shaped(N, H, Put(pg))
  <2> DEFINE pg == Loaded(fr, p, b, count, age)
  <2>1. pg \in Frame /\ pg.page = p /\ pg.data = b
    BY <1>1, FrameMembers DEF Loaded, Frame, Fresh
  <2> HIDE DEF pg, fr
  <2>2. [s.frame EXCEPT ![f] = pg] \in [Frames(N) -> Frame]
    BY <2>1, PoolMembers
  <2>3. Put(pg) \in Pool(N)
    BY <2>2, SetFrames
  <2>4. Put(pg).frame = [s.frame EXCEPT ![f] = pg]
    BY DEF Pool
  <2> HIDE DEF Put
  <2>5. Shaped(N, H, Put(pg))
    BY <2>1, <2>4, PoolMembers, ShapePut DEF Fresh
  <2> QED BY <2>3, <2>5 DEF pg
<1>3. CASE f = 0
  <2>1. LoadEmpty(s, f, p, b) = Put(Loaded(fr, p, b, fr.clientCount + 1, 0))
    BY <1>3 DEF LoadEmpty, LoadFirst
  <2>2. fr.clientCount + 1 \in Int
    BY <1>1, FrameMembers
  <2> HIDE DEF Put, fr
  <2> QED BY <1>2, <2>1, <2>2 DEF Good
<1>4. CASE f # 0
  <2> DEFINE age == CASE s.strategy = "CLOCK" -> 1
                      [] s.strategy = "LRU"   -> s.lastPg + 1
                      [] OTHER                -> 0
             t == Put(Loaded(fr, p, b, 1, age))
             t1 == [t EXCEPT !.pageCounter = s.pageCounter + 1]
             t2 == [t1 EXCEPT !.lastPg = s.lastPg + 1]
  <2>1. age \in Int /\ s.pageCounter + 1 \in Nat /\ s.lastPg + 1 \in Nat
    BY PoolMembers
  <2>2. LoadEmpty(s, f, p, b) = t2
    BY <1>4 DEF LoadEmpty, LoadOther
  <2> HIDE DEF age, Put, fr
  <2>3. t \in Pool(N) /\ Shaped(N, H, t)
    BY <1>2, <2>1
  <2> HIDE DEF t
  <2>4. t1 \in Pool(N) /\ t1.frame = t.frame
    BY <2>1, <2>3, SetPageCounter DEF Pool
  <2> HIDE DEF t1
  <2>5. t2 \in Pool(N) /\ t2.frame = t1.frame
    BY <2>1, <2>4, SetLastPg DEF Pool
  <2> HIDE DEF t2
  <2> QED BY <2>2, <2>3, <2>4, <2>5, ShapeOfFrames DEF Good
<1> QED BY <1>3, <1>4

LEMMA HitFrameGood ==
  ASSUME NEW N \in Nat \ {0}, NEW H,
         NEW s \in Pool(N), Shaped(N, H, s), NEW f \in Occupied(N, s)
  PROVE  Good(N, H, HitFrame(s, f))
<1> DEFINE fr == s.frame[f]
           lru == IF s.strategy \in {"LRU", "CLOCK"} THEN 1 ELSE fr.lruPage
           lfu == IF s.strategy = "LFU" THEN 1 ELSE fr.lfuPage
           f1 == [fr EXCEPT !.clientCount = fr.clientCount + 1]
           f2 == [f1 EXCEPT !.lruPage = lru]
           f3 == [f2 EXCEPT !.lfuPage = lfu]
           fs == [s.frame EXCEPT ![f] = f3]
           t1 == [s EXCEPT !.frame = fs]
           t2 == [t1 EXCEPT !.lastPg = s.lastPg + 1]
           t3 == [t2 EXCEPT !.lastEntry = s.lastEntry + 1]
<1>1. f \in Frames(N) /\ fr \in Frame
  BY PoolMembers DEF Occupied
<1>2. fr.clientCount + 1 \in Int /\ lru \in Int /\ lfu \in Int
  BY <1>1, FrameMembers
<1>3. HitFrame(s, f) = t3
  BY DEF HitFrame
<1>4. f3.page = fr.page /\ f3.data = fr.data
  BY <1>1 DEF Frame
<1>5. f3 \in Frame
  <2> HIDE DEF lru, lfu
  <2>1. f1 \in Frame
    BY <1>1, <1>2, SetClientCount
  <2> HIDE DEF f1
  <2>2. f2 \in Frame
    BY <1>2, <2>1, SetLruPage
  <2> HIDE DEF f2
  <2> QED BY <1>2, <2>2, SetLfuPage
<1> HIDE DEF f3
<1>6. /\ fs \in [Frames(N) -> Frame]
      /\ \A g \in Frames(N) : /\ fs[g].page = s.frame[g].page
                              /\ fs[g].data = s.frame[g].data
                              /\ g \notin Occupied(N, s) => fs[g] = s.frame[g]
  BY <1>1, <1>4, <1>5, PoolMembers
<1>7. s.lastPg + 1 \in Nat /\ s.lastEntry + 1 \in Nat
  BY PoolMembers
<1> HIDE DEF fs
<1>8. t1 \in Pool(N) /\ t1.frame = fs
  BY <1>6, SetFrames DEF Pool
<1> HIDE DEF t1
<1>9. t2 \in Pool(N) /\ t2.frame = fs
  BY <1>7, <1>8, SetLastPg DEF Pool
<1> HIDE DEF t2
<1>10. t3 \in Pool(N) /\ t3.frame = fs
  BY <1>7, <1>9, SetLastEntry DEF Pool
<1> HIDE DEF t3
<1> QED BY <1>3, <1>6, <1>10, ShapeKept DEF Good

\* pinPage: the frame its search stops at is occupied and holds p, or it is
\* the first empty one and p is in no frame at all.
LEMMA StopsCases ==
  ASSUME NEW N \in Nat \ {0}, NEW H, NEW s \in Pool(N), Shaped(N, H, s), NEW p \in Pages
  PROVE  LET f == Least(Stops(N, s, p)) IN
         \/ Stops(N, s, p) = {} /\ Occupied(N, s) = Frames(N)
                                /\ \A g \in Frames(N) : s.frame[g].page # p
         \/ Stops(N, s, p) # {} /\ f \in Occupied(N, s) /\ s.frame[f].page = p
         \/ /\ Stops(N, s, p) # {} /\ f \in Frames(N)
            /\ s.frame[f].page # p
            /\ \A g \in Frames(N) : g < f => g \in Occupied(N, s)
            /\ \A g \in Frames(N) : s.frame[g].page # p
<1> DEFINE f == Least(Stops(N, s, p))
<1>1. p # NoPage
  BY LastPageAssumption DEF Pages, NoPage
<1>2. Stops(N, s, p) \in SUBSET Nat
  BY DEF Stops, Frames
<1>3. CASE Stops(N, s, p) = {}
  BY <1>3 DEF Stops, Occupied
<1>4. CASE Stops(N, s, p) # {}
  <2>1. f \in Stops(N, s, p) /\ \A g \in Stops(N, s, p) : f <= g
    BY <1>2, <1>4, LeastIsMember
  <2>2. f \in Frames(N) /\ Frames(N) \subseteq Int
    BY <2>1 DEF Stops, Frames
  <2> HIDE DEF f
  <2>3. CASE s.frame[f].page = p
    BY <1>1, <1>4, <2>2, <2>3 DEF Occupied, f
  <2>4. CASE s.frame[f].page # p
    <3>1. s.frame[f].page = NoPage
      BY <2>1, <2>4 DEF Stops
    <3>2. ASSUME NEW g \in Frames(N), g < f PROVE g \in Occupied(N, s)
      BY <2>1, <2>2, <3>2 DEF Stops, Occupied
    <3>3. ASSUME NEW g \in Frames(N), s.frame[g].page = p PROVE FALSE
      <4>1. g \in Stops(N, s, p) /\ g \in Occupied(N, s)
        BY <1>1, <3>3 DEF Stops, Occupied
      <4>2. f < g
        BY <2>1, <2>2, <2>4, <3>3, <4>1
      <4>3. f \in Occupied(N, s)
        BY <2>2, <4>1, <4>2 DEF Shaped, OccupiedIsPrefix
      <4> QED BY <3>1, <4>3 DEF Occupied
    <3> QED BY <1>4, <2>2, <2>4, <3>2, <3>3 DEF f
  <2> QED BY <2>3, <2>4
<1> QED BY <1>3, <1>4

LEMMA PinPageGood ==
  ASSUME NEW N \in Nat \ {0}, NEW H,
         NEW s \in Pool(N), Shaped(N, H, s), NEW p \in Pages,
         NEW b \in Bufs, \A g \in Frames(N) : s.frame[g].data # b,
         NEW u \in Undefined
  PROVE  Good(N, H, PinPage(N, s, p, b, u))
<1> DEFINE f == Least(Stops(N, s, p))
           r == ReadInto(s, p, b, u)
<1>1. Good(N, H, r) /\ r.frame = s.frame
  BY ReadIntoGood
<1>2. Occupied(N, r) = Occupied(N, s)
  BY <1>1 DEF Occupied
<1> HIDE DEF r
<1>3. CASE Stops(N, s, p) = {} /\ Occupied(N, s) = Frames(N)
           /\ \A g \in Frames(N) : s.frame[g].page # p
  <2>1. Fresh(N, r, p, b)
    BY <1>1, <1>3 DEF Fresh
  <2>2. PinPage(N, s, p, b, u) \in {r, LoadFull(N, r, p, b, u)}
    BY <1>3 DEF PinPage, r
  <2> QED BY <1>1, <1>2, <1>3, <2>1, <2>2, LoadFullGood DEF Good
<1>4. CASE Stops(N, s, p) # {} /\ f \in Occupied(N, s) /\ s.frame[f].page = p
  <2>1. PinPage(N, s, p, b, u) = HitFrame(s, f)
    BY <1>4 DEF PinPage
  <2> HIDE DEF f
  <2> QED BY <1>4, <2>1, HitFrameGood
<1>5. CASE /\ Stops(N, s, p) # {} /\ f \in Frames(N)
           /\ s.frame[f].page # p
           /\ \A g \in Frames(N) : g < f => g \in Occupied(N, s)
           /\ \A g \in Frames(N) : s.frame[g].page # p
  <2>1. Fresh(N, r, p, b)
    BY <1>1, <1>5 DEF Fresh
  <2>2. PinPage(N, s, p, b, u) \in {r, LoadEmpty(r, f, p, b)}
    BY <1>5 DEF PinPage, r
  <2> HIDE DEF f
  <2> QED BY <1>1, <1>2, <1>5, <2>1, <2>2, LoadEmptyGood DEF Good
<1> QED BY <1>3, <1>4, <1>5, StopsCases

\* The buffer in the caller's handle is a real one.
LEMMA PinnedDataIsBuffer ==
  ASSUME NEW N \in Nat \ {0}, NEW H,
         NEW s \in Pool(N), Shaped(N, H, s), NEW p \in Pages, NEW b \in Bufs
  PROVE  PinnedData(N, s, p, b) \in Bufs
BY StopsCases, OccupiedMembers DEF PinnedData

-----------------------------------------------------------------------------
(* The other calls *)

\* The frame that markDirty, unpinPage and forcePage find.
LEMMA LeastHolding ==
  ASSUME NEW N \in Nat \ {0},
         NEW s \in Pool(N), NEW p \in Pages, Holding(N, s, p) # {}
  PROVE  /\ Least(Holding(N, s, p)) \in Occupied(N, s)
         /\ s.frame[Least(Holding(N, s, p))].page = p
<1>1. Holding(N, s, p) \in SUBSET Nat
  BY DEF Holding, Frames
<1>2. Least(Holding(N, s, p)) \in Holding(N, s, p)
  BY <1>1, LeastIsMember
<1>3. p # NoPage
  BY LastPageAssumption DEF Pages, NoPage
<1> QED BY <1>2, <1>3 DEF Holding, Occupied

\* A step that gives occupied frame f a value with the same page and buffer.
LEMMA TouchGood ==
  ASSUME NEW N \in Nat \ {0}, NEW H,
         NEW s \in Pool(N), Shaped(N, H, s), NEW f \in Occupied(N, s), NEW fr \in Frame,
         fr.page = s.frame[f].page, fr.data = s.frame[f].data
  PROVE  Good(N, H, [s EXCEPT !.frame = [s.frame EXCEPT ![f] = fr]])
<1> DEFINE fs == [s.frame EXCEPT ![f] = fr]
           t == [s EXCEPT !.frame = fs]
<1>1. /\ fs \in [Frames(N) -> Frame]
      /\ \A g \in Frames(N) : /\ fs[g].page = s.frame[g].page
                              /\ fs[g].data = s.frame[g].data
                              /\ g \notin Occupied(N, s) => fs[g] = s.frame[g]
  BY PoolMembers DEF Occupied
<1> HIDE DEF fs
<1>2. t \in Pool(N) /\ t.frame = fs
  BY <1>1, SetFrames DEF Pool
<1> HIDE DEF t
<1>3. Good(N, H, t)
  BY <1>1, <1>2, ShapeKept DEF Good
<1> QED BY <1>3 DEF t, fs

LEMMA MarkDirtyGood ==
  ASSUME NEW N \in Nat \ {0}, NEW H, NEW s \in Pool(N), Shaped(N, H, s), NEW p \in Pages
  PROVE  Good(N, H, MarkDirty(N, s, p))
<1> DEFINE f == Least(Holding(N, s, p))
           fr == [s.frame[f] EXCEPT !.dirty = TRUE]
<1>1. CASE Holding(N, s, p) = {}
  BY <1>1 DEF MarkDirty, Good
<1>2. CASE Holding(N, s, p) # {}
  <2>1. f \in Occupied(N, s) /\ f \in Frames(N)
    BY <1>2, LeastHolding DEF Occupied
  <2>2. MarkDirty(N, s, p) = [s EXCEPT !.frame = [s.frame EXCEPT ![f] = fr]]
    BY <1>2 DEF MarkDirty
  <2> HIDE DEF f
  <2>3. s.frame[f] \in Frame
    BY <2>1, PoolMembers
  <2>4. fr \in Frame /\ fr.page = s.frame[f].page /\ fr.data = s.frame[f].data
    BY <2>3, SetDirty DEF Frame
  <2> HIDE DEF fr
  <2> QED BY <2>1, <2>2, <2>4, TouchGood
<1> QED BY <1>1, <1>2

LEMMA UnpinPageGood ==
  ASSUME NEW N \in Nat \ {0}, NEW H, NEW s \in Pool(N), Shaped(N, H, s), NEW p \in Pages
  PROVE  Good(N, H, UnpinPage(N, s, p))
<1> DEFINE f == Least(Holding(N, s, p))
           fr == [s.frame[f] EXCEPT !.clientCount = s.frame[f].clientCount - 1]
<1>1. CASE Holding(N, s, p) = {}
  BY <1>1 DEF UnpinPage, Good
<1>2. CASE Holding(N, s, p) # {}
  <2>1. f \in Occupied(N, s) /\ f \in Frames(N)
    BY <1>2, LeastHolding DEF Occupied
  <2>2. UnpinPage(N, s, p) = [s EXCEPT !.frame = [s.frame EXCEPT ![f] = fr]]
    BY <1>2 DEF UnpinPage
  <2> HIDE DEF f
  <2>3. s.frame[f] \in Frame /\ s.frame[f].clientCount - 1 \in Int
    BY <2>1, PoolMembers, FrameMembers
  <2>4. fr \in Frame /\ fr.page = s.frame[f].page /\ fr.data = s.frame[f].data
    BY <2>3, SetClientCount DEF Frame
  <2> HIDE DEF fr
  <2> QED BY <2>1, <2>2, <2>4, TouchGood
<1> QED BY <1>1, <1>2

\* What markDirty does to the frame it finds, and to no other.
LEMMA MarkEffect ==
  ASSUME NEW N \in Nat \ {0}, NEW s \in Pool(N), NEW p \in Pages
  PROVE  LET t == MarkDirty(N, s, p) IN
         /\ t.heap = s.heap /\ t.file = s.file /\ t.status = s.status
         /\ \A f \in Frames(N) :
              /\ t.frame[f].page = s.frame[f].page /\ t.frame[f].data = s.frame[f].data
              /\ t.frame[f].clientCount = s.frame[f].clientCount
              /\ s.frame[f].dirty => t.frame[f].dirty
              /\ f \notin Occupied(N, s) => t.frame[f] = s.frame[f]
         /\ Holding(N, s, p) # {} =>
              \E f \in Frames(N) : s.frame[f].page = p /\ t.frame[f].dirty
<1> DEFINE f == Least(Holding(N, s, p))
           fr == [s.frame[f] EXCEPT !.dirty = TRUE]
           t == MarkDirty(N, s, p)
<1>1. CASE Holding(N, s, p) = {}
  BY <1>1 DEF MarkDirty
<1>2. CASE Holding(N, s, p) # {}
  <2>1. f \in Occupied(N, s) /\ f \in Frames(N) /\ s.frame[f].page = p
    BY <1>2, LeastHolding DEF Occupied
  <2>2. t = [s EXCEPT !.frame = [s.frame EXCEPT ![f] = fr]]
    BY <1>2 DEF MarkDirty
  <2> HIDE DEF f
  <2>3. s.frame \in [Frames(N) -> Frame]
    BY PoolMembers
  <2>4. /\ fr.dirty /\ fr.page = s.frame[f].page /\ fr.data = s.frame[f].data
        /\ fr.clientCount = s.frame[f].clientCount
    BY <2>1, <2>3 DEF Frame
  <2> HIDE DEF fr, t
  <2>5. /\ t.heap = s.heap /\ t.file = s.file /\ t.status = s.status
        /\ t.frame = [s.frame EXCEPT ![f] = fr]
    BY <2>2 DEF Pool
  <2> QED BY <2>1, <2>3, <2>4, <2>5 DEF t
<1> QED BY <1>1, <1>2

\* What unpinPage does.
LEMMA UnpinEffect ==
  ASSUME NEW N \in Nat \ {0}, NEW s \in Pool(N), NEW p \in Pages
  PROVE  LET t == UnpinPage(N, s, p) IN
         /\ t.heap = s.heap /\ t.file = s.file /\ t.status = s.status
         /\ t.strategy = s.strategy /\ t.pageCounter = s.pageCounter
         /\ \A f \in Frames(N) :
              /\ t.frame[f].page = s.frame[f].page /\ t.frame[f].data = s.frame[f].data
              /\ t.frame[f].dirty = s.frame[f].dirty
              /\ s.frame[f].page # p => t.frame[f] = s.frame[f]
         /\ \E f \in Frames(N) :
              /\ \A g \in Frames(N) \ {f} : t.frame[g] = s.frame[g]
              /\ Holding(N, s, p) # {} =>
                   /\ s.frame[f].page = p
                   /\ t.frame[f].clientCount = s.frame[f].clientCount - 1
<1> DEFINE f == Least(Holding(N, s, p))
           fr == [s.frame[f] EXCEPT !.clientCount = s.frame[f].clientCount - 1]
           t == UnpinPage(N, s, p)
<1>1. CASE Holding(N, s, p) = {}
  <2>1. 0 \in Frames(N)
    BY DEF Frames
  <2> QED BY <1>1, <2>1 DEF UnpinPage
<1>2. CASE Holding(N, s, p) # {}
  <2>1. f \in Occupied(N, s) /\ f \in Frames(N) /\ s.frame[f].page = p
    BY <1>2, LeastHolding DEF Occupied
  <2>2. t = [s EXCEPT !.frame = [s.frame EXCEPT ![f] = fr]]
    BY <1>2 DEF UnpinPage
  <2> HIDE DEF f
  <2>3. s.frame \in [Frames(N) -> Frame]
    BY PoolMembers
  <2>4. /\ fr.dirty = s.frame[f].dirty /\ fr.page = s.frame[f].page
        /\ fr.data = s.frame[f].data
        /\ fr.clientCount = s.frame[f].clientCount - 1
    BY <2>1, <2>3 DEF Frame
  <2> HIDE DEF fr, t
  <2>5. /\ t.heap = s.heap /\ t.file = s.file /\ t.status = s.status
        /\ t.strategy = s.strategy /\ t.pageCounter = s.pageCounter
        /\ t.frame = [s.frame EXCEPT ![f] = fr]
    BY <2>2 DEF Pool
  <2> QED BY <2>1, <2>3, <2>4, <2>5 DEF t
<1> QED BY <1>1, <1>2

LEMMA ForcePageGood ==
  ASSUME NEW N \in Nat \ {0}, NEW H, NEW s \in Pool(N), Shaped(N, H, s), NEW p \in Pages
  PROVE  Good(N, H, ForcePage(N, s, p))
BY LeastHolding, WriteFrameGood DEF ForcePage, Good

\* What a flush writes: the dues come first in the order of the frames, as
\* many as there are streams for; so their number fits in the streams left.
LEMMA RanksFit ==
  ASSUME NEW N \in Nat \ {0},
         NEW due \in SUBSET Frames(N), NEW written \in SUBSET due,
         NEW k \in 0 .. MaxStreams,
         \A f \in written : k + Cardinality({g \in due : g <= f}) < MaxStreams
  PROVE  k + Cardinality(written) \in 0 .. MaxStreams
<1>1. IsFiniteSet(Frames(N))
  BY FS_Interval DEF Frames
<1>2. IsFiniteSet(written)
  BY <1>1, FS_Subset
<1>3. CASE written = {}
  BY <1>3, FS_EmptySet, StreamsAssumption
<1>4. CASE written # {}
  <2> DEFINE T == {n \in Nat : \E f \in written : n = N - f}
  <2>1. PICK n \in T : \A m \in T : n <= m
    <3>1. T # {}
      <4>1. PICK f \in written : f \in Frames(N)
        BY <1>4
      <4>2. N - f \in T
        BY <4>1 DEF Frames
      <4> QED BY <4>2
    <3>2. T \in SUBSET Nat
      OBVIOUS
    <3> HIDE DEF T
    <3> QED BY <3>1, <3>2, LeastNat
  <2>2. PICK f \in written : n = N - f
    BY <2>1
  <2>3. \A g \in written : N - g \in T
    BY DEF Frames
  <2>4. \A g \in written : g <= f
    <3> TAKE g \in written
    <3>1. n <= N - g
      BY <2>1, <2>3
    <3> QED BY <2>2, <3>1 DEF Frames
  <2> DEFINE upto == {g \in due : g <= f}
  <2>5. written \subseteq upto /\ upto \subseteq Frames(N)
    BY <2>4
  <2>6. IsFiniteSet(upto)
    BY <1>1, <2>5, FS_Subset
  <2>7. Cardinality(written) <= Cardinality(upto)
    BY <2>5, <2>6, FS_Subset
  <2>8. k + Cardinality(upto) < MaxStreams
    BY <2>2
  <2>9. Cardinality(written) \in Nat /\ Cardinality(upto) \in Nat
    BY <1>2, <2>6, FS_CardinalityType
  <2> HIDE DEF upto
  <2> QED BY <2>7, <2>8, <2>9, StreamsAssumption
<1> QED BY <1>3, <1>4

LEMMA ForceFlushPoolGood ==
  ASSUME NEW N \in Nat \ {0}, NEW H, NEW s \in Pool(N), Shaped(N, H, s)
  PROVE  Good(N, H, ForceFlushPool(N, s))
<1> DEFINE due == {f \in Frames(N) : s.frame[f].clientCount = 0 /\ s.frame[f].dirty}
           rank(f) == Cardinality({g \in due : g <= f})
           written == {f \in due : /\ PointersFitInt
                                   /\ s.file.exists
                                   /\ s.streams + rank(f) < MaxStreams}
           of(p) == {f \in written : s.frame[f].page = p}
           covers == {n \in s.file.size .. LastPage + 1 :
                        \A f \in written : s.frame[f].page < n}
           blocks == [p \in Pages |->
                        IF of(p) = {} THEN s.file.block[p]
                        ELSE s.heap[s.frame[Greatest(of(p))].data]]
           file == [exists |-> s.file.exists, size |-> Least(covers),
                    block |-> blocks]
           k == s.streams + Cardinality(written)
           fs == [f \in Frames(N) |->
                    [s.frame[f] EXCEPT !.dirty = s.frame[f].dirty /\ f \notin written]]
           st == IF written = due THEN s.status ELSE "crashed"
           t1 == [s EXCEPT !.status = st]
           t2 == [t1 EXCEPT !.streams = k]
           t3 == [t2 EXCEPT !.file = file]
           t4 == [t3 EXCEPT !.frame = fs]
<1>1. ForceFlushPool(N, s) = t4
  BY DEF ForceFlushPool
<1>2. st \in {"running", "closed", "crashed"}
  BY PoolMembers
<1>3. due \subseteq Occupied(N, s) /\ due \subseteq Frames(N)
  BY DEF Occupied, Shaped, EmptyIsBlank, EmptyFrame
<1>4. k \in 0 .. MaxStreams
  <2>1. /\ due \in SUBSET Frames(N)
        /\ written \in SUBSET due
        /\ s.streams \in 0 .. MaxStreams
        /\ \A f \in written :
             s.streams + Cardinality({g \in due : g <= f}) < MaxStreams
    BY PoolMembers
  <2> HIDE DEF due, written
  <2> QED BY <2>1, RanksFit
<1>5. \A f \in written : f \in Occupied(N, s)
  BY <1>3
<1>6. \A f \in written : s.frame[f].page \in Pages /\ s.frame[f].data \in Bufs
  BY <1>5, OccupiedMembers
<1>7. fs \in [Frames(N) -> Frame]
  <2>1. ASSUME NEW f \in Frames(N) PROVE fs[f] \in Frame
    <3>1. s.frame[f] \in Frame /\ s.frame[f].dirty \in BOOLEAN
      BY PoolMembers, FrameMembers
    <3> HIDE DEF written
    <3>2. (s.frame[f].dirty /\ f \notin written) \in BOOLEAN
      OBVIOUS
    <3> QED BY <3>1, <3>2, SetDirty
  <2> QED BY <2>1
<1>8. \A f \in Frames(N) : /\ fs[f].page = s.frame[f].page
                           /\ fs[f].data = s.frame[f].data
                           /\ f \notin Occupied(N, s) => fs[f] = s.frame[f]
  <2> TAKE f \in Frames(N)
  <2>1. s.frame[f] \in Frame
    BY PoolMembers
  <2>2. fs[f].page = s.frame[f].page /\ fs[f].data = s.frame[f].data
    <3> HIDE DEF written
    <3> QED BY <2>1 DEF Frame
  <2>3. ASSUME f \notin Occupied(N, s) PROVE fs[f] = s.frame[f]
    <3>1. s.frame[f] = EmptyFrame
      BY <2>3 DEF Shaped, EmptyIsBlank
    <3>2. s.frame[f].dirty = FALSE
      BY <3>1 DEF EmptyFrame
    <3> HIDE DEF written
    <3> QED BY <2>1, <3>2 DEF Frame
  <2> QED BY <2>2, <2>3
<1>9. covers \in SUBSET Nat /\ covers # {} /\ covers \subseteq 0 .. LastPage + 1
  <2>1. s.file.size \in 0 .. LastPage + 1
    BY PoolMembers, FileMembers
  <2>2. LastPage + 1 \in covers
    <3> HIDE DEF written
    <3> QED BY <1>6, <2>1, LastPageAssumption DEF Pages
  <2> HIDE DEF written
  <2> QED BY <2>1, <2>2, LastPageAssumption
<1>10. Least(covers) \in 0 .. LastPage + 1
  <2> HIDE DEF covers
  <2> QED BY <1>9, LeastIsMember
<1>11. blocks \in [Pages -> Content]
  <2>1. ASSUME NEW p \in Pages PROVE blocks[p] \in Content
    <3>1. CASE of(p) = {}
      BY <3>1, PoolMembers, FileMembers
    <3>2. CASE of(p) # {}
      <4>1. Greatest(of(p)) \in of(p)
        <5>1. of(p) \in SUBSET Frames(N)
          OBVIOUS
        <5> HIDE DEF of
        <5> QED BY <3>2, <5>1, GreatestIsMember
      <4>2. Greatest(of(p)) \in written
        <5> HIDE DEF written
        <5> QED BY <4>1
      <4>3. s.heap[s.frame[Greatest(of(p))].data] \in Content
        <5> HIDE DEF written, of
        <5> QED BY <1>6, <4>2, PoolMembers
      <4> HIDE DEF of
      <4> QED BY <3>2, <4>3
    <3> QED BY <3>1, <3>2
  <2> HIDE DEF of
  <2> QED BY <2>1
<1> HIDE DEF st, k, fs, covers, blocks, due, written
<1>12. file \in FileValue
  BY <1>10, <1>11, PoolMembers, FileMembers DEF FileValue
<1> HIDE DEF file
<1>13. t1 \in Pool(N) /\ t1.frame = s.frame
  BY <1>2, SetStatus DEF Pool
<1> HIDE DEF t1
<1>14. t2 \in Pool(N)
  BY <1>4, <1>13, SetStreams
<1> HIDE DEF t2
<1>15. t3 \in Pool(N)
  BY <1>12, <1>14, SetFile
<1> HIDE DEF t3
<1>16. t4 \in Pool(N) /\ t4.frame = fs
  BY <1>7, <1>15, SetFrames DEF Pool
<1> HIDE DEF t4
<1> QED BY <1>1, <1>8, <1>16, ShapeKept DEF Good

LEMMA EmptyShape ==
  ASSUME NEW N \in Nat \ {0}, NEW H,
         NEW s, s.frame = [f \in Frames(N) |-> EmptyFrame]
  PROVE  Shaped(N, H, s)
<1>1. Occupied(N, s) = {}
  BY DEF Occupied, EmptyFrame
<1> QED BY <1>1 DEF Shaped, OccupiedIsPrefix, OneFrameBut,
                    OneBufferPerFrame, EmptyIsBlank

LEMMA EmptyFrameType == EmptyFrame \in Frame
BY DEF EmptyFrame, Frame

LEMMA InitBufferPoolGood ==
  ASSUME NEW N \in Nat \ {0}, NEW H, NEW s \in Pool(N), NEW strategy \in Strategies
  PROVE  Good(N, H, InitBufferPool(N, s, strategy))
<1> DEFINE fs == [f \in Frames(N) |-> EmptyFrame]
           t1 == [s EXCEPT !.status = "running"]
           t2 == [t1 EXCEPT !.strategy = strategy]
           t3 == [t2 EXCEPT !.frame = fs]
           t4 == [t3 EXCEPT !.pageCounter = 0]
           t5 == [t4 EXCEPT !.lastEntry = 0]
           t6 == [t5 EXCEPT !.lastPtr = 0]
<1>1. InitBufferPool(N, s, strategy) = t6
  BY DEF InitBufferPool
<1>2. fs \in [Frames(N) -> Frame] /\ 0 \in Nat
  BY EmptyFrameType
<1> HIDE DEF fs
<1>3. t1 \in Pool(N)
  BY SetStatus
<1> HIDE DEF t1
<1>4. t2 \in Pool(N)
  BY <1>3, SetStrategy
<1> HIDE DEF t2
<1>5. t3 \in Pool(N) /\ t3.frame = fs
  BY <1>2, <1>4, SetFrames DEF Pool
<1> HIDE DEF t3
<1>6. t4 \in Pool(N) /\ t4.frame = fs
  BY <1>5, SetPageCounter DEF Pool
<1> HIDE DEF t4
<1>7. t5 \in Pool(N) /\ t5.frame = fs
  BY <1>6, SetLastEntry DEF Pool
<1> HIDE DEF t5
<1>8. t6 \in Pool(N) /\ t6.frame = fs
  BY <1>2, <1>7, SetLastPtr DEF Pool
<1> HIDE DEF t6
<1> QED BY <1>1, <1>8, EmptyShape DEF fs, Good

LEMMA FreshPoolGood ==
  ASSUME NEW N \in Nat \ {0}, NEW H,
         NEW file \in FileValue, NEW strategy \in Strategies
  PROVE  Good(N, H, FreshPool(N, file, strategy))
<1>1. FreshPool(N, file, strategy) \in Pool(N)
  BY EmptyFrameType, ContentAssumption, StreamsAssumption
  DEF FreshPool, Pool
<1>2. FreshPool(N, file, strategy).frame = [f \in Frames(N) |-> EmptyFrame]
  BY DEF FreshPool
<1> QED BY <1>1, <1>2, EmptyShape DEF Good

LEMMA CollectGood ==
  ASSUME NEW N \in Nat \ {0}, NEW H, NEW s \in Pool(N), Shaped(N, H, s), NEW used
  PROVE  Good(N, H, Collect(s, used))
<1> DEFINE h == [b \in Bufs |-> IF b \in used THEN s.heap[b] ELSE Blank]
           t == [s EXCEPT !.heap = h]
<1>1. h \in [Bufs -> Content]
  BY PoolMembers, ContentAssumption
<1>2. Collect(s, used) = t
  BY DEF Collect
<1> HIDE DEF h
<1>3. t \in Pool(N) /\ t.frame = s.frame
  BY <1>1, SetHeap DEF Pool
<1> HIDE DEF t
<1> QED BY <1>2, <1>3, ShapeOfFrames DEF Good

-----------------------------------------------------------------------------
(* What a call that returns has done *)

\* A read that had a stream shows the block, or junk where there is none.
LEMMA ReadIntoEffect ==
  ASSUME NEW N \in Nat \ {0},
         NEW s \in Pool(N), NEW p \in Pages, NEW b \in Bufs, NEW u \in Undefined,
         s.file.exists, s.streams < MaxStreams, Running(s),
         Running(ReadInto(s, p, b, u))
  PROVE  LET r == ReadInto(s, p, b, u)
             c == IF p < s.file.size THEN s.file.block[p] ELSE u.content
         IN  /\ r.file = s.file /\ r.frame = s.frame
             /\ r.strategy = s.strategy /\ r.lastEntry = s.lastEntry
             /\ r.heap = [s.heap EXCEPT ![b] = c]
<1> DEFINE c == IF p < s.file.size THEN s.file.block[p] ELSE u.content
           r == [s EXCEPT !.streams = s.streams + 1,
                          !.heap = [s.heap EXCEPT ![b] = c]]
<1>1. ReadInto(s, p, b, u) = r \/ ReadInto(s, p, b, u) = Crashed(s)
  BY DEF ReadInto
<1>2. Crashed(s).status = "crashed"
  BY DEF Crashed, Pool
<1>3. ReadInto(s, p, b, u) = r
  BY <1>1, <1>2 DEF Running
<1>4. /\ r.file = s.file /\ r.frame = s.frame /\ r.strategy = s.strategy
      /\ r.lastEntry = s.lastEntry /\ r.heap = [s.heap EXCEPT ![b] = c]
  BY DEF Pool
<1> HIDE DEF r
<1> QED BY <1>3, <1>4

LEMMA WriteInvokeEffect ==
  ASSUME NEW N \in Nat \ {0}, NEW s \in Pool(N), NEW f \in Frames(N), NEW w,
         w = WriteFrame(s, f) \/ w = WriteInvoke(s, f), Running(w)
  PROVE  /\ w.file = WriteAt(s.file, s.frame[f].page, s.heap[s.frame[f].data])
         /\ w.frame = [s.frame EXCEPT ![f] = [s.frame[f] EXCEPT !.dirty = FALSE]]
         /\ w.heap = s.heap
         /\ w.strategy = s.strategy
         /\ w.status = s.status
<1> DEFINE fr == s.frame[f]
           file == WriteAt(s.file, fr.page, s.heap[fr.data])
           fs == [s.frame EXCEPT ![f] = [fr EXCEPT !.dirty = FALSE]]
           t == [s EXCEPT !.streams = s.streams + 1, !.file = file,
                          !.frame = fs]
<1>1. Crashed(s).status = "crashed"
  BY DEF Crashed, Pool
<1>2. w = t \/ w = Crashed(s)
  BY DEF WriteFrame, WriteInvoke
<1>3. w = t
  BY <1>1, <1>2 DEF Running
<1> HIDE DEF file, fs
<1>4. /\ t.file = file /\ t.frame = fs /\ t.heap = s.heap
      /\ t.strategy = s.strategy /\ t.status = s.status
  BY DEF Pool
<1> HIDE DEF t
<1> QED BY <1>3, <1>4 DEF file, fs

\* Page p has taken the place of what frame f held in s.
Evicted(N, s, t, f, p, b) ==
  /\ f \in Frames(N)
  /\ t.heap = s.heap
  /\ t.strategy = s.strategy
  /\ t.file = IF s.frame[f].dirty
              THEN WriteAt(s.file, s.frame[f].page, s.heap[s.frame[f].data])
              ELSE s.file
  /\ \A g \in Frames(N) \ {f} : t.frame[g] = s.frame[g]
  /\ t.frame[f].page = p
  /\ t.frame[f].data = b
  /\ ~t.frame[f].dirty
  /\ t.frame[f].clientCount = 1

LEMMA ReplaceEffect ==
  ASSUME NEW N \in Nat \ {0}, NEW H,
         NEW s \in Pool(N), Shaped(N, H, s), NEW f \in Occupied(N, s), NEW pg \in Frame,
         ~pg.dirty, pg.clientCount = 1, Running(Replace(s, f, pg))
  PROVE  Evicted(N, s, Replace(s, f, pg), f, pg.page, pg.data)
<1> DEFINE w == IF s.frame[f].dirty THEN WriteInvoke(s, f) ELSE s
           new == [pg EXCEPT !.lfuPage = s.frame[f].lfuPage]
           t == [w EXCEPT !.frame = [w.frame EXCEPT ![f] = new]]
<1>1. f \in Frames(N)
  BY DEF Occupied
<1>2. w \in Pool(N)
  BY WriteInvokeGood DEF Good
<1>3. new.page = pg.page /\ new.data = pg.data /\ ~new.dirty
        /\ new.clientCount = 1
  BY DEF Frame
<1>4. Running(w) /\ Replace(s, f, pg) = t
  BY DEF Replace
<1>5. /\ w.file = IF s.frame[f].dirty
                  THEN WriteAt(s.file, s.frame[f].page, s.heap[s.frame[f].data])
                  ELSE s.file
      /\ w.heap = s.heap /\ w.strategy = s.strategy
      /\ \A g \in Frames(N) \ {f} : w.frame[g] = s.frame[g]
  <2>1. CASE s.frame[f].dirty
    <3>1. w = WriteInvoke(s, f)
      BY <2>1
    <3>2. /\ w.file = WriteAt(s.file, s.frame[f].page, s.heap[s.frame[f].data])
          /\ w.frame = [s.frame EXCEPT ![f] = [s.frame[f] EXCEPT !.dirty = FALSE]]
          /\ w.heap = s.heap /\ w.strategy = s.strategy
      <4> HIDE DEF w
      <4> QED BY <1>1, <1>4, <3>1, WriteInvokeEffect
    <3>3. \A g \in Frames(N) \ {f} : w.frame[g] = s.frame[g]
      <4>1. s.frame \in [Frames(N) -> Frame]
        BY PoolMembers
      <4> HIDE DEF w
      <4> QED BY <3>2, <4>1
    <3> HIDE DEF w
    <3> QED BY <2>1, <3>2, <3>3
  <2>2. CASE ~s.frame[f].dirty
    BY <2>2
  <2> QED BY <2>1, <2>2
<1> HIDE DEF w, new
<1>6. /\ t.file = w.file /\ t.heap = w.heap /\ t.strategy = w.strategy
      /\ t.frame = [w.frame EXCEPT ![f] = new]
  BY <1>2 DEF Pool
<1>7. t.frame[f] = new /\ \A g \in Frames(N) \ {f} : t.frame[g] = w.frame[g]
  BY <1>1, <1>2, <1>6, PoolMembers
<1> HIDE DEF t
<1> QED BY <1>1, <1>3, <1>4, <1>5, <1>6, <1>7 DEF Evicted

\* No frame takes the page that a full pool has read: RS_LRU_K, a CLOCK hand
\* that is beyond the array, or FIFO when somebody has a page pinned.
NoPlace(N, s) ==
  \/ s.strategy = "LRU_K"
  \/ s.strategy = "CLOCK" /\ s.lastEntry > N
  \/ s.strategy = "FIFO" /\ \E f \in Frames(N) : s.frame[f].clientCount # 0

\* Where FIFO begins to look.
Turn(N, s) == (s.pageCounter + 1) % N

\* A full pool evicts one frame for p, and FIFO one that nobody had pinned, the
\* one whose turn it is when nobody has that pinned; or it has no place for p.
LEMMA LoadFullEffect ==
  ASSUME NEW N \in Nat \ {0}, NEW H,
         NEW s \in Pool(N), Shaped(N, H, s), Occupied(N, s) = Frames(N),
         NEW p, NEW b, Fresh(N, s, p, b), NEW u \in Undefined,
         Running(LoadFull(N, s, p, b, u))
  PROVE  \/ \E f \in Frames(N) :
              /\ Evicted(N, s, LoadFull(N, s, p, b, u), f, p, b)
              /\ s.strategy = "FIFO" =>
                   /\ s.frame[f].clientCount = 0
                   /\ s.frame[Turn(N, s)].clientCount = 0 => f = Turn(N, s)
         \/ LoadFull(N, s, p, b, u).frame = s.frame /\ NoPlace(N, s)
<1> DEFINE r == LoadFull(N, s, p, b, u)
           pg == [page |-> p, data |-> b, dirty |-> FALSE, clientCount |-> 1,
                  lruPage |-> u.lruPage, lfuPage |-> 0]
           t1 == [s EXCEPT !.lastPg = s.lastPg + 1]
           t  == [t1 EXCEPT !.pageCounter = s.pageCounter + 1]
<1>1. t1 \in Pool(N) /\ t1.pageCounter = s.pageCounter
  BY PoolMembers, SetLastPg DEF Pool
<1>2. t \in Pool(N)
  <2>1. s.pageCounter + 1 \in Nat
    BY PoolMembers
  <2> HIDE DEF t1
  <2> QED BY <1>1, <2>1, SetPageCounter
<1>3. /\ t.frame = s.frame /\ t.heap = s.heap /\ t.file = s.file
      /\ t.strategy = s.strategy /\ t.lastEntry = s.lastEntry
      /\ t.pageCounter = s.pageCounter + 1
  BY DEF Pool
<1>4. u.lruPage \in Int
  BY JunkAssumption DEF Undefined
<1>5. /\ pg \in Frame /\ ~pg.dirty /\ pg.clientCount = 1
      /\ pg.page = p /\ pg.data = b
  BY <1>4 DEF Frame, Fresh
<1>6. Shaped(N, H, t) /\ Occupied(N, t) = Frames(N)
  BY <1>3, ShapeOfFrames DEF Occupied
<1>7. r = CASE s.strategy = "FIFO"  -> FIFO(N, t, pg, u)
            [] s.strategy = "LRU"   -> LRU(N, t, pg)
            [] s.strategy = "CLOCK" -> CLOCK(N, t, pg, u)
            [] s.strategy = "LFU"   -> LFU(N, t, pg)
            [] OTHER                -> t
  BY <1>1 DEF LoadFull
<1>9. Crashed(t).status = "crashed"
  BY <1>2 DEF Crashed, Pool
<1> HIDE DEF t, pg
<1>10. ASSUME NEW f \in Frames(N), NEW x, x = Replace(t, f, pg), Running(x)
       PROVE  Evicted(N, s, x, f, p, b)
  <2>1. Evicted(N, t, x, f, p, b)
    BY <1>2, <1>5, <1>6, <1>10, ReplaceEffect
  <2> QED BY <1>3, <2>1 DEF Evicted
<1>11. Running(r)
  OBVIOUS
<1> HIDE DEF r
<1>12. CASE s.strategy = "FIFO"
  <2> DEFINE start == t.pageCounter % N
             free == {f \in start .. N - 1 : t.frame[f].clientCount = 0}
  <2>1. start \in Frames(N) /\ start = Turn(N, s)
    BY <1>2, <1>3, ModFrame, PoolMembers DEF Turn
  <2>2. free \in SUBSET Nat /\ free \subseteq Frames(N)
    <3> HIDE DEF start
    <3> QED BY <2>1 DEF Frames
  <2>3. r = FIFO(N, t, pg, u)
    BY <1>7, <1>12
  <2>4. CASE free # {}
    <3>1. Least(free) \in free
      <4> HIDE DEF free
      <4> QED BY <2>2, <2>4, LeastIsMember
    <3>2. r = Replace(t, Least(free), pg)
      BY <2>3, <2>4 DEF FIFO
    <3>3. Least(free) \in Frames(N) /\ t.frame[Least(free)].clientCount = 0
      BY <2>2, <3>1
    <3>4. t.frame[start].clientCount = 0 => Least(free) = start
      <4>1. \A g \in free : start <= g /\ Least(free) <= g /\ g \in Nat
        <5>1. \A g \in free : start <= g
          OBVIOUS
        <5> HIDE DEF free
        <5> QED BY <2>2, <2>4, <5>1, LeastIsMember
      <4>2. t.frame[start].clientCount = 0 => start \in free
        BY <2>1 DEF Frames
      <4> HIDE DEF free, start
      <4> QED BY <3>1, <4>1, <4>2
    <3> HIDE DEF free
    <3>5. Evicted(N, s, r, Least(free), p, b)
      BY <1>10, <1>11, <3>2, <3>3
    <3> QED BY <1>3, <2>1, <3>3, <3>4, <3>5 DEF r
  <2>5. CASE free = {}
    <3>1. r = t \/ r = Crashed(t)
      BY <2>3, <2>5 DEF FIFO
    <3>2. r = t
      BY <1>9, <1>11, <3>1 DEF Running
    <3>3. t.frame[start].clientCount # 0
      <4>1. start \in start .. N - 1
        BY <2>1 DEF Frames
      <4> QED BY <2>5, <4>1
    <3>4. NoPlace(N, s)
      BY <1>3, <1>12, <2>1, <3>3 DEF NoPlace
    <3> QED BY <1>3, <3>2, <3>4 DEF r
  <2> QED BY <2>4, <2>5
<1>13. CASE s.strategy = "LRU"
  <2> DEFINE v == [f \in Frames(N) |-> t.frame[f].lruPage]
  <2>1. v \in [Frames(N) -> Int]
    BY <1>2, PoolMembers, FrameMembers
  <2>2. LastLeast(N, v) \in Frames(N)
    BY <2>1, LastLeastIsFrame
  <2>3. r = Replace(t, LastLeast(N, v), pg)
    BY <1>7, <1>13 DEF LRU
  <2> HIDE DEF v
  <2>4. Evicted(N, s, r, LastLeast(N, v), p, b)
    BY <1>10, <1>11, <2>2, <2>3
  <2> QED BY <1>13, <2>2, <2>4 DEF r
<1>14. CASE s.strategy = "CLOCK"
  <2> DEFINE hand == IF t.lastEntry % N = 0 THEN 0 ELSE t.lastEntry
             past == IF u.luck = "crash" THEN Crashed(t) ELSE t
             took == IF hand < N THEN Replace(t, hand, pg) ELSE past
             next == IF hand >= N /\ u.luck = "busy" THEN hand ELSE hand + 1
             x == [took EXCEPT !.lastEntry = next]
  <2>1. hand \in Nat
    BY <1>2, PoolMembers
  <2>2. r = x
    BY <1>7, <1>14 DEF CLOCK
  <2>3. took \in Pool(N)
    <3>1. CASE hand < N
      <4>1. hand \in Occupied(N, t)
        BY <1>6, <2>1, <3>1 DEF Frames
      <4>2. NewPage(N, t, pg)
        BY <1>3, <1>5 DEF NewPage, Fresh
      <4> HIDE DEF hand
      <4> QED BY <1>2, <1>6, <3>1, <4>1, <4>2, ReplaceGood DEF Good
    <3>2. CASE ~(hand < N)
      BY <1>2, <1>6, <3>2, CrashedGood DEF Good
    <3> QED BY <3>1, <3>2
  <2> HIDE DEF next, took
  <2>4. /\ x.status = took.status /\ x.frame = took.frame /\ x.heap = took.heap
        /\ x.file = took.file /\ x.strategy = took.strategy
    BY <2>3 DEF Pool
  <2> HIDE DEF x
  <2>5. Running(took)
    BY <1>11, <2>2, <2>4 DEF Running
  <2>6. CASE hand < N
    <3>1. hand \in Frames(N) /\ took = Replace(t, hand, pg)
      BY <2>1, <2>6 DEF Frames, took
    <3> HIDE DEF hand
    <3>2. Evicted(N, s, took, hand, p, b)
      BY <1>10, <2>5, <3>1
    <3>3. Evicted(N, s, x, hand, p, b)
      BY <2>4, <3>2 DEF Evicted
    <3> QED BY <1>14, <2>2, <3>1, <3>3 DEF r
  <2>7. CASE ~(hand < N)
    <3>1. took = t
      BY <1>9, <2>5, <2>7 DEF took, Running
    <3>2. r.frame = s.frame
      BY <1>3, <2>2, <2>4, <3>1
    <3>3. t.lastEntry \in Nat /\ t.lastEntry % N # 0 /\ t.lastEntry >= N
      BY <1>2, <2>7, PoolMembers
    <3>4. t.lastEntry # N
      BY <3>3, ModSelf
    <3>5. NoPlace(N, s)
      BY <1>3, <1>14, <3>3, <3>4 DEF NoPlace
    <3> QED BY <3>2, <3>5 DEF r
  <2> QED BY <2>6, <2>7
<1>15. CASE s.strategy = "LFU"
  <2> DEFINE at(k) == (t.lastPtr + 1 + k) % N
             v == [k \in Frames(N) |-> t.frame[at(k)].lfuPage]
             victim == at(LastLeast(N, v))
             y == Replace(t, victim, pg)
             x == [y EXCEPT !.lastPtr = victim + 1]
  <2>1. \A k \in Frames(N) : at(k) \in Frames(N)
    <3>1. \A k \in Frames(N) : t.lastPtr + 1 + k \in Nat
      BY <1>2, PoolMembers DEF Frames
    <3> QED BY <3>1, ModFrame
  <2>2. r = x
    BY <1>7, <1>15 DEF LFU
  <2> HIDE DEF at
  <2>3. v \in [Frames(N) -> Int]
    BY <1>2, <2>1, PoolMembers, FrameMembers
  <2> HIDE DEF v
  <2>4. victim \in Frames(N)
    BY <2>1, <2>3, LastLeastIsFrame
  <2> HIDE DEF victim
  <2>5. y \in Pool(N)
    <3>1. NewPage(N, t, pg)
      BY <1>3, <1>5 DEF NewPage, Fresh
    <3> QED BY <1>2, <1>6, <2>4, <3>1, ReplaceGood DEF Good
  <2> HIDE DEF y
  <2>6. /\ x.status = y.status /\ x.frame = y.frame /\ x.heap = y.heap
        /\ x.file = y.file /\ x.strategy = y.strategy
    BY <2>5 DEF Pool
  <2> HIDE DEF x
  <2>7. Evicted(N, s, y, victim, p, b)
    BY <1>10, <1>11, <2>2, <2>4, <2>6 DEF Running, y
  <2>8. Evicted(N, s, x, victim, p, b)
    BY <2>6, <2>7 DEF Evicted
  <2> QED BY <1>15, <2>2, <2>4, <2>8 DEF r
<1>16. CASE s.strategy \notin {"FIFO", "LRU", "CLOCK", "LFU"}
  <2>1. r = t
    BY <1>7, <1>16
  <2>2. NoPlace(N, s)
    BY <1>16, PoolMembers DEF Strategies, NoPlace
  <2> QED BY <1>3, <2>1, <2>2 DEF r
<1> QED BY <1>12, <1>13, <1>14, <1>15, <1>16

\* What pinPage has read, or found, is in a frame when it returns, unless the
\* pool is full and has no place for it.
LEMMA PinPlaces ==
  ASSUME NEW N \in Nat \ {0}, NEW H,
         NEW s \in Pool(N), Shaped(N, H, s), Running(s), NEW p \in Pages,
         Holding(N, s, p) # {} \/ (s.file.exists /\ s.streams < MaxStreams),
         NEW b \in Bufs, \A g \in Frames(N) : s.frame[g].data # b,
         NEW u \in Undefined,
         Running(PinPage(N, s, p, b, u)), Holding(N, PinPage(N, s, p, b, u), p) = {}
  PROVE  Occupied(N, s) = Frames(N) /\ NoPlace(N, s)
<1> DEFINE f == Least(Stops(N, s, p))
           r == ReadInto(s, p, b, u)
           t == PinPage(N, s, p, b, u)
<1>1. r \in Pool(N) /\ Shaped(N, H, r) /\ r.frame = s.frame
  BY ReadIntoGood DEF Good
<1>2. \/ Stops(N, s, p) # {} /\ s.frame[f].page = p
      \/ /\ Running(r) /\ r.strategy = s.strategy /\ r.lastEntry = s.lastEntry
         /\ t = IF Stops(N, s, p) # {} THEN LoadEmpty(r, f, p, b) ELSE LoadFull(N, r, p, b, u)
  <2>1. \/ Stops(N, s, p) # {} /\ s.frame[f].page = p
        \/ t = r /\ ~Running(r)
        \/ Running(r) /\ t = IF Stops(N, s, p) # {} THEN LoadEmpty(r, f, p, b)
                             ELSE LoadFull(N, r, p, b, u)
    BY DEF PinPage
  <2>2. Running(t)
    OBVIOUS
  <2>3. ASSUME Running(r), Holding(N, s, p) = {}
        PROVE  r.strategy = s.strategy /\ r.lastEntry = s.lastEntry
    <3> DEFINE c == IF p < s.file.size THEN s.file.block[p] ELSE u.content
    <3>1. /\ r.file = s.file /\ r.frame = s.frame
          /\ r.strategy = s.strategy /\ r.lastEntry = s.lastEntry
          /\ r.heap = [s.heap EXCEPT ![b] = c]
      <4> HIDE DEF t, f
      <4> QED BY <2>3, ReadIntoEffect
    <3> QED BY <3>1
  <2>4. Holding(N, s, p) # {} => Stops(N, s, p) # {} /\ s.frame[f].page = p
    BY StopsCases DEF Holding
  <2> HIDE DEF f, t, r
  <2> QED BY <2>1, <2>2, <2>3, <2>4
<1>3. Running(t) /\ \A g \in Frames(N) : t.frame[g].page # p
  BY DEF Holding
<1>4. CASE Stops(N, s, p) # {} /\ f \in Occupied(N, s) /\ s.frame[f].page = p
  <2> DEFINE fr == s.frame[f]
             new == [fr EXCEPT
                       !.clientCount = fr.clientCount + 1,
                       !.lruPage = IF s.strategy \in {"LRU", "CLOCK"} THEN 1 ELSE fr.lruPage,
                       !.lfuPage = IF s.strategy = "LFU" THEN 1 ELSE fr.lfuPage]
  <2>1. t.frame = [s.frame EXCEPT ![f] = new]
    BY <1>4 DEF PinPage, HitFrame, Pool
  <2>2. f \in Frames(N) /\ s.frame \in [Frames(N) -> Frame]
    BY <1>4, PoolMembers DEF Occupied
  <2> HIDE DEF f, t
  <2>3. new.page = p
    BY <1>4, <2>2 DEF Frame
  <2> HIDE DEF new
  <2> QED BY <1>3, <2>1, <2>2, <2>3
<1> HIDE DEF r, t
<1>5. CASE /\ Stops(N, s, p) # {} /\ f \in Frames(N) /\ s.frame[f].page # p
  <2>1. t = LoadEmpty(r, f, p, b) /\ r.frame \in [Frames(N) -> Frame]
    BY <1>1, <1>2, <1>5, PoolMembers
  <2> DEFINE age == CASE r.strategy = "CLOCK" -> 1
                      [] r.strategy = "LRU"   -> r.lastPg + 1
                      [] OTHER                -> 0
             first == Loaded(r.frame[0], p, b, r.frame[0].clientCount + 1, 0)
             other == Loaded(r.frame[f], p, b, 1, age)
  <2>2. first.page = p /\ other.page = p
    BY DEF Loaded
  <2> HIDE DEF f
  <2>3. t.frame \in {[r.frame EXCEPT ![f] = first], [r.frame EXCEPT ![f] = other]}
    <3>1. CASE f = 0
      BY <1>1, <2>1, <3>1 DEF LoadEmpty, LoadFirst, Pool
    <3>2. CASE f # 0
      BY <1>1, <2>1, <3>2 DEF LoadEmpty, LoadOther, Pool
    <3> QED BY <3>1, <3>2
  <2> HIDE DEF first, other
  <2> QED BY <1>3, <1>5, <2>1, <2>2, <2>3
<1>6. CASE Stops(N, s, p) = {} /\ Occupied(N, s) = Frames(N)
           /\ \A g \in Frames(N) : s.frame[g].page # p
  <2>1. Fresh(N, r, p, b) /\ Occupied(N, r) = Frames(N) /\ t = LoadFull(N, r, p, b, u)
    BY <1>1, <1>2, <1>6 DEF Fresh, Occupied
  <2>2. NoPlace(N, r)
    BY <1>1, <1>3, <2>1, LoadFullEffect DEF Evicted
  <2> QED BY <1>1, <1>2, <1>6, <2>2 DEF NoPlace
<1> QED BY <1>4, <1>5, <1>6, StopsCases

\* A pin finds p in frame f, or has read it into b and put it in frame f, which
\* was empty or is written back first when it was dirty.  Nothing else changes.
Found(s, t, f, p) ==
  /\ s.frame[f].page = p
  /\ t.frame[f].data = s.frame[f].data
  /\ t.frame[f].dirty = s.frame[f].dirty
  /\ t.frame[f].clientCount = s.frame[f].clientCount + 1
  /\ t.heap = s.heap
  /\ t.file = s.file

Took(N, s, t, f, p, b, u) ==
  /\ Holding(N, s, p) = {}
  /\ \A g \in Frames(N) : g < f => g \in Occupied(N, s)
  /\ t.frame[f].data = b
  /\ ~t.frame[f].dirty
  /\ t.frame[f].clientCount = 1
  /\ t.heap = [s.heap EXCEPT ![b] = IF p < s.file.size THEN s.file.block[p] ELSE u.content]
  /\ t.file = IF s.frame[f].dirty
              THEN WriteAt(s.file, s.frame[f].page, s.heap[s.frame[f].data])
              ELSE s.file

PutIn(N, s, t, f, p, b, u) ==
  /\ t.frame[f].page = p
  /\ t.frame[f].data = PinnedData(N, s, p, b)
  /\ \A g \in Frames(N) \ {f} : t.frame[g] = s.frame[g]
  /\ Found(s, t, f, p) \/ Took(N, s, t, f, p, b, u)

LEMMA PinShows ==
  ASSUME NEW N \in Nat \ {0}, NEW H,
         NEW s \in Pool(N), Shaped(N, H, s), Running(s), NEW p \in Pages,
         Holding(N, s, p) # {} \/ (s.file.exists /\ s.streams < MaxStreams),
         NEW b \in Bufs, \A g \in Frames(N) : s.frame[g].data # b,
         NEW u \in Undefined,
         NEW t, t = PinPage(N, s, p, b, u), Running(t), Holding(N, t, p) # {}
  PROVE  \E f \in Frames(N) : PutIn(N, s, t, f, p, b, u)
<1> DEFINE f == Least(Stops(N, s, p))
           r == ReadInto(s, p, b, u)
           c == IF p < s.file.size THEN s.file.block[p] ELSE u.content
<1>1. s.frame \in [Frames(N) -> Frame] /\ s.heap \in [Bufs -> Content]
  BY PoolMembers
<1>2. CASE Stops(N, s, p) # {} /\ f \in Occupied(N, s) /\ s.frame[f].page = p
  <2> DEFINE fr == s.frame[f]
             new == [fr EXCEPT
                       !.clientCount = fr.clientCount + 1,
                       !.lruPage = IF s.strategy \in {"LRU", "CLOCK"} THEN 1 ELSE fr.lruPage,
                       !.lfuPage = IF s.strategy = "LFU" THEN 1 ELSE fr.lfuPage]
  <2>1. t = [s EXCEPT !.frame = [s.frame EXCEPT ![f] = new],
                      !.lastPg = s.lastPg + 1, !.lastEntry = s.lastEntry + 1]
    BY <1>2 DEF PinPage, HitFrame
  <2>2. f \in Frames(N) /\ fr \in Frame /\ PinnedData(N, s, p, b) = s.frame[f].data
    BY <1>1, <1>2 DEF Occupied, PinnedData
  <2> HIDE DEF f
  <2>3. /\ new.page = s.frame[f].page /\ new.dirty = s.frame[f].dirty
        /\ new.data = s.frame[f].data
        /\ new.clientCount = s.frame[f].clientCount + 1
    BY <2>2 DEF Frame
  <2> HIDE DEF new
  <2>4. /\ t.frame = [s.frame EXCEPT ![f] = new] /\ t.heap = s.heap
        /\ t.file = s.file
    BY <2>1 DEF Pool
  <2>5. PutIn(N, s, t, f, p, b, u)
    BY <1>1, <1>2, <2>2, <2>3, <2>4 DEF PutIn, Found
  <2> QED BY <2>2, <2>5
<1>3. ASSUME \A g \in Frames(N) : s.frame[g].page # p
      PROVE  /\ Running(r) /\ r \in Pool(N) /\ Shaped(N, H, r) /\ r.frame = s.frame
             /\ r.file = s.file /\ r.heap = [s.heap EXCEPT ![b] = c]
             /\ ~(Stops(N, s, p) # {} /\ s.frame[f].page = p)
             /\ Holding(N, s, p) = {} /\ PinnedData(N, s, p, b) = b
  <2>1. Holding(N, s, p) = {}
    BY <1>3 DEF Holding
  <2>2. ~(Stops(N, s, p) # {} /\ s.frame[f].page = p)
    <3>1. Stops(N, s, p) \in SUBSET Nat
      BY DEF Stops, Frames
    <3>2. Stops(N, s, p) # {} => f \in Stops(N, s, p)
      BY <3>1, LeastIsMember
    <3> HIDE DEF f
    <3> QED BY <1>3, <3>2 DEF Stops
  <2>3. PinnedData(N, s, p, b) = b
    BY <2>2 DEF PinnedData
  <2>4. Running(r)
    <3>1. t = r \/ Running(r)
      BY <2>2 DEF PinPage
    <3> QED BY <3>1
  <2>5. r \in Pool(N) /\ Shaped(N, H, r)
    BY ReadIntoGood DEF Good
  <2>6. /\ r.file = s.file /\ r.frame = s.frame
        /\ r.strategy = s.strategy /\ r.lastEntry = s.lastEntry
        /\ r.heap = [s.heap EXCEPT ![b] = c]
    <3> HIDE DEF f
    <3> QED BY <2>1, <2>4, ReadIntoEffect
  <2> HIDE DEF f, r, c
  <2> QED BY <2>1, <2>2, <2>3, <2>4, <2>5, <2>6
<1>4. CASE /\ Stops(N, s, p) # {} /\ f \in Frames(N)
           /\ \A g \in Frames(N) : g < f => g \in Occupied(N, s)
           /\ \A g \in Frames(N) : s.frame[g].page # p
  <2>1. t = LoadEmpty(r, f, p, b)
    BY <1>3, <1>4 DEF PinPage
  <2>2. ~s.frame[f].dirty /\ s.frame[f].clientCount = 0
    <3>1. Stops(N, s, p) \in SUBSET Nat
      BY DEF Stops, Frames
    <3>2. f \in Stops(N, s, p)
      BY <1>4, <3>1, LeastIsMember
    <3> HIDE DEF f
    <3>3. s.frame[f].page = NoPage
      BY <1>4, <3>2 DEF Stops
    <3> QED BY <1>4, <3>3 DEF Shaped, EmptyIsBlank, Occupied, EmptyFrame
  <2>3. /\ r \in Pool(N) /\ r.frame = s.frame /\ r.file = s.file
        /\ r.heap = [s.heap EXCEPT ![b] = c]
        /\ Holding(N, s, p) = {} /\ PinnedData(N, s, p, b) = b
    BY <1>3, <1>4
  <2> HIDE DEF r, f, c
  <2> DEFINE age == CASE r.strategy = "CLOCK" -> 1
                      [] r.strategy = "LRU"   -> r.lastPg + 1
                      [] OTHER                -> 0
             count == IF f = 0 THEN r.frame[f].clientCount + 1 ELSE 1
             new == Loaded(r.frame[f], p, b, count, IF f = 0 THEN 0 ELSE age)
  <2>4. /\ t.heap = r.heap /\ t.file = r.file
        /\ t.frame = [r.frame EXCEPT ![f] = new]
    <3>1. CASE f = 0
      BY <2>1, <2>3, <3>1 DEF LoadEmpty, LoadFirst, Pool
    <3>2. CASE f # 0
      BY <2>1, <2>3, <3>2 DEF LoadEmpty, LoadOther, Pool
    <3> QED BY <3>1, <3>2
  <2>5. ~new.dirty /\ new.page = p /\ new.data = b /\ new.clientCount = 1
    BY <2>2, <2>3 DEF Loaded
  <2> HIDE DEF new
  <2>6. PutIn(N, s, t, f, p, b, u)
    BY <1>1, <1>4, <2>2, <2>3, <2>4, <2>5 DEF PutIn, Took, c
  <2> QED BY <1>4, <2>6
<1>5. CASE /\ Stops(N, s, p) = {} /\ Occupied(N, s) = Frames(N)
           /\ \A g \in Frames(N) : s.frame[g].page # p
  <2>1. t = LoadFull(N, r, p, b, u)
    BY <1>3, <1>5 DEF PinPage
  <2>2. r \in Pool(N) /\ Shaped(N, H, r) /\ Occupied(N, r) = Frames(N) /\ Fresh(N, r, p, b)
    BY <1>3, <1>5 DEF Occupied, Fresh
  <2>3. PICK v \in Frames(N) : Evicted(N, r, t, v, p, b)
    BY <1>3, <1>5, <2>1, <2>2, LoadFullEffect DEF Holding
  <2>4. /\ r.frame = s.frame /\ r.file = s.file
        /\ r.heap = [s.heap EXCEPT ![b] = c]
        /\ Holding(N, s, p) = {} /\ PinnedData(N, s, p, b) = b
    BY <1>3, <1>5
  <2> HIDE DEF r, c
  <2>5. v \in Occupied(N, s) /\ s.frame[v].data \in Bufs \ {b}
    BY <1>5, OccupiedMembers
  <2>6. r.heap[s.frame[v].data] = s.heap[s.frame[v].data]
    BY <1>1, <2>4, <2>5
  <2>7. PutIn(N, s, t, v, p, b, u)
    BY <1>5, <2>3, <2>4, <2>6 DEF Evicted, PutIn, Took, c
  <2> QED BY <2>7
<1> QED BY <1>2, <1>4, <1>5, StopsCases

-----------------------------------------------------------------------------
(* What no call of the buffer manager changes *)

\* The file stays there, the strategy is what it was, and a process that was
\* running is running or has crashed.
Kept(s, t) ==
  /\ t.file.exists = s.file.exists
  /\ t.strategy = s.strategy
  /\ t.status \in {s.status, "crashed"}

LEMMA CrashedKeeps ==
  ASSUME NEW N \in Nat \ {0}, NEW s \in Pool(N)
  PROVE  Kept(s, Crashed(s))
BY DEF Kept, Crashed, Pool

LEMMA ReadIntoKeeps ==
  ASSUME NEW N \in Nat \ {0}, NEW s \in Pool(N), NEW p, NEW b, NEW u
  PROVE  Kept(s, ReadInto(s, p, b, u))
BY DEF Kept, ReadInto, Crashed, Pool

LEMMA WriteFrameKeeps ==
  ASSUME NEW N \in Nat \ {0}, NEW s \in Pool(N), NEW f \in Frames(N)
  PROVE  Kept(s, WriteFrame(s, f)) /\ Kept(s, WriteInvoke(s, f))
<1> DEFINE file == WriteAt(s.file, s.frame[f].page, s.heap[s.frame[f].data])
           fs == [s.frame EXCEPT ![f] = [s.frame[f] EXCEPT !.dirty = FALSE]]
           t == [s EXCEPT !.streams = s.streams + 1, !.file = file, !.frame = fs]
<1>1. WriteFrame(s, f) \in {t, Crashed(s)}
  BY DEF WriteFrame
<1>2. file.exists = s.file.exists
  BY PoolMembers DEF WriteAt, FileValue
<1> HIDE DEF file, fs
<1>3. Kept(s, t)
  BY <1>2 DEF Kept, Pool
<1> HIDE DEF t
<1> QED BY <1>1, <1>3, CrashedKeeps DEF WriteInvoke

LEMMA ReplaceKeeps ==
  ASSUME NEW N \in Nat \ {0}, NEW H,
         NEW s \in Pool(N), Shaped(N, H, s), NEW f \in Occupied(N, s), NEW pg
  PROVE  Kept(s, Replace(s, f, pg))
<1> DEFINE w == IF s.frame[f].dirty THEN WriteInvoke(s, f) ELSE s
           fs == [w.frame EXCEPT ![f] = [pg EXCEPT !.lfuPage = s.frame[f].lfuPage]]
           t == [w EXCEPT !.frame = fs]
<1>1. Replace(s, f, pg) \in {t, w}
  BY DEF Replace
<1>2. w \in Pool(N)
  BY WriteInvokeGood DEF Good
<1>3. Kept(s, w)
  BY WriteFrameKeeps DEF Kept, Occupied
<1> HIDE DEF w, fs
<1>4. t.file = w.file /\ t.strategy = w.strategy /\ t.status = w.status
  BY <1>2 DEF Pool
<1> HIDE DEF t
<1> QED BY <1>1, <1>3, <1>4 DEF Kept

LEMMA CLOCKKeeps ==
  ASSUME NEW N \in Nat \ {0}, NEW H,
         NEW s \in Pool(N), Shaped(N, H, s), Occupied(N, s) = Frames(N),
         NEW pg, NewPage(N, s, pg), NEW u \in Undefined
  PROVE  Kept(s, CLOCK(N, s, pg, u))
<1> DEFINE hand == IF s.lastEntry % N = 0 THEN 0 ELSE s.lastEntry
           past == IF u.luck = "crash" THEN Crashed(s) ELSE s
           took == IF hand < N THEN Replace(s, hand, pg) ELSE past
           next == IF hand >= N /\ u.luck = "busy" THEN hand ELSE hand + 1
           t == [took EXCEPT !.lastEntry = next]
<1>1. hand \in Nat
  BY PoolMembers
<1>2. took \in Pool(N) /\ Kept(s, took)
  <2>1. CASE hand < N
    <3>1. hand \in Occupied(N, s)
      BY <1>1, <2>1 DEF Frames
    <3> HIDE DEF hand
    <3> QED BY <2>1, <3>1, ReplaceGood, ReplaceKeeps DEF Good
  <2>2. CASE ~(hand < N)
    <3>1. past \in {s, Crashed(s)}
      OBVIOUS
    <3>2. Kept(s, s)
      BY DEF Kept
    <3> HIDE DEF past, hand
    <3> QED BY <2>2, <3>1, <3>2, CrashedGood, CrashedKeeps DEF Good
  <2> QED BY <2>1, <2>2
<1>3. CLOCK(N, s, pg, u) = t
  BY DEF CLOCK
<1> HIDE DEF took, next
<1>4. t.file = took.file /\ t.strategy = took.strategy /\ t.status = took.status
  BY <1>2 DEF Pool
<1> HIDE DEF t
<1> QED BY <1>2, <1>3, <1>4 DEF Kept

LEMMA LFUKeeps ==
  ASSUME NEW N \in Nat \ {0}, NEW H,
         NEW s \in Pool(N), Shaped(N, H, s), Occupied(N, s) = Frames(N),
         NEW pg, NewPage(N, s, pg)
  PROVE  Kept(s, LFU(N, s, pg))
<1> DEFINE at(k) == (s.lastPtr + 1 + k) % N
           v == [k \in Frames(N) |-> s.frame[at(k)].lfuPage]
           victim == at(LastLeast(N, v))
           r == Replace(s, victim, pg)
           t == [r EXCEPT !.lastPtr = victim + 1]
<1>1. \A k \in Frames(N) : at(k) \in Frames(N)
  <2>1. \A k \in Frames(N) : s.lastPtr + 1 + k \in Nat
    BY PoolMembers DEF Frames
  <2> QED BY <2>1, ModFrame
<1>2. LFU(N, s, pg) = t
  BY DEF LFU
<1> HIDE DEF at
<1>3. v \in [Frames(N) -> Int]
  BY <1>1, PoolMembers, FrameMembers
<1> HIDE DEF v
<1>4. victim \in Occupied(N, s)
  BY <1>1, <1>3, LastLeastIsFrame
<1> HIDE DEF victim
<1>5. r \in Pool(N) /\ Kept(s, r)
  BY <1>4, ReplaceGood, ReplaceKeeps DEF Good
<1> HIDE DEF r
<1>6. t.file = r.file /\ t.strategy = r.strategy /\ t.status = r.status
  BY <1>5 DEF Pool
<1> HIDE DEF t
<1> QED BY <1>2, <1>5, <1>6 DEF Kept

LEMMA FIFOKeeps ==
  ASSUME NEW N \in Nat \ {0}, NEW H,
         NEW s \in Pool(N), Shaped(N, H, s), Occupied(N, s) = Frames(N),
         NEW pg, NEW u \in Undefined
  PROVE  Kept(s, FIFO(N, s, pg, u))
<1> DEFINE start == s.pageCounter % N
           free == {f \in start .. N - 1 : s.frame[f].clientCount = 0}
<1>1. start \in Frames(N)
  BY ModFrame, PoolMembers
<1>2. free \subseteq Frames(N) /\ free \in SUBSET Nat
  <2> HIDE DEF start
  <2> QED BY <1>1 DEF Frames
<1>3. CASE free # {}
  <2>1. Least(free) \in Occupied(N, s)
    <3> HIDE DEF free
    <3> QED BY <1>2, <1>3, LeastIsMember
  <2>2. FIFO(N, s, pg, u) = Replace(s, Least(free), pg)
    BY <1>3 DEF FIFO
  <2> HIDE DEF free
  <2> QED BY <2>1, <2>2, ReplaceKeeps
<1>4. CASE free = {}
  <2>1. FIFO(N, s, pg, u) \in {s, Crashed(s)}
    BY <1>4 DEF FIFO
  <2> QED BY <2>1, CrashedKeeps DEF Kept
<1> QED BY <1>3, <1>4

LEMMA LoadFullKeeps ==
  ASSUME NEW N \in Nat \ {0}, NEW H,
         NEW s \in Pool(N), Shaped(N, H, s), Occupied(N, s) = Frames(N),
         NEW p, NEW b, Fresh(N, s, p, b), NEW u \in Undefined
  PROVE  Kept(s, LoadFull(N, s, p, b, u))
<1> DEFINE pg == [page |-> p, data |-> b, dirty |-> FALSE, clientCount |-> 1,
                  lruPage |-> u.lruPage, lfuPage |-> 0]
           t1 == [s EXCEPT !.lastPg = s.lastPg + 1]
           t  == [t1 EXCEPT !.pageCounter = s.pageCounter + 1]
           v == [f \in Frames(N) |-> t.frame[f].lruPage]
<1>1. t1 \in Pool(N) /\ t1.pageCounter = s.pageCounter
  BY PoolMembers, SetLastPg DEF Pool
<1>2. t \in Pool(N)
  <2>1. s.pageCounter + 1 \in Nat
    BY PoolMembers
  <2> HIDE DEF t1
  <2> QED BY <1>1, <2>1, SetPageCounter
<1>3. t.frame = s.frame /\ Kept(s, t)
  BY DEF Pool, Kept
<1>4. pg \in Frame
  <2>1. u.lruPage \in Int
    BY JunkAssumption DEF Undefined
  <2> QED BY <2>1 DEF Frame, Fresh
<1>5. NewPage(N, t, pg)
  BY <1>3, <1>4 DEF NewPage, Fresh
<1>6. Shaped(N, H, t) /\ Occupied(N, t) = Frames(N)
  BY <1>3, ShapeOfFrames DEF Occupied
<1>7. LoadFull(N, s, p, b, u) \in {FIFO(N, t, pg, u), LRU(N, t, pg), CLOCK(N, t, pg, u),
                                LFU(N, t, pg), t}
  BY <1>1 DEF LoadFull
<1> HIDE DEF t, pg
<1>8. LastLeast(N, v) \in Occupied(N, t)
  <2>1. v \in [Frames(N) -> Int]
    BY <1>2, PoolMembers, FrameMembers
  <2> HIDE DEF v
  <2> QED BY <1>6, <2>1, LastLeastIsFrame
<1>9. Kept(t, LRU(N, t, pg))
  BY <1>2, <1>6, <1>8, ReplaceKeeps DEF LRU
<1>10. Kept(t, LoadFull(N, s, p, b, u))
  <2>1. Kept(t, t)
    BY DEF Kept
  <2> QED BY <1>2, <1>5, <1>6, <1>7, <1>9, <2>1, FIFOKeeps, CLOCKKeeps, LFUKeeps
<1> QED BY <1>3, <1>10 DEF Kept

LEMMA PinPageKeeps ==
  ASSUME NEW N \in Nat \ {0}, NEW H,
         NEW s \in Pool(N), Shaped(N, H, s), NEW p \in Pages,
         NEW b \in Bufs, \A g \in Frames(N) : s.frame[g].data # b,
         NEW u \in Undefined
  PROVE  Kept(s, PinPage(N, s, p, b, u))
<1> DEFINE f == Least(Stops(N, s, p))
           r == ReadInto(s, p, b, u)
<1>1. r \in Pool(N) /\ Shaped(N, H, r) /\ r.frame = s.frame /\ Kept(s, r)
  BY ReadIntoGood, ReadIntoKeeps DEF Good
<1>2. Occupied(N, r) = Occupied(N, s)
  BY <1>1 DEF Occupied
<1>3. PinPage(N, s, p, b, u) \in {HitFrame(s, f), r, LoadEmpty(r, f, p, b),
                               LoadFull(N, r, p, b, u)}
  BY DEF PinPage
<1>4. PinPage(N, s, p, b, u) = LoadFull(N, r, p, b, u) =>
        \/ Stops(N, s, p) = {}
        \/ LoadFull(N, r, p, b, u) \in {HitFrame(s, f), r, LoadEmpty(r, f, p, b)}
  BY DEF PinPage
<1> HIDE DEF r
<1>5. Kept(s, HitFrame(s, f))
  BY DEF Kept, HitFrame, Pool
<1>6. Kept(r, LoadEmpty(r, f, p, b))
  BY <1>1 DEF Kept, LoadEmpty, LoadFirst, LoadOther, Pool
<1>7. Stops(N, s, p) = {} => Kept(r, LoadFull(N, r, p, b, u))
  <2> SUFFICES ASSUME Stops(N, s, p) = {} PROVE Kept(r, LoadFull(N, r, p, b, u))
    OBVIOUS
  <2>1. Occupied(N, r) = Frames(N) /\ Fresh(N, r, p, b)
    BY <1>1, <1>2, StopsCases DEF Fresh
  <2> QED BY <1>1, <2>1, LoadFullKeeps
<1> QED BY <1>1, <1>3, <1>4, <1>5, <1>6, <1>7 DEF Kept

-----------------------------------------------------------------------------
(* What a call does to the file *)

Dirty(N, s) == {f \in Frames(N) : s.frame[f].dirty}

\* From s to t the file has changed to what the frames in W held in s, and what
\* left a dirty frame has reached it.
WritesBack(N, s, t, W) ==
  /\ s.file.size <= t.file.size
  /\ \A p \in Pages : t.file.block[p] # s.file.block[p] =>
       /\ p < t.file.size
       /\ \E f \in Holding(N, s, p) \cap W : t.file.block[p] = s.heap[s.frame[f].data]
  /\ \A f \in Occupied(N, s) :
       /\ Running(t)
       /\ t.frame[f].page \notin {s.frame[f].page, NoPage}
       /\ s.frame[f].dirty
       => t.file.block[s.frame[f].page] = s.heap[s.frame[f].data]

LEMMA AnyWritesBack ==
  ASSUME NEW N \in Nat \ {0},
         NEW s, NEW t, NEW V, NEW W, V \subseteq W, WritesBack(N, s, t, V)
  PROVE  WritesBack(N, s, t, W)
BY DEF WritesBack

\* A call that leaves the file alone, and puts no page where one was.
LEMMA FileAlone ==
  ASSUME NEW N \in Nat \ {0}, NEW s \in Pool(N), NEW t, t.file = s.file,
         \A f \in Occupied(N, s) : t.frame[f].page \in {s.frame[f].page, NoPage},
         NEW W
  PROVE  WritesBack(N, s, t, W)
<1>1. s.file.size <= s.file.size
  BY PoolMembers, FileMembers
<1> QED BY <1>1 DEF WritesBack

\* A call that writes at most one frame, and replaces at most that one.
LEMMA OneFrameWritten ==
  ASSUME NEW N \in Nat \ {0}, NEW H,
         NEW s \in Pool(N), Shaped(N, H, s), NEW f \in Occupied(N, s), NEW t, NEW W,
         LET written == WriteAt(s.file, s.frame[f].page, s.heap[s.frame[f].data])
         IN  \/ t.file = written /\ f \in W
             \/ t.file = s.file /\ (t.frame[f].page = s.frame[f].page
                                      \/ ~Running(t) \/ ~s.frame[f].dirty),
         \A g \in Occupied(N, s) \ {f} : t.frame[g].page = s.frame[g].page
  PROVE  WritesBack(N, s, t, W)
<1> DEFINE p == s.frame[f].page
           c == s.heap[s.frame[f].data]
           written == WriteAt(s.file, p, c)
<1>1. f \in Frames(N) /\ p \in Pages
  BY OccupiedMembers
<1>2. s.file \in FileValue /\ s.file.size \in Nat
  BY PoolMembers, FileMembers, LastPageAssumption
<1> HIDE DEF p, c
<1>3. /\ s.file.size <= written.size /\ p < written.size
      /\ written.block = [s.file.block EXCEPT ![p] = c]
  <2>1. written.size = IF p < s.file.size THEN s.file.size ELSE p + 1
    BY <1>2 DEF WriteAt, FileValue
  <2>2. p \in Int
    BY <1>1, LastPageAssumption DEF Pages
  <2>3. written.block = [s.file.block EXCEPT ![p] = c]
    BY <1>2 DEF WriteAt, FileValue
  <2> HIDE DEF written
  <2> QED BY <1>2, <2>1, <2>2, <2>3
<1> HIDE DEF written
<1>4. /\ written.block[p] = c
      /\ \A q \in Pages \ {p} : written.block[q] = s.file.block[q]
  BY <1>1, <1>2, <1>3, FileMembers
<1>5. f \in Holding(N, s, p)
  BY <1>1 DEF Holding, p
<1>6. CASE t.file = written /\ f \in W
  BY <1>3, <1>4, <1>5, <1>6 DEF WritesBack, p, c
<1>7. CASE t.file = s.file /\ (t.frame[f].page = p
                                 \/ ~Running(t) \/ ~s.frame[f].dirty)
  BY <1>2, <1>7 DEF WritesBack, p
<1> QED BY <1>6, <1>7 DEF p, c, written

\* forcePage and writeInvoke.
LEMMA WriteFrameWritesBack ==
  ASSUME NEW N \in Nat \ {0}, NEW H,
         NEW s \in Pool(N), Shaped(N, H, s), NEW f \in Occupied(N, s)
  PROVE  WritesBack(N, s, WriteFrame(s, f), {f})
<1> DEFINE written == WriteAt(s.file, s.frame[f].page, s.heap[s.frame[f].data])
           fs == [s.frame EXCEPT ![f] = [s.frame[f] EXCEPT !.dirty = FALSE]]
           t == [s EXCEPT !.streams = s.streams + 1, !.file = written,
                          !.frame = fs]
<1>1. WriteFrame(s, f) \in {t, Crashed(s)}
  BY DEF WriteFrame
<1>2. WritesBack(N, s, Crashed(s), {f})
  BY FileAlone DEF Crashed, Pool
<1>3. \A g \in Frames(N) : WriteFrame(s, f).frame[g].page = s.frame[g].page
  BY WriteFrameGood
<1> HIDE DEF fs, written
<1>4. t.file = written
  BY DEF Pool
<1> HIDE DEF t
<1>5. ASSUME WriteFrame(s, f) = t PROVE WritesBack(N, s, t, {f})
  <2>1. \A g \in Occupied(N, s) \ {f} : t.frame[g].page = s.frame[g].page
    BY <1>3, <1>5 DEF Occupied
  <2>2. t.file = WriteAt(s.file, s.frame[f].page, s.heap[s.frame[f].data])
    BY <1>4 DEF written
  <2> QED BY <2>1, <2>2, OneFrameWritten
<1> QED BY <1>1, <1>2, <1>5

LEMMA ReplaceWritesBack ==
  ASSUME NEW N \in Nat \ {0}, NEW H,
         NEW s \in Pool(N), Shaped(N, H, s), Running(s), NEW f \in Occupied(N, s),
         NEW pg \in Frame, ~pg.dirty, pg.clientCount = 1
  PROVE  WritesBack(N, s, Replace(s, f, pg), Dirty(N, s))
<1> DEFINE r == Replace(s, f, pg)
           w == IF s.frame[f].dirty THEN WriteInvoke(s, f) ELSE s
<1>0. f \in Frames(N)
  BY DEF Occupied
<1>1. CASE Running(r)
  <2>1. Evicted(N, s, r, f, pg.page, pg.data)
    BY <1>1, ReplaceEffect
  <2> HIDE DEF r
  <2>2. \A g \in Occupied(N, s) \ {f} : r.frame[g].page = s.frame[g].page
    BY <2>1 DEF Evicted, Occupied
  <2>3. s.frame[f].dirty => f \in Dirty(N, s)
    BY <1>0 DEF Dirty
  <2> QED BY <2>1, <2>2, <2>3, OneFrameWritten DEF Evicted, r
<1>2. CASE ~Running(r)
  <2>1. w \in Pool(N)
    BY WriteInvokeGood DEF Good
  <2>2. r = w /\ ~Running(w)
    <3>1. Running(w) => Running(r)
      <4> DEFINE fs == [w.frame EXCEPT ![f] = [pg EXCEPT !.lfuPage = s.frame[f].lfuPage]]
                 x == [w EXCEPT !.frame = fs]
      <4>1. Running(w) => r = x
        BY DEF Replace
      <4> HIDE DEF w, fs, r
      <4>2. x.status = w.status
        BY <2>1 DEF Pool
      <4> QED BY <4>1, <4>2 DEF Running
    <3> QED BY <1>2, <3>1 DEF Replace
  <2>3. w = Crashed(s)
    <3>1. w = WriteInvoke(s, f)
      BY <2>2
    <3>2. WriteInvoke(s, f) \in {WriteFrame(s, f), Crashed(s)}
      BY DEF WriteInvoke
    <3>3. CASE w = WriteFrame(s, f)
      <4> DEFINE file == WriteAt(s.file, s.frame[f].page, s.heap[s.frame[f].data])
                 fs == [s.frame EXCEPT ![f] = [s.frame[f] EXCEPT !.dirty = FALSE]]
                 t == [s EXCEPT !.streams = s.streams + 1, !.file = file,
                                !.frame = fs]
      <4>1. w \in {t, Crashed(s)}
        <5> HIDE DEF w
        <5> QED BY <3>3 DEF WriteFrame
      <4> HIDE DEF file, fs
      <4>2. t.status = s.status
        BY DEF Pool
      <4> HIDE DEF t, w
      <4> QED BY <2>2, <4>1, <4>2 DEF Running
    <3> HIDE DEF w
    <3> QED BY <3>1, <3>2, <3>3
  <2> HIDE DEF w
  <2> QED BY <2>2, <2>3, FileAlone DEF Crashed, Pool
<1> QED BY <1>1, <1>2

\* The counters and the hand do not matter for that.
Agree(x, y) ==
  x.status = y.status /\ x.frame = y.frame /\ x.heap = y.heap /\ x.file = y.file

LEMMA AgreeWritesBack ==
  ASSUME NEW N \in Nat \ {0},
         NEW s, NEW t, NEW x, NEW y, Agree(s, t), Agree(x, y),
         NEW W, WritesBack(N, t, y, W)
  PROVE  WritesBack(N, s, x, W)
BY DEF Agree, WritesBack, Holding, Occupied, Running

\* pg is the frame value of a page that has just been read.
JustRead(N, s, pg) == NewPage(N, s, pg) /\ ~pg.dirty /\ pg.clientCount = 1

LEMMA SameWritesBack ==
  ASSUME NEW N \in Nat \ {0}, NEW s \in Pool(N), NEW W
  PROVE  WritesBack(N, s, s, W) /\ WritesBack(N, s, Crashed(s), W)
BY FileAlone DEF Crashed, Pool

LEMMA FIFOWritesBack ==
  ASSUME NEW N \in Nat \ {0}, NEW H,
         NEW s \in Pool(N), Shaped(N, H, s), Running(s), Occupied(N, s) = Frames(N),
         NEW pg, JustRead(N, s, pg), NEW u \in Undefined
  PROVE  WritesBack(N, s, FIFO(N, s, pg, u), Dirty(N, s))
<1> DEFINE start == s.pageCounter % N
           free == {f \in start .. N - 1 : s.frame[f].clientCount = 0}
<1>1. free \subseteq Frames(N) /\ free \in SUBSET Nat
  <2>1. start \in Frames(N)
    BY ModFrame, PoolMembers
  <2> HIDE DEF start
  <2> QED BY <2>1 DEF Frames
<1>2. free # {} => Least(free) \in Occupied(N, s)
  <2> HIDE DEF free
  <2> QED BY <1>1, LeastIsMember
<1>3. \/ FIFO(N, s, pg, u) \in {s, Crashed(s)}
      \/ free # {} /\ FIFO(N, s, pg, u) = Replace(s, Least(free), pg)
  BY DEF FIFO
<1> HIDE DEF free
<1> QED BY <1>2, <1>3, SameWritesBack, ReplaceWritesBack DEF JustRead, NewPage

LEMMA LRUWritesBack ==
  ASSUME NEW N \in Nat \ {0}, NEW H,
         NEW s \in Pool(N), Shaped(N, H, s), Running(s), Occupied(N, s) = Frames(N),
         NEW pg, JustRead(N, s, pg)
  PROVE  WritesBack(N, s, LRU(N, s, pg), Dirty(N, s))
<1> DEFINE v == [f \in Frames(N) |-> s.frame[f].lruPage]
<1>1. v \in [Frames(N) -> Int]
  BY PoolMembers, FrameMembers
<1>2. LRU(N, s, pg) = Replace(s, LastLeast(N, v), pg)
  BY DEF LRU
<1> HIDE DEF v
<1>3. LastLeast(N, v) \in Occupied(N, s)
  BY <1>1, LastLeastIsFrame
<1> QED BY <1>2, <1>3, ReplaceWritesBack DEF JustRead, NewPage

LEMMA CLOCKWritesBack ==
  ASSUME NEW N \in Nat \ {0}, NEW H,
         NEW s \in Pool(N), Shaped(N, H, s), Running(s), Occupied(N, s) = Frames(N),
         NEW pg, JustRead(N, s, pg), NEW u \in Undefined
  PROVE  WritesBack(N, s, CLOCK(N, s, pg, u), Dirty(N, s))
<1> DEFINE hand == IF s.lastEntry % N = 0 THEN 0 ELSE s.lastEntry
           past == IF u.luck = "crash" THEN Crashed(s) ELSE s
           took == IF hand < N THEN Replace(s, hand, pg) ELSE past
           next == IF hand >= N /\ u.luck = "busy" THEN hand ELSE hand + 1
           t == [took EXCEPT !.lastEntry = next]
<1>1. hand \in Nat
  BY PoolMembers
<1>2. took \in Pool(N) /\ WritesBack(N, s, took, Dirty(N, s))
  <2>1. CASE hand < N
    <3>1. hand \in Occupied(N, s)
      BY <1>1, <2>1 DEF Frames
    <3> HIDE DEF hand
    <3> QED BY <2>1, <3>1, ReplaceGood, ReplaceWritesBack
            DEF Good, JustRead, NewPage
  <2>2. CASE ~(hand < N)
    <3>1. past \in {s, Crashed(s)}
      OBVIOUS
    <3> HIDE DEF past, hand
    <3> QED BY <2>2, <3>1, CrashedGood, SameWritesBack DEF Good
  <2> QED BY <2>1, <2>2
<1>3. CLOCK(N, s, pg, u) = t
  BY DEF CLOCK
<1> HIDE DEF took, next
<1>4. Agree(t, took) /\ Agree(s, s)
  BY <1>2 DEF Pool, Agree
<1> HIDE DEF t
<1> QED BY <1>2, <1>3, <1>4, AgreeWritesBack

LEMMA LFUWritesBack ==
  ASSUME NEW N \in Nat \ {0}, NEW H,
         NEW s \in Pool(N), Shaped(N, H, s), Running(s), Occupied(N, s) = Frames(N),
         NEW pg, JustRead(N, s, pg)
  PROVE  WritesBack(N, s, LFU(N, s, pg), Dirty(N, s))
<1> DEFINE at(k) == (s.lastPtr + 1 + k) % N
           v == [k \in Frames(N) |-> s.frame[at(k)].lfuPage]
           victim == at(LastLeast(N, v))
           r == Replace(s, victim, pg)
           t == [r EXCEPT !.lastPtr = victim + 1]
<1>1. \A k \in Frames(N) : at(k) \in Frames(N)
  <2>1. \A k \in Frames(N) : s.lastPtr + 1 + k \in Nat
    BY PoolMembers DEF Frames
  <2> QED BY <2>1, ModFrame
<1>2. LFU(N, s, pg) = t
  BY DEF LFU
<1> HIDE DEF at
<1>3. v \in [Frames(N) -> Int]
  BY <1>1, PoolMembers, FrameMembers
<1> HIDE DEF v
<1>4. victim \in Occupied(N, s)
  BY <1>1, <1>3, LastLeastIsFrame
<1> HIDE DEF victim
<1>5. r \in Pool(N) /\ WritesBack(N, s, r, Dirty(N, s))
  BY <1>4, ReplaceGood, ReplaceWritesBack DEF Good, JustRead, NewPage
<1> HIDE DEF r
<1>6. Agree(t, r) /\ Agree(s, s)
  BY <1>5 DEF Pool, Agree
<1> HIDE DEF t
<1> QED BY <1>2, <1>5, <1>6, AgreeWritesBack

LEMMA LoadFullWritesBack ==
  ASSUME NEW N \in Nat \ {0}, NEW H,
         NEW s \in Pool(N), Shaped(N, H, s), Running(s), Occupied(N, s) = Frames(N),
         NEW p, NEW b, Fresh(N, s, p, b), NEW u \in Undefined
  PROVE  WritesBack(N, s, LoadFull(N, s, p, b, u), Dirty(N, s))
<1> DEFINE pg == [page |-> p, data |-> b, dirty |-> FALSE, clientCount |-> 1,
                  lruPage |-> u.lruPage, lfuPage |-> 0]
           t1 == [s EXCEPT !.lastPg = s.lastPg + 1]
           t  == [t1 EXCEPT !.pageCounter = s.pageCounter + 1]
<1>1. t1 \in Pool(N) /\ t1.pageCounter = s.pageCounter
  BY PoolMembers, SetLastPg DEF Pool
<1>2. t \in Pool(N)
  <2>1. s.pageCounter + 1 \in Nat
    BY PoolMembers
  <2> HIDE DEF t1
  <2> QED BY <1>1, <2>1, SetPageCounter
<1>3. Agree(s, t)
  BY DEF Pool, Agree
<1>4. pg \in Frame
  <2>1. u.lruPage \in Int
    BY JunkAssumption DEF Undefined
  <2> QED BY <2>1 DEF Frame, Fresh
<1>5. JustRead(N, t, pg)
  BY <1>3, <1>4 DEF JustRead, NewPage, Fresh, Agree
<1>6. LoadFull(N, s, p, b, u) \in {FIFO(N, t, pg, u), LRU(N, t, pg), CLOCK(N, t, pg, u),
                                LFU(N, t, pg), t}
  BY <1>1 DEF LoadFull
<1> HIDE DEF t, pg
<1>7. Shaped(N, H, t) /\ Occupied(N, t) = Frames(N) /\ Running(t)
  BY <1>3, ShapeOfFrames DEF Occupied, Agree, Running
<1>8. WritesBack(N, t, LoadFull(N, s, p, b, u), Dirty(N, s))
  <2>1. WritesBack(N, t, LoadFull(N, s, p, b, u), Dirty(N, t))
    BY <1>2, <1>5, <1>6, <1>7, SameWritesBack, FIFOWritesBack, LRUWritesBack,
       CLOCKWritesBack, LFUWritesBack
  <2> QED BY <1>3, <2>1 DEF Agree, Dirty
<1>9. Agree(LoadFull(N, s, p, b, u), LoadFull(N, s, p, b, u))
  BY DEF Agree
<1> QED BY <1>3, <1>8, <1>9, AgreeWritesBack

\* pinPage reads into a buffer no frame points to, so that what is written
\* back is what the frames held before the call.
LEMMA PinPageWritesBack ==
  ASSUME NEW N \in Nat \ {0}, NEW H,
         NEW s \in Pool(N), Shaped(N, H, s), Running(s), NEW p \in Pages,
         NEW b \in Bufs, \A g \in Frames(N) : s.frame[g].data # b,
         NEW u \in Undefined
  PROVE  WritesBack(N, s, PinPage(N, s, p, b, u), Dirty(N, s))
<1> DEFINE f == Least(Stops(N, s, p))
           r == ReadInto(s, p, b, u)
           x == PinPage(N, s, p, b, u)
<1> SUFFICES WritesBack(N, s, x, Dirty(N, s))
  OBVIOUS
<1>1. r \in Pool(N) /\ Shaped(N, H, r) /\ r.frame = s.frame
  BY ReadIntoGood DEF Good
<1>2. r.file = s.file /\ \A c \in Bufs \ {b} : r.heap[c] = s.heap[c]
  <2> DEFINE c == IF s.file.exists /\ s.streams < MaxStreams /\ p < s.file.size
                  THEN s.file.block[p] ELSE u.content
             k == IF s.file.exists /\ s.streams < MaxStreams
                  THEN s.streams + 1 ELSE s.streams
             h == [s.heap EXCEPT ![b] = c]
             t == [s EXCEPT !.streams = k, !.heap = h]
  <2>1. r \in {t, Crashed(s)}
    BY DEF ReadInto
  <2> HIDE DEF c, k
  <2>2. \A d \in Bufs \ {b} : h[d] = s.heap[d]
    BY PoolMembers
  <2> HIDE DEF h
  <2>3. t.file = s.file /\ t.heap = h
    BY DEF Pool
  <2>4. Crashed(s).file = s.file /\ Crashed(s).heap = s.heap
    BY DEF Crashed, Pool
  <2> HIDE DEF t, r
  <2> QED BY <2>1, <2>2, <2>3, <2>4
<1>3. x \in {HitFrame(s, f), r, LoadEmpty(r, f, p, b), LoadFull(N, r, p, b, u)}
  BY DEF PinPage
<1> HIDE DEF r
<1>4. CASE Stops(N, s, p) # {} /\ s.frame[f].page = p
  <2>1. x = HitFrame(s, f)
    BY <1>4 DEF PinPage
  <2>2. x.file = s.file
    BY <2>1 DEF HitFrame, Pool
  <2>3. \A g \in Frames(N) : x.frame[g].page = s.frame[g].page
    <3> DEFINE fr == s.frame[f]
               new == [fr EXCEPT
                         !.clientCount = fr.clientCount + 1,
                         !.lruPage = IF s.strategy \in {"LRU", "CLOCK"} THEN 1 ELSE fr.lruPage,
                         !.lfuPage = IF s.strategy = "LFU" THEN 1 ELSE fr.lfuPage]
    <3>1. x.frame = [s.frame EXCEPT ![f] = new]
      BY <2>1 DEF HitFrame, Pool
    <3>2. f \in Frames(N)
      BY <1>4, StopsCases DEF Occupied
    <3>3. new.page = s.frame[f].page
      <4>1. s.frame[f] \in Frame
        BY <3>2, PoolMembers
      <4> QED BY <4>1 DEF Frame
    <3> HIDE DEF x, new, f
    <3>4. s.frame \in [Frames(N) -> Frame]
      BY PoolMembers
    <3> QED BY <3>1, <3>2, <3>3, <3>4
  <2> HIDE DEF x
  <2> QED BY <2>2, <2>3, FileAlone DEF Occupied
<1>5. CASE x = r
  BY <1>1, <1>2, <1>5, FileAlone DEF Occupied
<1>6. CASE /\ Stops(N, s, p) # {} /\ f \in Frames(N)
           /\ s.frame[f].page # p /\ f \notin Occupied(N, s)
           /\ x = LoadEmpty(r, f, p, b)
  <2>1. x.file = s.file
    BY <1>1, <1>2, <1>6 DEF LoadEmpty, LoadFirst, LoadOther, Pool
  <2>2. \A g \in Frames(N) \ {f} : x.frame[g] = r.frame[g]
    <3>1. r.frame \in [Frames(N) -> Frame] /\ f \in Frames(N)
      BY <1>1, <1>6, PoolMembers
    <3> HIDE DEF x, f
    <3>2. CASE f = 0
      <4> DEFINE new == Loaded(r.frame[0], p, b, r.frame[0].clientCount + 1, 0)
      <4>1. x.frame = [r.frame EXCEPT ![f] = new]
        BY <1>1, <1>6, <3>2 DEF LoadEmpty, LoadFirst, Pool
      <4> HIDE DEF new
      <4> QED BY <3>1, <4>1
    <3>3. CASE f # 0
      <4> DEFINE age == CASE r.strategy = "CLOCK" -> 1
                          [] r.strategy = "LRU"   -> r.lastPg + 1
                          [] OTHER                -> 0
                 new == Loaded(r.frame[f], p, b, 1, age)
                 t   == [r EXCEPT !.frame = [r.frame EXCEPT ![f] = new],
                                  !.pageCounter = r.pageCounter + 1,
                                  !.lastPg = r.lastPg + 1]
      <4>1. x = t
        BY <1>6, <3>3 DEF LoadEmpty, LoadOther
      <4> HIDE DEF new
      <4>2. t.frame = [r.frame EXCEPT ![f] = new]
        BY <1>1 DEF Pool
      <4> HIDE DEF t
      <4> QED BY <3>1, <4>1, <4>2
    <3> QED BY <3>2, <3>3
  <2> HIDE DEF x, f
  <2> QED BY <1>1, <1>6, <2>1, <2>2, FileAlone DEF Occupied
<1>7. CASE /\ Stops(N, s, p) = {} /\ Occupied(N, s) = Frames(N)
           /\ \A g \in Frames(N) : s.frame[g].page # p
           /\ Running(r)
  <2>1. x = LoadFull(N, r, p, b, u)
    BY <1>7 DEF PinPage, r
  <2>2. Fresh(N, r, p, b) /\ Occupied(N, r) = Frames(N)
    BY <1>1, <1>7 DEF Fresh, Occupied
  <2>3. WritesBack(N, r, x, Dirty(N, r))
    BY <1>1, <1>7, <2>1, <2>2, LoadFullWritesBack
  <2>4. \A g \in Occupied(N, s) : r.heap[r.frame[g].data] = s.heap[s.frame[g].data]
    BY <1>1, <1>2, OccupiedMembers
  <2>5. \A q \in Pages : q # NoPage
    BY LastPageAssumption DEF Pages, NoPage
  <2> HIDE DEF x
  <2> QED BY <1>1, <1>2, <2>3, <2>4, <2>5 DEF WritesBack, Holding, Occupied, Dirty
<1>8. Stops(N, s, p) # {} /\ s.frame[f].page # p =>
        f \in Frames(N) /\ f \notin Occupied(N, s)
  <2> SUFFICES ASSUME Stops(N, s, p) # {}, s.frame[f].page # p
               PROVE  f \in Frames(N) /\ f \notin Occupied(N, s)
    OBVIOUS
  <2>1. Stops(N, s, p) \in SUBSET Nat
    BY DEF Stops, Frames
  <2>2. f \in Stops(N, s, p)
    BY <2>1, LeastIsMember
  <2> HIDE DEF f
  <2> QED BY <2>2 DEF Stops, Occupied
<1>9. \/ Stops(N, s, p) # {} /\ s.frame[f].page = p
      \/ x = r
      \/ Stops(N, s, p) # {} /\ s.frame[f].page # p /\ x = LoadEmpty(r, f, p, b)
      \/ Stops(N, s, p) = {} /\ Running(r)
  BY DEF PinPage, r
<1> QED BY <1>4, <1>5, <1>6, <1>7, <1>8, <1>9, StopsCases

\* A flush writes some dirty frames, and when it survives, all that nobody has
\* pinned.
LEMMA FlushEffect ==
  ASSUME NEW N \in Nat \ {0}, NEW H, NEW s \in Pool(N), Shaped(N, H, s)
  PROVE  LET t == ForceFlushPool(N, s) IN
         \E W \in SUBSET Frames(N) :
           /\ t.heap = s.heap /\ t.strategy = s.strategy
           /\ t.file.exists = s.file.exists
           /\ s.file.size <= t.file.size
           /\ \A f \in Frames(N) :
                /\ t.frame[f].page = s.frame[f].page
                /\ t.frame[f].data = s.frame[f].data
                /\ t.frame[f].clientCount = s.frame[f].clientCount
                /\ t.frame[f].dirty = (s.frame[f].dirty /\ f \notin W)
           /\ \A f \in W :
                /\ f \in Occupied(N, s) /\ s.frame[f].dirty
                /\ s.frame[f].page < t.file.size
                /\ s.frame[f].page \notin H =>
                     t.file.block[s.frame[f].page] = s.heap[s.frame[f].data]
           /\ \A p \in Pages : \/ t.file.block[p] = s.file.block[p]
                               \/ \E f \in W : s.frame[f].page = p
           /\ t.status \in {s.status, "crashed"}
           /\ t.status # "crashed" =>
                \A f \in Frames(N) : s.frame[f].clientCount = 0 => ~t.frame[f].dirty
<1> DEFINE due == {f \in Frames(N) : s.frame[f].clientCount = 0 /\ s.frame[f].dirty}
           rank(f) == Cardinality({g \in due : g <= f})
           written == {f \in due : /\ PointersFitInt
                                   /\ s.file.exists
                                   /\ s.streams + rank(f) < MaxStreams}
           of(p) == {f \in written : s.frame[f].page = p}
           covers == {n \in s.file.size .. LastPage + 1 :
                        \A f \in written : s.frame[f].page < n}
           blocks == [p \in Pages |->
                        IF of(p) = {} THEN s.file.block[p]
                        ELSE s.heap[s.frame[Greatest(of(p))].data]]
           size == Least(covers)
           file == [exists |-> s.file.exists, size |-> size, block |-> blocks]
           k == s.streams + Cardinality(written)
           fs == [f \in Frames(N) |->
                    [s.frame[f] EXCEPT !.dirty = s.frame[f].dirty /\ f \notin written]]
           st == IF written = due THEN s.status ELSE "crashed"
           t == ForceFlushPool(N, s)
<1>1. t = [s EXCEPT !.status = st, !.streams = k, !.file = file, !.frame = fs]
  BY DEF ForceFlushPool
<1>2. written \subseteq due /\ due \subseteq Frames(N)
  OBVIOUS
<1>3. due \subseteq Occupied(N, s)
  BY DEF Occupied, Shaped, EmptyIsBlank, EmptyFrame
<1>4. \A f \in written : s.frame[f].page \in Pages /\ s.frame[f].data \in Bufs
  BY <1>2, <1>3, OccupiedMembers
<1>5. \A f \in Frames(N) : /\ fs[f].page = s.frame[f].page
                           /\ fs[f].data = s.frame[f].data
                           /\ fs[f].clientCount = s.frame[f].clientCount
                           /\ fs[f].dirty = (s.frame[f].dirty /\ f \notin written)
  <2> TAKE f \in Frames(N)
  <2>1. s.frame[f] \in Frame
    BY PoolMembers
  <2> HIDE DEF written
  <2> QED BY <2>1 DEF Frame
<1>6. /\ size \in s.file.size .. LastPage + 1
      /\ \A f \in written : s.frame[f].page < size
  <2>1. s.file.size \in 0 .. LastPage + 1
    BY PoolMembers, FileMembers
  <2> HIDE DEF written
  <2>2. covers \in SUBSET Nat
    BY <2>1, LastPageAssumption
  <2>3. LastPage + 1 \in covers
    BY <1>4, <2>1, LastPageAssumption DEF Pages
  <2>4. size \in covers
    <3> HIDE DEF covers
    <3> QED BY <2>2, <2>3, LeastIsMember
  <2> HIDE DEF size
  <2> QED BY <2>4
<1>7. \A p \in Pages : of(p) = {} => blocks[p] = s.file.block[p]
  <2> HIDE DEF of
  <2> QED OBVIOUS
<1>8. \A f \in written : s.frame[f].page \notin H =>
        blocks[s.frame[f].page] = s.heap[s.frame[f].data]
  <2> TAKE f \in written
  <2> HAVE s.frame[f].page \notin H
  <2> DEFINE p == s.frame[f].page
             g == Greatest(of(p))
  <2>1. f \in of(p) /\ p \in Pages
    BY <1>4
  <2>2. g \in of(p)
    <3>1. of(p) \in SUBSET Frames(N)
      OBVIOUS
    <3> HIDE DEF of, p
    <3> QED BY <2>1, <3>1, GreatestIsMember
  <2>3. g \in written /\ s.frame[g].page = s.frame[f].page
    <3> HIDE DEF g, written
    <3> QED BY <2>2
  <2>4. g = f
    <3> HIDE DEF g, written, due, of
    <3> QED BY <1>2, <1>3, <2>3 DEF Shaped, OneFrameBut
  <2>5. blocks[p] = s.heap[s.frame[g].data]
    <3> HIDE DEF of, p
    <3> QED BY <2>1
  <2> HIDE DEF g, blocks
  <2> QED BY <2>4, <2>5
<1> HIDE DEF blocks, size
<1>9. file.exists = s.file.exists /\ file.size = size /\ file.block = blocks
  BY DEF file
<1>10. \A f \in written : s.frame[f].dirty
  OBVIOUS
<1> HIDE DEF st, k, fs, file, t
<1>11. /\ t.heap = s.heap /\ t.strategy = s.strategy /\ t.file = file
       /\ t.frame = fs /\ t.status = st
  BY <1>1 DEF Pool
<1>12. t.status \in {s.status, "crashed"}
  BY <1>11 DEF st
<1>13. ASSUME t.status # "crashed", NEW f \in Frames(N), s.frame[f].clientCount = 0
       PROVE  ~t.frame[f].dirty
  <2>1. written = due
    BY <1>11, <1>13 DEF st
  <2>2. s.frame[f].dirty => f \in written
    BY <1>13, <2>1
  <2> HIDE DEF due, written
  <2>3. fs[f].dirty = (s.frame[f].dirty /\ f \notin written)
    BY <1>5
  <2> QED BY <1>11, <2>2, <2>3
<1>14. s.file.size <= size
  BY <1>6, PoolMembers, FileMembers, LastPageAssumption
<1>15. \A p \in Pages : \/ blocks[p] = s.file.block[p]
                        \/ \E f \in written : s.frame[f].page = p
  <2> HIDE DEF written
  <2> QED BY <1>7
<1>16. written \in SUBSET Frames(N) /\ written \subseteq Occupied(N, s)
  BY <1>2, <1>3
<1> HIDE DEF written, due
<1>17. /\ t.heap = s.heap /\ t.strategy = s.strategy
       /\ t.file.exists = s.file.exists
       /\ s.file.size <= t.file.size
       /\ \A f \in Frames(N) :
            /\ t.frame[f].page = s.frame[f].page
            /\ t.frame[f].data = s.frame[f].data
            /\ t.frame[f].clientCount = s.frame[f].clientCount
            /\ t.frame[f].dirty = (s.frame[f].dirty /\ f \notin written)
       /\ \A f \in written :
            /\ f \in Occupied(N, s) /\ s.frame[f].dirty
            /\ s.frame[f].page < t.file.size
            /\ s.frame[f].page \notin H =>
                 t.file.block[s.frame[f].page] = s.heap[s.frame[f].data]
       /\ \A p \in Pages : \/ t.file.block[p] = s.file.block[p]
                           \/ \E f \in written : s.frame[f].page = p
       /\ t.status \in {s.status, "crashed"}
       /\ t.status # "crashed" =>
            \A f \in Frames(N) : s.frame[f].clientCount = 0 => ~t.frame[f].dirty
  BY <1>5, <1>6, <1>8, <1>9, <1>10, <1>11, <1>12, <1>13, <1>14, <1>15, <1>16
<1> QED BY <1>16, <1>17 DEF t

\* A flush writes to a page what one of its frames holds.
LEMMA ForceFlushPoolWritesBack ==
  ASSUME NEW N \in Nat \ {0}, NEW s \in Pool(N), Shaped(N, {}, s)
  PROVE  WritesBack(N, s, ForceFlushPool(N, s), Dirty(N, s))
<1> DEFINE t == ForceFlushPool(N, s)
<1>1. /\ s.file.size <= t.file.size
      /\ \A f \in Frames(N) : t.frame[f].page = s.frame[f].page
      /\ \A p \in Pages : t.file.block[p] # s.file.block[p] =>
           /\ p < t.file.size
           /\ \E f \in Holding(N, s, p) \cap Dirty(N, s) :
                 t.file.block[p] = s.heap[s.frame[f].data]
  BY FlushEffect DEF Holding, Dirty
<1> HIDE DEF t
<1> QED BY <1>1 DEF WritesBack, Occupied, t

\* The blocks a file does not have are zeros when it comes to have them.
Sparse(file) == \A p \in Pages : p >= file.size => file.block[p] = Blank

LEMMA SparseKept ==
  ASSUME NEW N \in Nat \ {0},
         NEW s \in Pool(N), Sparse(s.file), NEW t \in Pool(N), NEW W, WritesBack(N, s, t, W)
  PROVE  Sparse(t.file)
<1> SUFFICES ASSUME NEW p \in Pages, p >= t.file.size
             PROVE  t.file.block[p] = Blank
  BY DEF Sparse
<1>1. s.file.size \in Int /\ t.file.size \in Int /\ p \in Int
  BY PoolMembers, FileMembers, LastPageAssumption DEF Pages
<1>2. s.file.size <= t.file.size
  BY DEF WritesBack
<1>3. t.file.block[p] = s.file.block[p]
  BY <1>1 DEF WritesBack
<1> QED BY <1>1, <1>2, <1>3 DEF Sparse

-----------------------------------------------------------------------------
(* The one frame a pin changes, and the counter that gives FIFO its turn *)

LEMMA WriteCounts ==
  ASSUME NEW N \in Nat \ {0}, NEW s \in Pool(N), NEW f \in Frames(N)
  PROVE  /\ WriteFrame(s, f).pageCounter = s.pageCounter
         /\ WriteInvoke(s, f).pageCounter = s.pageCounter
<1>1. Crashed(s).pageCounter = s.pageCounter
  BY DEF Crashed, Pool
<1>2. WriteFrame(s, f).pageCounter = s.pageCounter
  BY <1>1 DEF WriteFrame, Pool
<1> QED BY <1>1, <1>2 DEF WriteInvoke

LEMMA ReplaceCounts ==
  ASSUME NEW N \in Nat \ {0}, NEW H,
         NEW s \in Pool(N), Shaped(N, H, s), NEW f \in Occupied(N, s), NEW pg
  PROVE  Replace(s, f, pg).pageCounter = s.pageCounter
<1> DEFINE w == IF s.frame[f].dirty THEN WriteInvoke(s, f) ELSE s
<1>1. w \in Pool(N)
  BY WriteInvokeGood DEF Good
<1>2. w.pageCounter = s.pageCounter
  BY WriteCounts DEF Occupied
<1> HIDE DEF w
<1>3. [w EXCEPT !.frame[f] = [pg EXCEPT !.lfuPage = s.frame[f].lfuPage]].pageCounter
        = s.pageCounter
  BY <1>1, <1>2 DEF Pool
<1> QED BY <1>2, <1>3 DEF Replace, w

LEMMA LoadFullCounts ==
  ASSUME NEW N \in Nat \ {0}, NEW H,
         NEW s \in Pool(N), Shaped(N, H, s), Occupied(N, s) = Frames(N),
         NEW p, NEW b, Fresh(N, s, p, b), NEW u \in Undefined
  PROVE  LoadFull(N, s, p, b, u).pageCounter = s.pageCounter + 1
<1> DEFINE pg == [page |-> p, data |-> b, dirty |-> FALSE, clientCount |-> 1,
                  lruPage |-> u.lruPage, lfuPage |-> 0]
           t1 == [s EXCEPT !.lastPg = s.lastPg + 1]
           t  == [t1 EXCEPT !.pageCounter = s.pageCounter + 1]
<1>1. t1 \in Pool(N) /\ t1.pageCounter = s.pageCounter
  BY PoolMembers, SetLastPg DEF Pool
<1>2. t \in Pool(N)
  <2>1. s.pageCounter + 1 \in Nat
    BY PoolMembers
  <2> HIDE DEF t1
  <2> QED BY <1>1, <2>1, SetPageCounter
<1>3. /\ t.frame = s.frame /\ t.pageCounter = s.pageCounter + 1
      /\ t.lastPtr = s.lastPtr
  BY DEF Pool
<1>4. Shaped(N, H, t) /\ Occupied(N, t) = Frames(N)
  BY <1>3, ShapeOfFrames DEF Occupied
<1>5. LoadFull(N, s, p, b, u) =
        CASE s.strategy = "FIFO"  -> FIFO(N, t, pg, u)
          [] s.strategy = "LRU"   -> LRU(N, t, pg)
          [] s.strategy = "CLOCK" -> CLOCK(N, t, pg, u)
          [] s.strategy = "LFU"   -> LFU(N, t, pg)
          [] OTHER                -> t
  BY <1>1 DEF LoadFull
<1>6. NewPage(N, t, pg)
  <2>1. u.lruPage \in Int
    BY JunkAssumption DEF Undefined
  <2>2. pg \in Frame
    BY <2>1 DEF Frame, Fresh
  <2> HIDE DEF t
  <2> QED BY <1>3, <2>2 DEF NewPage, Fresh
<1>7. Crashed(t).pageCounter = t.pageCounter
  BY <1>2 DEF Crashed, Pool
<1> HIDE DEF t, pg
<1>8. \A f \in Frames(N) : /\ Replace(t, f, pg).pageCounter = t.pageCounter
                           /\ Replace(t, f, pg) \in Pool(N)
  BY <1>2, <1>4, <1>6, ReplaceCounts, ReplaceGood DEF Good
<1>9. CASE s.strategy = "FIFO"
  <2> DEFINE start == t.pageCounter % N
             free == {f \in start .. N - 1 : t.frame[f].clientCount = 0}
  <2>1. start \in Frames(N)
    BY <1>2, ModFrame, PoolMembers
  <2>2. free \in SUBSET Nat /\ free \subseteq Frames(N)
    <3> HIDE DEF start
    <3> QED BY <2>1 DEF Frames
  <2>3. free # {} => Least(free) \in Frames(N)
    <3> HIDE DEF free
    <3> QED BY <2>2, LeastIsMember
  <2>4. FIFO(N, t, pg, u) \in {Replace(t, Least(free), pg), Crashed(t), t}
    BY DEF FIFO
  <2>5. free = {} => FIFO(N, t, pg, u) \in {Crashed(t), t}
    BY DEF FIFO
  <2> HIDE DEF free
  <2> QED BY <1>3, <1>5, <1>7, <1>8, <1>9, <2>3, <2>4, <2>5
<1>10. CASE s.strategy = "LRU"
  <2> DEFINE v == [f \in Frames(N) |-> t.frame[f].lruPage]
  <2>1. v \in [Frames(N) -> Int]
    BY <1>2, PoolMembers, FrameMembers
  <2>2. LastLeast(N, v) \in Frames(N)
    BY <2>1, LastLeastIsFrame
  <2>3. LRU(N, t, pg) = Replace(t, LastLeast(N, v), pg)
    BY DEF LRU
  <2> HIDE DEF v
  <2> QED BY <1>3, <1>5, <1>8, <1>10, <2>2, <2>3
<1>11. CASE s.strategy = "CLOCK"
  <2> DEFINE hand == IF t.lastEntry % N = 0 THEN 0 ELSE t.lastEntry
             past == IF u.luck = "crash" THEN Crashed(t) ELSE t
             took == IF hand < N THEN Replace(t, hand, pg) ELSE past
             next == IF hand >= N /\ u.luck = "busy" THEN hand ELSE hand + 1
  <2>1. hand \in Nat
    BY <1>2, PoolMembers
  <2>2. CLOCK(N, t, pg, u) = [took EXCEPT !.lastEntry = next]
    BY DEF CLOCK
  <2>3. hand < N => hand \in Frames(N)
    BY <2>1 DEF Frames
  <2>4. Crashed(t) \in Pool(N)
    BY <1>2, <1>4, CrashedGood DEF Good
  <2> HIDE DEF hand, next
  <2>5. took \in Pool(N) /\ took.pageCounter = t.pageCounter
    BY <1>2, <1>7, <1>8, <2>3, <2>4
  <2> HIDE DEF took
  <2>6. [took EXCEPT !.lastEntry = next].pageCounter = t.pageCounter
    BY <2>5 DEF Pool
  <2> QED BY <1>3, <1>5, <1>11, <2>2, <2>6
<1>12. CASE s.strategy = "LFU"
  <2> DEFINE at(k) == (t.lastPtr + 1 + k) % N
             v == [k \in Frames(N) |-> t.frame[at(k)].lfuPage]
             victim == at(LastLeast(N, v))
             y == Replace(t, victim, pg)
  <2>1. \A k \in Frames(N) : at(k) \in Frames(N)
    <3>1. \A k \in Frames(N) : t.lastPtr + 1 + k \in Nat
      BY <1>2, PoolMembers DEF Frames
    <3> QED BY <3>1, ModFrame
  <2>2. LFU(N, t, pg) = [y EXCEPT !.lastPtr = victim + 1]
    BY DEF LFU
  <2> HIDE DEF at
  <2>3. v \in [Frames(N) -> Int]
    BY <1>2, <2>1, PoolMembers, FrameMembers
  <2> HIDE DEF v
  <2>4. victim \in Frames(N)
    BY <2>1, <2>3, LastLeastIsFrame
  <2> HIDE DEF victim
  <2>5. y \in Pool(N) /\ y.pageCounter = t.pageCounter
    BY <1>8, <2>4
  <2> HIDE DEF y
  <2>6. [y EXCEPT !.lastPtr = victim + 1].pageCounter = t.pageCounter
    BY <2>5 DEF Pool
  <2> QED BY <1>3, <1>5, <1>12, <2>2, <2>6
<1>13. CASE s.strategy \notin {"FIFO", "LRU", "CLOCK", "LFU"}
  BY <1>3, <1>5, <1>13
<1> QED BY <1>9, <1>10, <1>11, <1>12, <1>13

\* Page p is found in frame f, or loaded into it: into the first empty one, or
\* in a full pool in place of what it held, under FIFO when it has the turn.
Takes(N, s, t, f, p) ==
  /\ t.frame[f].page = p
  /\ \A g \in Frames(N) \ {f} : t.frame[g] = s.frame[g]
  /\ \/ /\ s.frame[f].page = p
        /\ t.frame[f].clientCount = s.frame[f].clientCount + 1
        /\ t.pageCounter = s.pageCounter
     \/ /\ Holding(N, s, p) = {}
        /\ t.frame[f].clientCount = 1
        /\ \/ /\ f \notin Occupied(N, s)
              /\ \A g \in Frames(N) : g < f => g \in Occupied(N, s)
              /\ t.pageCounter = IF f = 0 THEN s.pageCounter ELSE s.pageCounter + 1
           \/ /\ Occupied(N, s) = Frames(N)
              /\ t.pageCounter = s.pageCounter + 1
              /\ s.strategy = "FIFO" /\ s.frame[Turn(N, s)].clientCount = 0
                   => f = Turn(N, s)

\* Whether the page could be read or not.
LEMMA PinMoves ==
  ASSUME NEW N \in Nat \ {0}, NEW H,
         NEW s \in Pool(N), Shaped(N, H, s), NEW p \in Pages,
         NEW b \in Bufs, \A g \in Frames(N) : s.frame[g].data # b,
         NEW u \in Undefined,
         NEW t, t = PinPage(N, s, p, b, u), Running(t)
  PROVE  \/ \E f \in Frames(N) : Takes(N, s, t, f, p)
         \/ /\ t.frame = s.frame /\ Holding(N, s, p) = {}
            /\ Occupied(N, s) = Frames(N) /\ NoPlace(N, s)
<1> DEFINE f == Least(Stops(N, s, p))
           r == ReadInto(s, p, b, u)
<1>1. s.frame \in [Frames(N) -> Frame]
  BY PoolMembers
<1>2. /\ r \in Pool(N) /\ Shaped(N, H, r) /\ r.frame = s.frame
      /\ r.strategy = s.strategy /\ r.lastEntry = s.lastEntry
      /\ r.pageCounter = s.pageCounter
  <2>1. r \in Pool(N) /\ Shaped(N, H, r) /\ r.frame = s.frame
    BY ReadIntoGood DEF Good
  <2>2. /\ r.strategy = s.strategy /\ r.lastEntry = s.lastEntry
        /\ r.pageCounter = s.pageCounter
    BY DEF ReadInto, Crashed, Pool
  <2> QED BY <2>1, <2>2
<1>3. ASSUME ~(Stops(N, s, p) # {} /\ s.frame[f].page = p)
      PROVE  t = IF Stops(N, s, p) # {} THEN LoadEmpty(r, f, p, b) ELSE LoadFull(N, r, p, b, u)
  BY <1>3 DEF PinPage
<1>4. CASE Stops(N, s, p) # {} /\ f \in Occupied(N, s) /\ s.frame[f].page = p
  <2> DEFINE fr == s.frame[f]
             new == [fr EXCEPT
                       !.clientCount = fr.clientCount + 1,
                       !.lruPage = IF s.strategy \in {"LRU", "CLOCK"} THEN 1 ELSE fr.lruPage,
                       !.lfuPage = IF s.strategy = "LFU" THEN 1 ELSE fr.lfuPage]
  <2>1. t = [s EXCEPT !.frame = [s.frame EXCEPT ![f] = new],
                      !.lastPg = s.lastPg + 1, !.lastEntry = s.lastEntry + 1]
    BY <1>4 DEF PinPage, HitFrame
  <2>2. f \in Frames(N) /\ fr \in Frame
    BY <1>1, <1>4 DEF Occupied
  <2> HIDE DEF f
  <2>3. new.page = s.frame[f].page /\ new.clientCount = s.frame[f].clientCount + 1
    BY <2>2 DEF Frame
  <2> HIDE DEF new
  <2>4. t.frame = [s.frame EXCEPT ![f] = new] /\ t.pageCounter = s.pageCounter
    BY <2>1 DEF Pool
  <2>5. Takes(N, s, t, f, p)
    BY <1>1, <1>4, <2>2, <2>3, <2>4 DEF Takes
  <2> QED BY <2>2, <2>5
<1>5. CASE /\ Stops(N, s, p) # {} /\ f \in Frames(N) /\ s.frame[f].page # p
           /\ \A g \in Frames(N) : g < f => g \in Occupied(N, s)
           /\ \A g \in Frames(N) : s.frame[g].page # p
  <2>1. t = LoadEmpty(r, f, p, b)
    BY <1>3, <1>5
  <2>2. f \notin Occupied(N, s) /\ s.frame[f].clientCount = 0
    <3>1. Stops(N, s, p) \in SUBSET Nat
      BY DEF Stops, Frames
    <3>2. f \in Stops(N, s, p)
      BY <1>5, <3>1, LeastIsMember
    <3> HIDE DEF f
    <3>3. s.frame[f].page = NoPage
      BY <1>5, <3>2 DEF Stops
    <3> QED BY <1>5, <3>3 DEF Shaped, EmptyIsBlank, Occupied, EmptyFrame
  <2> HIDE DEF r, f
  <2> DEFINE age == CASE r.strategy = "CLOCK" -> 1
                      [] r.strategy = "LRU"   -> r.lastPg + 1
                      [] OTHER                -> 0
             count == IF f = 0 THEN r.frame[f].clientCount + 1 ELSE 1
             new == Loaded(r.frame[f], p, b, count, IF f = 0 THEN 0 ELSE age)
  <2>3. /\ t.frame = [r.frame EXCEPT ![f] = new]
        /\ t.pageCounter = IF f = 0 THEN r.pageCounter ELSE r.pageCounter + 1
    <3>1. CASE f = 0
      BY <1>2, <2>1, <3>1 DEF LoadEmpty, LoadFirst, Pool
    <3>2. CASE f # 0
      BY <1>2, <2>1, <3>2 DEF LoadEmpty, LoadOther, Pool
    <3> QED BY <3>1, <3>2
  <2>4. new.page = p /\ new.clientCount = 1
    BY <1>2, <2>2 DEF Loaded
  <2> HIDE DEF new
  <2>5. Holding(N, s, p) = {}
    BY <1>5 DEF Holding
  <2>6. Takes(N, s, t, f, p)
    BY <1>1, <1>2, <1>5, <2>2, <2>3, <2>4, <2>5 DEF Takes
  <2> QED BY <1>5, <2>6
<1>6. CASE /\ Stops(N, s, p) = {} /\ Occupied(N, s) = Frames(N)
           /\ \A g \in Frames(N) : s.frame[g].page # p
  <2>1. t = LoadFull(N, r, p, b, u)
    BY <1>3, <1>6
  <2>2. Occupied(N, r) = Frames(N) /\ Fresh(N, r, p, b) /\ Holding(N, s, p) = {}
    BY <1>2, <1>6 DEF Occupied, Fresh, Holding
  <2> HIDE DEF r, f
  <2>3. t.pageCounter = s.pageCounter + 1
    BY <1>2, <2>1, <2>2, LoadFullCounts
  <2>4. ASSUME NEW v \in Frames(N), Evicted(N, r, t, v, p, b),
               r.strategy = "FIFO" =>
                 /\ r.frame[v].clientCount = 0
                 /\ r.frame[Turn(N, r)].clientCount = 0 => v = Turn(N, r)
        PROVE  Takes(N, s, t, v, p)
    BY <1>2, <1>6, <2>2, <2>3, <2>4 DEF Evicted, Takes, Turn
  <2>5. ASSUME t.frame = r.frame, NoPlace(N, r)
        PROVE  t.frame = s.frame /\ NoPlace(N, s)
    BY <1>2, <2>5 DEF NoPlace
  <2> QED BY <1>2, <1>6, <2>1, <2>2, <2>4, <2>5, LoadFullEffect
<1> QED BY <1>4, <1>5, <1>6, StopsCases

=============================================================================
