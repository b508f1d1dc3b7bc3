-------------------------- MODULE PoolClientProofs --------------------------
(***************************************************************************)
(* Clients that use a pool with discipline lose nothing: for every number  *)
(* of frames, pages, buffers, streams and FIFO clients, and for a client   *)
(* alone under every strategy.  The pool implements PageStore for them.    *)
(***************************************************************************)
EXTENDS PoolClient, BufferManagerProofs

\* What every lemma on the calls asks for.
USE FramesAssumption

-----------------------------------------------------------------------------
(* The inductive invariant *)

Owners(hs, p) == {c \in Clients : hs[c].page = p}

\* A frame still has every client's page, in the client's buffer.
Pinned(s, hs) ==
  \A c \in Clients : hs[c] # Nothing =>
    \E f \in Frames(N) : /\ s.frame[f].page = hs[c].page
                         /\ s.frame[f].data = hs[c].data

Counted(s, hs) ==
  \A f \in Occupied(N, s) :
    s.frame[f].clientCount = Cardinality(Owners(hs, s.frame[f].page))

\* A frame shows what was last stored in its page.
Current(s, lt) ==
  \A f \in Occupied(N, s) : lt[s.frame[f].page] # Unwritten =>
    s.heap[s.frame[f].data] = lt[s.frame[f].page]

\* So does the file, unless the page's frame is dirty or about to be marked.
Settled(s, hs, lt) ==
  \A p \in Pages : lt[p] # Unwritten =>
    \/ OnFile(s.file)[p] = lt[p]
    \/ \E f \in Frames(N) : s.frame[f].page = p /\ s.frame[f].dirty
    \/ \E c \in Clients : hs[c].page = p /\ hs[c].unmarked

Coherent(s, hs, lt) ==
  Pinned(s, hs) /\ Counted(s, hs) /\ Current(s, lt) /\ Settled(s, hs, lt)

\* A client holds nothing, or a page in a buffer.
Proper(hs) ==
  /\ hs \in [Clients -> Hold]
  /\ \A c \in Clients : hs[c] = Nothing \/ (hs[c].page \in Pages /\ hs[c].data \in Bufs)

Latest == [Pages -> Content \cup {Unwritten}]

Durable(file, lt) == \A p \in Pages : lt[p] # Unwritten => OnFile(file)[p] = lt[p]

Relies(s, hs, lt, st) ==
  /\ Running(s) /\ ~st => Coherent(s, hs, lt)
  /\ s.status = "closed" /\ ~st => Durable(s.file, lt)

Sane(s, hs, lt, st) ==
  /\ Good(N, {}, s)
  /\ s.file.exists
  /\ Proper(hs)
  /\ lt \in Latest
  /\ st \in BOOLEAN
  /\ Running(s) => s.strategy \in Using
  /\ s.status = "closed" => \A c \in Clients : hs[c] = Nothing
  /\ Relies(s, hs, lt, st)

\* PinnedStays and NoLostStore are not inductive alone: an eviction keeps them
\* because the pins are counted, and because what is neither dirty nor about
\* to be marked is on the file.
IInv ==
  /\ Sane(pool, held, latest, stray)
  /\ pool.status = "crashed" =>
       /\ ~stray
       /\ latest = OnFile(pool.file)
       /\ \A c \in Clients : held[c] = Nothing

-----------------------------------------------------------------------------
(* Facts about the file and the holders *)

LEMMA OnFileType ==
  ASSUME NEW file \in FileValue
  PROVE  OnFile(file) \in Latest
BY FileMembers DEF OnFile, Latest

\* A write shows at its page, and hides nothing that was on the file.
LEMMA WriteAtShows ==
  ASSUME NEW file \in FileValue, NEW p \in Pages, NEW c \in Content
  PROVE  /\ OnFile(WriteAt(file, p, c))[p] = c
         /\ \A q \in Pages \ {p} : OnFile(file)[q] # Unwritten =>
              OnFile(WriteAt(file, p, c))[q] = OnFile(file)[q]
BY WriteAtHas DEF OnFile

\* What a client holds is in one frame, which is occupied.
LEMMA HolderFrame ==
  ASSUME NEW s \in Pool(N), Shaped(N, {}, s), NEW hs, Proper(hs), Pinned(s, hs),
         NEW c \in Clients, hs[c].page # NoPage
  PROVE  /\ hs[c].page \in Pages
         /\ \E f \in Occupied(N, s) : /\ s.frame[f].page = hs[c].page
                                      /\ s.frame[f].data = hs[c].data
         /\ \A f \in Frames(N) : s.frame[f].page = hs[c].page =>
                                s.frame[f].data = hs[c].data
<1>1. hs[c] # Nothing
  BY DEF Nothing
<1>2. hs[c].page \in Pages
  BY <1>1 DEF Proper
<1>3. PICK f \in Frames(N) : /\ s.frame[f].page = hs[c].page
                             /\ s.frame[f].data = hs[c].data
  BY <1>1 DEF Pinned
<1>4. f \in Occupied(N, s)
  BY <1>2, <1>3, NoPageIsNone DEF Occupied
<1>5. ASSUME NEW g \in Frames(N), s.frame[g].page = hs[c].page PROVE g = f
  BY <1>2, <1>3, <1>4, <1>5, NoPageIsNone DEF Occupied, Shaped, OneFrameBut
<1> QED BY <1>2, <1>3, <1>4, <1>5

LEMMA OwnersFinite ==
  ASSUME NEW hs, NEW p
  PROVE  IsFiniteSet(Owners(hs, p))
BY ClientsAssumption, FS_Subset DEF Owners

-----------------------------------------------------------------------------
(* What changes in a pool may be relied on *)

\* A client that held nothing comes to hold what frame f has had before.
LEMMA HitCoherent ==
  ASSUME NEW s \in Pool(N), Shaped(N, {}, s), NEW hs, Proper(hs), NEW lt, Coherent(s, hs, lt),
         NEW c \in Clients, hs[c] = Nothing,
         NEW f \in Occupied(N, s), NEW h, h \in Hold,
         h.page = s.frame[f].page, h.data = s.frame[f].data, ~h.unmarked,
         NEW t, t.heap = s.heap, t.file = s.file,
         \A g \in Frames(N) \ {f} : t.frame[g] = s.frame[g],
         t.frame[f].page = s.frame[f].page, t.frame[f].data = s.frame[f].data,
         t.frame[f].dirty = s.frame[f].dirty,
         t.frame[f].clientCount = s.frame[f].clientCount + 1
  PROVE  Coherent(t, [hs EXCEPT ![c] = h], lt)
<1> DEFINE hs2 == [hs EXCEPT ![c] = h]
<1>1. f \in Frames(N) /\ s.frame[f].page \in Pages
  BY OccupiedMembers
<1>2. \A d \in Clients \ {c} : hs2[d] = hs[d]
  BY DEF Proper
<1>3. hs2[c] = h
  BY DEF Proper
<1>4. ~hs[c].unmarked /\ hs[c].page = NoPage
  BY DEF Nothing
<1>5. \A g \in Frames(N) : /\ t.frame[g].page = s.frame[g].page
                           /\ t.frame[g].data = s.frame[g].data
                           /\ t.frame[g].dirty = s.frame[g].dirty
  <2> TAKE g \in Frames(N)
  <2> CASE g = f
    OBVIOUS
  <2> CASE g # f
    OBVIOUS
  <2> QED OBVIOUS
<1>6. Occupied(N, t) = Occupied(N, s)
  BY <1>5 DEF Occupied
<1> HIDE DEF hs2
<1>7. Pinned(t, hs2)
  <2> SUFFICES ASSUME NEW d \in Clients, hs2[d] # Nothing
               PROVE  \E g \in Frames(N) : /\ t.frame[g].page = hs2[d].page
                                           /\ t.frame[g].data = hs2[d].data
    BY DEF Pinned
  <2>1. CASE d = c
    BY <1>1, <1>3, <1>5, <2>1
  <2>2. CASE d # c
    BY <1>2, <1>5, <2>2 DEF Coherent, Pinned
  <2> QED BY <2>1, <2>2
<1>8. Counted(t, hs2)
  <2> SUFFICES ASSUME NEW g \in Occupied(N, s)
               PROVE  t.frame[g].clientCount
                        = Cardinality(Owners(hs2, s.frame[g].page))
    BY <1>5, <1>6 DEF Counted, Occupied
  <2>1. /\ s.frame[g].page # NoPage
        /\ s.frame[g].clientCount = Cardinality(Owners(hs, s.frame[g].page))
    BY DEF Occupied, Coherent, Counted
  <2>2. CASE g = f
    <3>1. Owners(hs2, s.frame[f].page) = Owners(hs, s.frame[f].page) \cup {c}
      BY <1>2, <1>3 DEF Owners
    <3>2. c \notin Owners(hs, s.frame[f].page)
      BY <1>4, <2>1, <2>2 DEF Owners
    <3>3. Cardinality(Owners(hs2, s.frame[f].page))
            = Cardinality(Owners(hs, s.frame[f].page)) + 1
      BY <3>1, <3>2, OwnersFinite, FS_AddElement
    <3> QED BY <2>1, <2>2, <3>3
  <2>3. CASE g # f
    <3>1. s.frame[g].page # s.frame[f].page
      BY <2>3 DEF Shaped, OneFrameBut
    <3>2. Owners(hs2, s.frame[g].page) = Owners(hs, s.frame[g].page)
      BY <1>2, <1>3, <1>4, <2>1, <3>1 DEF Owners
    <3>3. t.frame[g] = s.frame[g]
      BY <2>3 DEF Occupied
    <3> QED BY <2>1, <3>2, <3>3
  <2> QED BY <2>2, <2>3
<1>9. Current(t, lt)
  BY <1>5, <1>6 DEF Coherent, Current, Occupied
<1>10. Settled(t, hs2, lt)
  <2> SUFFICES ASSUME NEW p \in Pages, lt[p] # Unwritten
               PROVE  \/ OnFile(s.file)[p] = lt[p]
                      \/ \E g \in Frames(N) : s.frame[g].page = p /\ s.frame[g].dirty
                      \/ \E d \in Clients : hs2[d].page = p /\ hs2[d].unmarked
    BY <1>5 DEF Settled
  <2>1. ASSUME NEW d \in Clients, hs[d].page = p, hs[d].unmarked
        PROVE  hs2[d].page = p /\ hs2[d].unmarked
    BY <1>2, <1>4, <2>1
  <2> QED BY <2>1 DEF Coherent, Settled
<1> QED BY <1>7, <1>8, <1>9, <1>10 DEF Coherent, hs2

\* A client comes to hold page p, which was in no frame and is now in frame f,
\* read into buffer b; what the frame had before was nobody's, and is on the
\* file if it was dirty.
LEMMA PlacedCoherent ==
  ASSUME NEW s \in Pool(N), Shaped(N, {}, s), NEW hs, Proper(hs), NEW lt, Coherent(s, hs, lt),
         NEW c \in Clients, hs[c] = Nothing,
         NEW f \in Frames(N), NEW p, NEW b, Fresh(N, s, p, b),
         \A d \in Clients : hs[d].page # NoPage => hs[d].page # s.frame[f].page,
         NEW h \in Hold, h.page = p, h.data = b, ~h.unmarked,
         NEW t,
         \A g \in Frames(N) \ {f} : t.frame[g] = s.frame[g],
         t.frame[f].page = p, t.frame[f].data = b, t.frame[f].clientCount = 1,
         \A x \in Bufs \ {b} : t.heap[x] = s.heap[x],
         OnFile(s.file)[p] # Unwritten => t.heap[b] = OnFile(s.file)[p],
         \A q \in Pages : /\ lt[q] # Unwritten
                          /\ \/ OnFile(s.file)[q] = lt[q]
                             \/ s.frame[f].page = q /\ s.frame[f].dirty
                          => OnFile(t.file)[q] = lt[q]
  PROVE  Coherent(t, [hs EXCEPT ![c] = h], lt)
<1> DEFINE hs2 == [hs EXCEPT ![c] = h]
<1>1. \A d \in Clients \ {c} : hs2[d] = hs[d]
  BY DEF Proper
<1>2. hs2[c] = h
  BY DEF Proper
<1>3. ~hs[c].unmarked /\ hs[c].page = NoPage
  BY DEF Nothing
<1>4. p \in Pages /\ b \in Bufs /\ p # NoPage
  BY NoPageIsNone DEF Fresh
<1>5. \A g \in Frames(N) : s.frame[g].page # p /\ s.frame[g].data # b
  BY DEF Fresh
<1>6. \A d \in Clients : hs[d].page # p
  BY <1>4, <1>5, HolderFrame DEF Coherent, Occupied
<1>7. Occupied(N, t) = Occupied(N, s) \cup {f}
  BY <1>4 DEF Occupied
<1> HIDE DEF hs2
<1>8. Pinned(t, hs2)
  <2> SUFFICES ASSUME NEW d \in Clients, hs2[d] # Nothing
               PROVE  \E g \in Frames(N) : /\ t.frame[g].page = hs2[d].page
                                           /\ t.frame[g].data = hs2[d].data
    BY DEF Pinned
  <2>1. CASE d = c
    BY <1>2, <2>1
  <2>2. CASE d # c
    <3>1. hs2[d] = hs[d] /\ hs[d] # Nothing
      BY <1>1, <2>2
    <3>2. hs[d].page # NoPage
      BY <3>1, NoPageIsNone DEF Proper
    <3>3. PICK g \in Frames(N) : /\ s.frame[g].page = hs[d].page
                                 /\ s.frame[g].data = hs[d].data
      BY <3>1 DEF Coherent, Pinned
    <3>4. g # f
      BY <3>2, <3>3
    <3> QED BY <3>1, <3>3, <3>4
  <2> QED BY <2>1, <2>2
<1>9. Counted(t, hs2)
  <2> SUFFICES ASSUME NEW g \in Occupied(N, t)
               PROVE  t.frame[g].clientCount
                        = Cardinality(Owners(hs2, t.frame[g].page))
    BY DEF Counted
  <2>1. CASE g = f
    <3>1. Owners(hs2, p) = {c}
      BY <1>1, <1>2, <1>6 DEF Owners
    <3>2. Cardinality({c}) = 1
      BY FS_Singleton
    <3> QED BY <2>1, <3>1, <3>2
  <2>2. CASE g # f
    <3>1. g \in Occupied(N, s) /\ g \in Frames(N) /\ t.frame[g] = s.frame[g]
      BY <1>7, <2>2 DEF Occupied
    <3>2. Owners(hs2, s.frame[g].page) = Owners(hs, s.frame[g].page)
      BY <1>1, <1>2, <1>3, <1>5, <3>1 DEF Owners, Occupied
    <3> QED BY <3>1, <3>2 DEF Coherent, Counted
  <2> QED BY <2>1, <2>2
<1>10. Current(t, lt)
  <2> SUFFICES ASSUME NEW g \in Occupied(N, t), lt[t.frame[g].page] # Unwritten
               PROVE  t.heap[t.frame[g].data] = lt[t.frame[g].page]
    BY DEF Current
  <2>1. CASE g = f
    <3>1. OnFile(s.file)[p] = lt[p]
      BY <1>4, <1>5, <1>6, <2>1 DEF Coherent, Settled
    <3> QED BY <2>1, <3>1
  <2>2. CASE g # f
    <3>1. g \in Occupied(N, s) /\ g \in Frames(N) /\ t.frame[g] = s.frame[g]
      BY <1>7, <2>2 DEF Occupied
    <3>2. s.frame[g].data \in Bufs \ {b}
      BY <1>5, <3>1, OccupiedMembers
    <3> QED BY <3>1, <3>2 DEF Coherent, Current
  <2> QED BY <2>1, <2>2
<1>11. Settled(t, hs2, lt)
  <2> SUFFICES ASSUME NEW q \in Pages, lt[q] # Unwritten
               PROVE  \/ OnFile(t.file)[q] = lt[q]
                      \/ \E g \in Frames(N) : t.frame[g].page = q /\ t.frame[g].dirty
                      \/ \E d \in Clients : hs2[d].page = q /\ hs2[d].unmarked
    BY DEF Settled
  <2>1. CASE OnFile(s.file)[q] = lt[q]
    BY <2>1
  <2>2. CASE \E g \in Frames(N) : s.frame[g].page = q /\ s.frame[g].dirty
    <3>1. PICK g \in Frames(N) : s.frame[g].page = q /\ s.frame[g].dirty
      BY <2>2
    <3>2. CASE g = f
      BY <3>1, <3>2
    <3>3. CASE g # f
      BY <3>1, <3>3
    <3> QED BY <3>2, <3>3
  <2>3. CASE \E d \in Clients : hs[d].page = q /\ hs[d].unmarked
    BY <1>1, <1>3, <2>3
  <2> QED BY <2>1, <2>2, <2>3 DEF Coherent, Settled
<1> QED BY <1>8, <1>9, <1>10, <1>11 DEF Coherent, hs2

\* A client lets go of its page, which it has marked.
LEMMA ReleasedCoherent ==
  ASSUME NEW s \in Pool(N), Shaped(N, {}, s), NEW hs, Proper(hs), NEW lt, Coherent(s, hs, lt),
         NEW c \in Clients, hs[c].page # NoPage, ~hs[c].unmarked,
         NEW f \in Occupied(N, s), s.frame[f].page = hs[c].page,
         NEW t, t.heap = s.heap, t.file = s.file,
         \A g \in Frames(N) \ {f} : t.frame[g] = s.frame[g],
         t.frame[f].page = s.frame[f].page, t.frame[f].data = s.frame[f].data,
         t.frame[f].dirty = s.frame[f].dirty,
         t.frame[f].clientCount = s.frame[f].clientCount - 1
  PROVE  Coherent(t, [hs EXCEPT ![c] = Nothing], lt)
<1> DEFINE hs2 == [hs EXCEPT ![c] = Nothing]
<1>1. \A d \in Clients \ {c} : hs2[d] = hs[d]
  BY DEF Proper
<1>2. hs2[c] = Nothing /\ Nothing.page = NoPage
  BY DEF Proper, Nothing
<1>3. \A g \in Frames(N) : /\ t.frame[g].page = s.frame[g].page
                           /\ t.frame[g].data = s.frame[g].data
                           /\ t.frame[g].dirty = s.frame[g].dirty
  <2> TAKE g \in Frames(N)
  <2> CASE g = f
    OBVIOUS
  <2> CASE g # f
    OBVIOUS
  <2> QED OBVIOUS
<1>4. Occupied(N, t) = Occupied(N, s)
  BY <1>3 DEF Occupied
<1> HIDE DEF hs2
<1>5. Pinned(t, hs2)
  BY <1>1, <1>2, <1>3 DEF Coherent, Pinned
<1>6. Counted(t, hs2)
  <2> SUFFICES ASSUME NEW g \in Occupied(N, s)
               PROVE  t.frame[g].clientCount
                        = Cardinality(Owners(hs2, s.frame[g].page))
    BY <1>3, <1>4 DEF Counted, Occupied
  <2>1. /\ s.frame[g].page # NoPage
        /\ s.frame[g].clientCount = Cardinality(Owners(hs, s.frame[g].page))
    BY DEF Occupied, Coherent, Counted
  <2>2. CASE g = f
    <3>1. Owners(hs2, s.frame[f].page) = Owners(hs, s.frame[f].page) \ {c}
      BY <1>1, <1>2 DEF Owners
    <3>2. c \in Owners(hs, s.frame[f].page)
      BY DEF Owners
    <3>3. Cardinality(Owners(hs2, s.frame[f].page))
            = Cardinality(Owners(hs, s.frame[f].page)) - 1
      BY <3>1, <3>2, OwnersFinite, FS_RemoveElement
    <3> QED BY <2>1, <2>2, <3>3
  <2>3. CASE g # f
    <3>1. s.frame[g].page # s.frame[f].page
      BY <2>3 DEF Shaped, OneFrameBut
    <3>2. Owners(hs2, s.frame[g].page) = Owners(hs, s.frame[g].page)
      BY <1>1, <1>2, <2>1, <3>1 DEF Owners
    <3>3. t.frame[g] = s.frame[g]
      BY <2>3 DEF Occupied
    <3> QED BY <2>1, <3>2, <3>3
  <2> QED BY <2>2, <2>3
<1>7. Current(t, lt)
  BY <1>3, <1>4 DEF Coherent, Current, Occupied
<1>8. Settled(t, hs2, lt)
  <2> SUFFICES ASSUME NEW p \in Pages, lt[p] # Unwritten
               PROVE  \/ OnFile(s.file)[p] = lt[p]
                      \/ \E g \in Frames(N) : s.frame[g].page = p /\ s.frame[g].dirty
                      \/ \E d \in Clients : hs2[d].page = p /\ hs2[d].unmarked
    BY <1>3 DEF Settled
  <2>1. ASSUME NEW d \in Clients, hs[d].page = p, hs[d].unmarked
        PROVE  hs2[d].page = p /\ hs2[d].unmarked
    BY <1>1, <2>1
  <2> QED BY <2>1 DEF Coherent, Settled
<1> QED BY <1>5, <1>6, <1>7, <1>8 DEF Coherent, hs2

\* Some frames were written: their dirty bits are clear and the file shows
\* what they show.
Written(s, t) ==
  /\ t.heap = s.heap
  /\ t.strategy = s.strategy
  /\ t.file.exists = s.file.exists
  /\ \A f \in Frames(N) : /\ t.frame[f].page = s.frame[f].page
                          /\ t.frame[f].data = s.frame[f].data
                          /\ t.frame[f].clientCount = s.frame[f].clientCount
                          /\ t.frame[f].dirty => s.frame[f].dirty
  /\ \A f \in Occupied(N, s) : s.frame[f].dirty /\ ~t.frame[f].dirty =>
       OnFile(t.file)[s.frame[f].page] = s.heap[s.frame[f].data]
  /\ \A q \in Pages : OnFile(s.file)[q] # Unwritten =>
       \/ OnFile(t.file)[q] = OnFile(s.file)[q]
       \/ \E f \in Occupied(N, s) : /\ s.frame[f].page = q
                                    /\ OnFile(t.file)[q] = s.heap[s.frame[f].data]

LEMMA WrittenCoherent ==
  ASSUME NEW s \in Pool(N), Shaped(N, {}, s), NEW hs, NEW lt, Coherent(s, hs, lt),
         NEW t, Written(s, t)
  PROVE  Coherent(t, hs, lt)
<1>1. Occupied(N, t) = Occupied(N, s)
  BY DEF Written, Occupied
<1>2. Pinned(t, hs)
  BY DEF Written, Coherent, Pinned
<1>3. Counted(t, hs)
  BY <1>1 DEF Written, Coherent, Counted, Occupied
<1>4. Current(t, lt)
  BY <1>1 DEF Written, Coherent, Current, Occupied
<1>5. Settled(t, hs, lt)
  <2> SUFFICES ASSUME NEW p \in Pages, lt[p] # Unwritten
               PROVE  \/ OnFile(t.file)[p] = lt[p]
                      \/ \E f \in Frames(N) : t.frame[f].page = p /\ t.frame[f].dirty
                      \/ \E c \in Clients : hs[c].page = p /\ hs[c].unmarked
    BY DEF Settled
  <2>1. CASE OnFile(s.file)[p] = lt[p]
    BY <2>1 DEF Written, Coherent, Current
  <2>2. CASE \E f \in Frames(N) : s.frame[f].page = p /\ s.frame[f].dirty
    <3>1. PICK f \in Frames(N) : s.frame[f].page = p /\ s.frame[f].dirty
      BY <2>2
    <3>2. f \in Occupied(N, s)
      BY <3>1, NoPageIsNone DEF Occupied
    <3>3. s.heap[s.frame[f].data] = lt[p]
      BY <3>1, <3>2 DEF Coherent, Current
    <3> QED BY <3>1, <3>2, <3>3 DEF Written
  <2> QED BY <2>1, <2>2 DEF Coherent, Settled
<1> QED BY <1>2, <1>3, <1>4, <1>5 DEF Coherent

\* A client stores through its handle: the frame of its page shows it, and no
\* other frame does.
LEMMA StoreCoherent ==
  ASSUME NEW s \in Pool(N), Shaped(N, {}, s), NEW hs, Proper(hs), NEW lt \in Latest,
         Coherent(s, hs, lt), NEW c \in Clients, hs[c].page # NoPage,
         NEW x \in Content
  PROVE  Coherent([s EXCEPT !.heap[hs[c].data] = x],
                  [hs EXCEPT ![c].unmarked = TRUE],
                  [lt EXCEPT ![hs[c].page] = x])
<1> DEFINE t == [s EXCEPT !.heap[hs[c].data] = x]
           hs2 == [hs EXCEPT ![c].unmarked = TRUE]
           lt2 == [lt EXCEPT ![hs[c].page] = x]
<1>1. /\ hs[c].page \in Pages
      /\ \A f \in Frames(N) : s.frame[f].page = hs[c].page =>
                             s.frame[f].data = hs[c].data
  BY HolderFrame DEF Coherent
<1>2. PICK fc \in Occupied(N, s) : /\ s.frame[fc].page = hs[c].page
                                   /\ s.frame[fc].data = hs[c].data
  BY HolderFrame DEF Coherent
<1>3. /\ t.frame = s.frame /\ t.file = s.file
      /\ t.heap = [s.heap EXCEPT ![hs[c].data] = x]
  BY DEF Pool
<1>4. s.heap \in [Bufs -> Content] /\ hs[c].data \in Bufs
  BY <1>2, PoolMembers, OccupiedMembers
<1>5. /\ \A d \in Clients \ {c} : hs2[d] = hs[d]
      /\ hs2[c].page = hs[c].page /\ hs2[c].data = hs[c].data /\ hs2[c].unmarked
  BY DEF Proper, Hold
<1>6. \A d \in Clients : hs2[d].page = hs[d].page /\ hs2[d].data = hs[d].data
  BY <1>5
<1>7. lt2[hs[c].page] = x /\ \A p \in Pages \ {hs[c].page} : lt2[p] = lt[p]
  BY <1>1 DEF Latest
<1>8. Occupied(N, t) = Occupied(N, s)
  BY <1>3 DEF Occupied
<1>9. ASSUME NEW f \in Occupied(N, s), f # fc
      PROVE  s.frame[f].page # hs[c].page /\ s.frame[f].data # hs[c].data
  BY <1>2, <1>9 DEF Shaped, OneFrameBut, OneBufferPerFrame
<1>10. \A f \in Occupied(N, s) : s.frame[f].page \in Pages /\ s.frame[f].data \in Bufs
  BY OccupiedMembers
<1> HIDE DEF t, hs2, lt2
<1>11. Pinned(t, hs2)
  <2> SUFFICES ASSUME NEW d \in Clients, hs2[d] # Nothing
               PROVE  \E g \in Frames(N) : /\ s.frame[g].page = hs[d].page
                                           /\ s.frame[g].data = hs[d].data
    BY <1>3, <1>6 DEF Pinned
  <2>1. CASE d = c
    BY <1>2, <2>1 DEF Occupied
  <2>2. CASE d # c
    BY <1>5, <2>2 DEF Coherent, Pinned
  <2> QED BY <2>1, <2>2
<1>12. Counted(t, hs2)
  <2>1. \A p : Owners(hs2, p) = Owners(hs, p)
    BY <1>6 DEF Owners
  <2> QED BY <1>3, <1>8, <2>1 DEF Coherent, Counted
<1>13. Current(t, lt2)
  <2> SUFFICES ASSUME NEW f \in Occupied(N, s), lt2[s.frame[f].page] # Unwritten
               PROVE  t.heap[s.frame[f].data] = lt2[s.frame[f].page]
    BY <1>3, <1>8 DEF Current
  <2>1. CASE f = fc
    BY <1>2, <1>3, <1>4, <1>7, <2>1
  <2>2. CASE f # fc
    <3>1. /\ t.heap[s.frame[f].data] = s.heap[s.frame[f].data]
          /\ lt2[s.frame[f].page] = lt[s.frame[f].page]
      BY <1>3, <1>4, <1>7, <1>9, <1>10, <2>2
    <3> QED BY <3>1 DEF Coherent, Current
  <2> QED BY <2>1, <2>2
<1>14. Settled(t, hs2, lt2)
  <2> SUFFICES ASSUME NEW p \in Pages, lt2[p] # Unwritten
               PROVE  \/ OnFile(s.file)[p] = lt2[p]
                      \/ \E f \in Frames(N) : s.frame[f].page = p /\ s.frame[f].dirty
                      \/ \E d \in Clients : hs2[d].page = p /\ hs2[d].unmarked
    BY <1>3 DEF Settled
  <2>1. CASE p = hs[c].page
    BY <1>5, <2>1
  <2>2. CASE p # hs[c].page
    <3>1. lt2[p] = lt[p]
      BY <1>7, <2>2
    <3>2. ASSUME NEW d \in Clients, hs[d].page = p, hs[d].unmarked
          PROVE  hs2[d].page = p /\ hs2[d].unmarked
      BY <1>5, <2>2, <3>2
    <3> QED BY <3>1, <3>2 DEF Coherent, Settled
  <2> QED BY <2>1, <2>2
<1> QED BY <1>11, <1>12, <1>13, <1>14 DEF Coherent, t, hs2, lt2

\* A client's store is marked: the frame of its page is dirty.
LEMMA MarkedCoherent ==
  ASSUME NEW s \in Pool(N), Shaped(N, {}, s), NEW hs, Proper(hs), NEW lt, Coherent(s, hs, lt),
         NEW c \in Clients, hs[c].page # NoPage,
         NEW f \in Occupied(N, s), s.frame[f].page = hs[c].page,
         NEW t, t.heap = s.heap, t.file = s.file,
         \A g \in Frames(N) \ {f} : t.frame[g] = s.frame[g],
         t.frame[f].page = s.frame[f].page, t.frame[f].data = s.frame[f].data,
         t.frame[f].dirty, t.frame[f].clientCount = s.frame[f].clientCount
  PROVE  Coherent(t, [hs EXCEPT ![c].unmarked = FALSE], lt)
<1> DEFINE hs2 == [hs EXCEPT ![c].unmarked = FALSE]
<1>1. /\ \A d \in Clients \ {c} : hs2[d] = hs[d]
      /\ hs2[c].page = hs[c].page /\ hs2[c].data = hs[c].data
  BY DEF Proper, Hold
<1>2. \A d \in Clients : hs2[d].page = hs[d].page /\ hs2[d].data = hs[d].data
  BY <1>1
<1>3. \A g \in Frames(N) : /\ t.frame[g].page = s.frame[g].page
                           /\ t.frame[g].data = s.frame[g].data
                           /\ t.frame[g].clientCount = s.frame[g].clientCount
                           /\ s.frame[g].dirty => t.frame[g].dirty
  <2> TAKE g \in Frames(N)
  <2> CASE g = f
    OBVIOUS
  <2> CASE g # f
    OBVIOUS
  <2> QED OBVIOUS
<1>4. Occupied(N, t) = Occupied(N, s) /\ f \in Frames(N)
  BY <1>3 DEF Occupied
<1> HIDE DEF hs2
<1>5. Pinned(t, hs2)
  <2> SUFFICES ASSUME NEW d \in Clients, hs2[d] # Nothing
               PROVE  \E g \in Frames(N) : /\ s.frame[g].page = hs[d].page
                                           /\ s.frame[g].data = hs[d].data
    BY <1>2, <1>3 DEF Pinned
  <2>1. hs[d] # Nothing
    <3>1. CASE d = c
      BY <3>1 DEF Nothing
    <3>2. CASE d # c
      BY <1>1, <3>2
    <3> QED BY <3>1, <3>2
  <2> QED BY <2>1 DEF Coherent, Pinned
<1>6. Counted(t, hs2)
  <2>1. \A p : Owners(hs2, p) = Owners(hs, p)
    BY <1>2 DEF Owners
  <2> QED BY <1>3, <1>4, <2>1 DEF Coherent, Counted, Occupied
<1>7. Current(t, lt)
  BY <1>3, <1>4 DEF Coherent, Current, Occupied
<1>8. Settled(t, hs2, lt)
  <2> SUFFICES ASSUME NEW p \in Pages, lt[p] # Unwritten
               PROVE  \/ OnFile(s.file)[p] = lt[p]
                      \/ \E g \in Frames(N) : t.frame[g].page = p /\ t.frame[g].dirty
                      \/ \E d \in Clients : hs2[d].page = p /\ hs2[d].unmarked
    BY DEF Settled
  <2>1. CASE p = hs[c].page
    BY <1>4, <2>1
  <2>2. CASE p # hs[c].page
    BY <1>1, <1>3, <2>2 DEF Coherent, Settled
  <2> QED BY <2>1, <2>2
<1> QED BY <1>5, <1>6, <1>7, <1>8 DEF Coherent, hs2

\* Only bytes nothing points to are forgotten.
LEMMA CollectCoherent ==
  ASSUME NEW s \in Pool(N), Shaped(N, {}, s), NEW hs, NEW lt, Coherent(s, hs, lt),
         NEW used, FrameBufs(N, s) \subseteq used
  PROVE  Coherent(Collect(s, used), hs, lt)
<1> DEFINE t == Collect(s, used)
<1>1. /\ t.frame = s.frame /\ t.file = s.file
      /\ \A x \in Bufs : x \in used => t.heap[x] = s.heap[x]
  BY DEF Collect, Pool
<1>2. \A f \in Occupied(N, s) : s.frame[f].data \in Bufs /\ s.frame[f].data \in used
  BY OccupiedMembers, NullAssumption DEF FrameBufs, Occupied
<1> HIDE DEF t
<1>3. Occupied(N, t) = Occupied(N, s)
  BY <1>1 DEF Occupied
<1>4. Current(t, lt)
  BY <1>1, <1>2, <1>3 DEF Coherent, Current
<1>5. Pinned(t, hs) /\ Counted(t, hs) /\ Settled(t, hs, lt)
  BY <1>1, <1>3 DEF Coherent, Pinned, Counted, Settled
<1> QED BY <1>4, <1>5 DEF Coherent, t

-----------------------------------------------------------------------------
(* What a call leaves behind *)

LEMMA HoldNothing == Nothing \in Hold
BY DEF Nothing, Hold

LEMMA IdleProper == Proper([c \in Clients |-> Nothing])
BY HoldNothing DEF Proper

\* A sane outcome of a call, or the end of the process, keeps the invariant.
LEMMA BecomesIInv ==
  ASSUME NEW s, NEW hs, NEW lt, NEW st, Sane(s, hs, lt, st), Becomes(s, hs, lt, st)
  PROVE  IInv'
<1>1. s \in Pool(N) /\ Shaped(N, {}, s) /\ s.status \in {"running", "closed", "crashed"}
  BY PoolMembers DEF Sane, Good
<1>2. CASE s.status = "crashed"
  <2> DEFINE fresh == FreshPool(N, s.file, s.strategy)
  <2>1. s.file \in FileValue /\ s.strategy \in Strategies
    BY <1>1, PoolMembers
  <2>2. fresh \in Pool(N) /\ Shaped(N, {}, fresh) /\ fresh.file = s.file
    BY <2>1, FreshPoolGood DEF Good, FreshPool
  <2>3. pool' = Crashed(fresh) /\ held' = [c \in Clients |-> Nothing]
        /\ latest' = OnFile(s.file) /\ stray' = FALSE
    BY <1>2 DEF Becomes
  <2> HIDE DEF fresh
  <2>4. Good(N, {}, pool') /\ pool'.file = s.file /\ pool'.status = "crashed"
    BY <2>2, <2>3, CrashedGood DEF Crashed, Pool
  <2>5. OnFile(s.file) \in Latest
    BY <2>1, OnFileType
  <2>6. Proper(held') /\ \A c \in Clients : held'[c] = Nothing
    BY <2>3, IdleProper
  <2>7. Sane(pool', held', latest', stray')
    BY <2>3, <2>4, <2>5, <2>6 DEF Sane, Relies, Running
  <2> QED BY <2>3, <2>4, <2>6, <2>7 DEF IInv
<1>3. CASE s.status # "crashed"
  <2> DEFINE used == FrameBufs(N, s) \cup {hs[c].data : c \in Clients}
             t == Collect(s, used)
  <2>1. pool' = t /\ held' = hs /\ latest' = lt /\ stray' = st
    BY <1>3 DEF Becomes
  <2>2. FrameBufs(N, s) \subseteq used
    OBVIOUS
  <2> HIDE DEF used
  <2>3. /\ t.status = s.status /\ t.file = s.file /\ t.strategy = s.strategy
    BY <1>1 DEF Collect, Pool
  <2>4. Good(N, {}, t)
    BY <1>1, CollectGood
  <2>5. Coherent(s, hs, lt) => Coherent(t, hs, lt)
    BY <1>1, <2>2, CollectCoherent
  <2> HIDE DEF t
  <2>6. Sane(t, hs, lt, st)
    BY <2>3, <2>4, <2>5 DEF Sane, Relies, Running
  <2> QED BY <1>3, <2>1, <2>3, <2>6 DEF IInv
<1> QED BY <1>2, <1>3

\* forcePage and writeInvoke write one frame.
LEMMA WriteFrameWrites ==
  ASSUME NEW s \in Pool(N), Shaped(N, {}, s), NEW f \in Occupied(N, s), Running(WriteFrame(s, f))
  PROVE  Written(s, WriteFrame(s, f))
<1> DEFINE w == WriteFrame(s, f)
           p == s.frame[f].page
           x == s.heap[s.frame[f].data]
           fr == [s.frame[f] EXCEPT !.dirty = FALSE]
<1>1. f \in Frames(N) /\ p \in Pages /\ s.frame[f].data \in Bufs
  BY OccupiedMembers
<1>2. x \in Content /\ s.file \in FileValue /\ s.frame \in [Frames(N) -> Frame]
  BY <1>1, PoolMembers
<1>3. /\ w.file = WriteAt(s.file, p, x)
      /\ w.frame = [s.frame EXCEPT ![f] = fr]
      /\ w.heap = s.heap /\ w.strategy = s.strategy
  BY <1>1, WriteInvokeEffect
<1>4. /\ fr.page = p /\ fr.data = s.frame[f].data /\ ~fr.dirty
      /\ fr.clientCount = s.frame[f].clientCount
  BY <1>1, <1>2 DEF Frame
<1>5. WriteAt(s.file, p, x).exists = s.file.exists
  BY <1>2 DEF WriteAt, FileValue
<1> HIDE DEF w, fr, x, p
<1>6. /\ OnFile(w.file)[p] = x
      /\ \A q \in Pages \ {p} : OnFile(s.file)[q] # Unwritten =>
           OnFile(w.file)[q] = OnFile(s.file)[q]
  BY <1>1, <1>2, <1>3, WriteAtShows
<1>7. w.frame[f] = fr /\ \A g \in Frames(N) \ {f} : w.frame[g] = s.frame[g]
  BY <1>1, <1>2, <1>3
<1>8. \A g \in Frames(N) : /\ w.frame[g].page = s.frame[g].page
                           /\ w.frame[g].data = s.frame[g].data
                           /\ w.frame[g].clientCount = s.frame[g].clientCount
                           /\ w.frame[g].dirty => s.frame[g].dirty
  <2> TAKE g \in Frames(N)
  <2> CASE g = f
    BY <1>4, <1>7 DEF p
  <2> CASE g # f
    BY <1>7
  <2> QED OBVIOUS
<1>9. \A g \in Occupied(N, s) : s.frame[g].dirty /\ ~w.frame[g].dirty =>
        OnFile(w.file)[s.frame[g].page] = s.heap[s.frame[g].data]
  <2> TAKE g \in Occupied(N, s)
  <2> CASE g = f
    BY <1>6 DEF p, x
  <2> CASE g # f
    BY <1>7 DEF Occupied
  <2> QED OBVIOUS
<1>10. \A q \in Pages : OnFile(s.file)[q] # Unwritten =>
         \/ OnFile(w.file)[q] = OnFile(s.file)[q]
         \/ \E g \in Occupied(N, s) : /\ s.frame[g].page = q
                                      /\ OnFile(w.file)[q] = s.heap[s.frame[g].data]
  BY <1>6 DEF p, x
<1> QED BY <1>3, <1>5, <1>8, <1>9, <1>10 DEF Written, w

\* A flush writes dirty frames, and when it survives, all that nobody has
\* pinned.
LEMMA FlushWrites ==
  ASSUME NEW s \in Pool(N), Shaped(N, {}, s)
  PROVE  LET t == ForceFlushPool(N, s) IN
         /\ Written(s, t)
         /\ t.status \in {s.status, "crashed"}
         /\ t.status # "crashed" =>
              \A f \in Frames(N) : s.frame[f].clientCount = 0 => ~t.frame[f].dirty
<1> DEFINE t == ForceFlushPool(N, s)
<1>1. PICK W \in SUBSET Frames(N) :
        /\ t.heap = s.heap /\ t.strategy = s.strategy
        /\ t.file.exists = s.file.exists
        /\ s.file.size <= t.file.size
        /\ \A f \in Frames(N) :
             /\ t.frame[f].page = s.frame[f].page
             /\ t.frame[f].data = s.frame[f].data
             /\ t.frame[f].clientCount = s.frame[f].clientCount
             /\ t.frame[f].dirty = (s.frame[f].dirty /\ f \notin W)
        /\ \A f \in W :
             /\ f \in Occupied(N, s) /\ s.frame[f].dirty
             /\ s.frame[f].page < t.file.size
             /\ t.file.block[s.frame[f].page] = s.heap[s.frame[f].data]
        /\ \A p \in Pages : \/ t.file.block[p] = s.file.block[p]
                            \/ \E f \in W : s.frame[f].page = p
        /\ t.status \in {s.status, "crashed"}
        /\ t.status # "crashed" =>
             \A f \in Frames(N) : s.frame[f].clientCount = 0 => ~t.frame[f].dirty
  BY FlushEffect
<1>2. t \in Pool(N)
  BY ForceFlushPoolGood DEF Good
<1> HIDE DEF t
<1>3. \A f \in W : /\ s.frame[f].page \in Pages
                   /\ OnFile(t.file)[s.frame[f].page] = s.heap[s.frame[f].data]
  BY <1>1, OccupiedMembers DEF OnFile
<1>4. \A q \in Pages : OnFile(s.file)[q] # Unwritten =>
        \/ OnFile(t.file)[q] = OnFile(s.file)[q]
        \/ \E f \in W : s.frame[f].page = q
  <2> TAKE q \in Pages
  <2>1. q \in Int /\ s.file.size \in Int /\ t.file.size \in Int
    BY <1>2, PoolMembers, FileMembers, LastPageAssumption DEF Pages
  <2> QED BY <1>1, <2>1 DEF OnFile
<1>5. \A f \in Occupied(N, s) : s.frame[f].dirty /\ ~t.frame[f].dirty =>
        OnFile(t.file)[s.frame[f].page] = s.heap[s.frame[f].data]
  <2> TAKE f \in Occupied(N, s)
  <2>1. t.frame[f].dirty = (s.frame[f].dirty /\ f \notin W)
    BY <1>1 DEF Occupied
  <2> QED BY <1>3, <2>1
<1>6. \A f \in Frames(N) : t.frame[f].dirty => s.frame[f].dirty
  <2> TAKE f \in Frames(N)
  <2>1. t.frame[f].dirty = (s.frame[f].dirty /\ f \notin W)
    BY <1>1
  <2> QED BY <2>1
<1>7. \A q \in Pages : OnFile(s.file)[q] # Unwritten =>
        \/ OnFile(t.file)[q] = OnFile(s.file)[q]
        \/ \E f \in Occupied(N, s) : /\ s.frame[f].page = q
                                     /\ OnFile(t.file)[q] = s.heap[s.frame[f].data]
  <2>1. W \subseteq Occupied(N, s)
    BY <1>1
  <2> QED BY <1>3, <1>4, <2>1
<1>8. Written(s, t)
  BY <1>1, <1>5, <1>6, <1>7 DEF Written
<1> QED BY <1>1, <1>8 DEF t

\* pinPage, when it puts the page in a frame and has read it.
LEMMA PinCoherent ==
  ASSUME NEW s \in Pool(N), Shaped(N, {}, s), Running(s), s.file.exists,
         NEW hs, Proper(hs), NEW lt \in Latest, Coherent(s, hs, lt),
         NEW c \in Clients, hs[c].page = NoPage,
         s.strategy = "FIFO" \/ \A d \in Clients : d = c,
         NEW p \in Pages, NEW b \in Bufs, \A g \in Frames(N) : s.frame[g].data # b,
         NEW u \in Undefined,
         NEW t, t = PinPage(N, s, p, b, u), Running(t), Holding(N, t, p) # {},
         Holding(N, s, p) # {} \/ s.streams # MaxStreams
  PROVE  Coherent(t, [hs EXCEPT ![c] = [page |-> p, data |-> PinnedData(N, s, p, b),
                                        unmarked |-> FALSE]], lt)
<1> DEFINE f == Least(Stops(N, s, p))
           h == [page |-> p, data |-> PinnedData(N, s, p, b), unmarked |-> FALSE]
           r == ReadInto(s, p, b, u)
           x == IF p < s.file.size THEN s.file.block[p] ELSE u.content
<1>1. hs[c] = Nothing
  BY NoPageIsNone DEF Proper
<1>2. h \in Hold /\ h.page = p /\ h.data = PinnedData(N, s, p, b) /\ ~h.unmarked
  BY PinnedDataIsBuffer DEF Hold
<1>3. CASE Stops(N, s, p) # {} /\ f \in Occupied(N, s) /\ s.frame[f].page = p
  <2> DEFINE fr == s.frame[f]
             fr2 == [fr EXCEPT
                      !.clientCount = fr.clientCount + 1,
                      !.lruPage = IF s.strategy \in {"LRU", "CLOCK"} THEN 1 ELSE fr.lruPage,
                      !.lfuPage = IF s.strategy = "LFU" THEN 1 ELSE fr.lfuPage]
  <2>1. t = [s EXCEPT !.frame = [s.frame EXCEPT ![f] = fr2],
                      !.lastPg = s.lastPg + 1, !.lastEntry = s.lastEntry + 1]
    BY <1>3 DEF PinPage, HitFrame
  <2>2. h.data = s.frame[f].data
    BY <1>3 DEF PinnedData
  <2>3. f \in Frames(N) /\ fr \in Frame /\ s.frame \in [Frames(N) -> Frame]
    BY <1>3, PoolMembers DEF Occupied
  <2>4. /\ fr2.page = fr.page /\ fr2.data = fr.data /\ fr2.dirty = fr.dirty
        /\ fr2.clientCount = fr.clientCount + 1
    <3> HIDE DEF fr
    <3> QED BY <2>3 DEF Frame
  <2> HIDE DEF fr2, h
  <2>5. /\ t.heap = s.heap /\ t.file = s.file
        /\ t.frame = [s.frame EXCEPT ![f] = fr2]
    BY <2>1 DEF Pool
  <2> HIDE DEF f
  <2>6. t.frame[f] = fr2 /\ \A g \in Frames(N) \ {f} : t.frame[g] = s.frame[g]
    BY <2>3, <2>5
  <2>7. /\ t.frame[f].page = s.frame[f].page /\ t.frame[f].data = s.frame[f].data
        /\ t.frame[f].dirty = s.frame[f].dirty
        /\ t.frame[f].clientCount = s.frame[f].clientCount + 1
    BY <2>4, <2>6
  <2> HIDE DEF r, x, fr
  <2>8. /\ f \in Occupied(N, s) /\ h \in Hold /\ h.page = s.frame[f].page
        /\ h.data = s.frame[f].data /\ ~h.unmarked
        /\ t.heap = s.heap /\ t.file = s.file
    BY <1>2, <1>3, <2>2, <2>5
  <2>9. Coherent(t, [hs EXCEPT ![c] = h], lt)
    BY <1>1, <2>6, <2>7, <2>8, HitCoherent
  <2> QED BY <2>9 DEF h
<1>4. ASSUME \A g \in Frames(N) : s.frame[g].page # p
      PROVE  /\ Fresh(N, s, p, b) /\ PinnedData(N, s, p, b) = b
             /\ s.streams \in Nat /\ s.streams < MaxStreams
             /\ ~(Stops(N, s, p) # {} /\ s.frame[f].page = p)
  <2>1. Holding(N, s, p) = {}
    BY <1>4 DEF Holding
  <2>2. Stops(N, s, p) # {} => f \in Frames(N)
    <3>1. Stops(N, s, p) \in SUBSET Nat
      BY FramesAssumption DEF Stops, Frames
    <3> QED BY <3>1, LeastIsMember DEF Stops
  <2> HIDE DEF f
  <2>3. Fresh(N, s, p, b)
    BY <1>4 DEF Fresh
  <2>4. s.streams \in Nat /\ s.streams < MaxStreams
    <3>1. s.streams \in 0 .. MaxStreams
      BY PoolMembers
    <3> QED BY <2>1, <3>1, StreamsAssumption
  <2>5. ~(Stops(N, s, p) # {} /\ s.frame[f].page = p)
    BY <1>4, <2>2
  <2>6. PinnedData(N, s, p, b) = b
    BY <2>5 DEF PinnedData, f
  <2> QED BY <2>3, <2>4, <2>5, <2>6
<1>5. ASSUME \A g \in Frames(N) : s.frame[g].page # p
      PROVE  /\ Running(r) /\ r.file = s.file /\ r.frame = s.frame
             /\ r.strategy = s.strategy /\ r.heap = [s.heap EXCEPT ![b] = x]
  <2>1. Running(r)
    <3>1. t = r \/ Running(r)
      BY <1>4, <1>5 DEF PinPage
    <3> QED BY <3>1
  <2> QED BY <1>4, <1>5, <2>1, ReadIntoEffect
<1>6. /\ s.heap \in [Bufs -> Content]
      /\ OnFile(s.file)[p] # Unwritten => x = OnFile(s.file)[p]
  BY PoolMembers DEF OnFile
<1>7. CASE /\ Stops(N, s, p) # {} /\ f \in Frames(N)
           /\ s.frame[f].page # p
           /\ \A g \in Frames(N) : g < f => g \in Occupied(N, s)
           /\ \A g \in Frames(N) : s.frame[g].page # p
  <2> DEFINE age == CASE r.strategy = "CLOCK" -> 1
                      [] r.strategy = "LRU"   -> r.lastPg + 1
                      [] OTHER                -> 0
             count == IF f = 0 THEN r.frame[f].clientCount + 1 ELSE 1
             fr == Loaded(r.frame[f], p, b, count, IF f = 0 THEN 0 ELSE age)
  <2>1. t = LoadEmpty(r, f, p, b)
    BY <1>4, <1>5, <1>7 DEF PinPage
  <2>2. r \in Pool(N)
    BY <1>7, ReadIntoGood DEF Good
  <2>3. /\ t.heap = r.heap /\ t.file = r.file
        /\ t.frame = [r.frame EXCEPT ![f] = fr]
    <3> HIDE DEF r, f
    <3>1. CASE f = 0
      BY <2>1, <2>2, <3>1 DEF LoadEmpty, LoadFirst, Pool
    <3>2. CASE f # 0
      BY <2>1, <2>2, <3>2 DEF LoadEmpty, LoadOther, Pool
    <3> QED BY <3>1, <3>2
  <2>4. f \in Stops(N, s, p)
    <3>1. Stops(N, s, p) \in SUBSET Nat
      BY FramesAssumption DEF Stops, Frames
    <3> QED BY <1>7, <3>1, LeastIsMember
  <2>5. s.frame[f] = EmptyFrame /\ s.frame[f].page = NoPage
    <3> HIDE DEF f
    <3>1. s.frame[f].page = NoPage
      BY <1>7, <2>4 DEF Stops
    <3> QED BY <1>7, <3>1 DEF Shaped, EmptyIsBlank, Occupied
  <2>6. fr.page = p /\ fr.data = b /\ ~fr.dirty /\ fr.clientCount = 1
    BY <1>5, <1>7, <2>5 DEF Loaded, EmptyFrame
  <2>7. s.frame \in [Frames(N) -> Frame] /\ f \in Frames(N)
    BY <1>7, PoolMembers
  <2> HIDE DEF fr, h, x, f
  <2>8. t.frame[f] = fr /\ \A g \in Frames(N) \ {f} : t.frame[g] = s.frame[g]
    BY <1>5, <1>7, <2>3, <2>7
  <2>9. t.heap[b] = x /\ \A y \in Bufs \ {b} : t.heap[y] = s.heap[y]
    BY <1>5, <1>6, <1>7, <2>3
  <2>10. \A d \in Clients : hs[d].page # NoPage => hs[d].page # s.frame[f].page
    BY <2>5
  <2>11. s.frame[f].page \notin Pages /\ t.file = s.file
    BY <1>5, <1>7, <2>3, <2>5, NoPageIsNone
  <2>12. h.data = b /\ Fresh(N, s, p, b)
    BY <1>2, <1>4, <1>7
  <2>13. /\ t.frame[f].page = p /\ t.frame[f].data = b
         /\ t.frame[f].clientCount = 1
    BY <2>6, <2>8
  <2>14. \A q \in Pages : /\ lt[q] # Unwritten
                          /\ \/ OnFile(s.file)[q] = lt[q]
                             \/ s.frame[f].page = q /\ s.frame[f].dirty
                          => OnFile(t.file)[q] = lt[q]
    BY <2>11
  <2> HIDE DEF r
  <2>15. Coherent(t, [hs EXCEPT ![c] = h], lt)
    BY <1>1, <1>2, <1>6, <2>7, <2>8, <2>9, <2>10, <2>12, <2>13, <2>14,
       PlacedCoherent, SMTT(60)
  <2> QED BY <2>15 DEF h
<1>8. CASE Stops(N, s, p) = {} /\ Occupied(N, s) = Frames(N)
           /\ \A g \in Frames(N) : s.frame[g].page # p
  <2>1. t = LoadFull(N, r, p, b, u)
    BY <1>5, <1>8 DEF PinPage
  <2>2. r \in Pool(N) /\ Shaped(N, {}, r) /\ Occupied(N, r) = Frames(N) /\ Fresh(N, r, p, b)
    BY <1>4, <1>5, <1>8, ReadIntoGood DEF Good, Occupied, Fresh
  <2> HIDE DEF r, x, h, f
  <2>3. PICK v \in Frames(N) : /\ Evicted(N, r, t, v, p, b)
                               /\ r.strategy = "FIFO" => r.frame[v].clientCount = 0
    <3>1. Holding(N, r, p) = {}
      BY <2>2 DEF Holding, Fresh
    <3>2. t.frame # r.frame
      BY <3>1 DEF Holding
    <3> QED BY <2>1, <2>2, <3>2, LoadFullEffect
  <2> DEFINE q == s.frame[v].page
             y == s.heap[s.frame[v].data]
  <2>4. v \in Occupied(N, s) /\ q \in Pages /\ y \in Content
    BY <1>8, OccupiedMembers, PoolMembers
  <2>5. \A d \in Clients : hs[d].page # NoPage => hs[d].page # q
    <3>1. CASE s.strategy = "FIFO"
      <4>1. Cardinality(Owners(hs, q)) = 0
        BY <1>5, <1>8, <2>3, <2>4, <3>1 DEF Coherent, Counted
      <4>2. Owners(hs, q) = {}
        BY <4>1, OwnersFinite, FS_EmptySet
      <4> QED BY <4>2 DEF Owners
    <3>2. CASE \A d \in Clients : d = c
      BY <3>2
    <3> QED BY <3>1, <3>2
  <2>6. s.frame[v].data # b
    BY <2>4 DEF Occupied
  <2>7. /\ t.file = IF s.frame[v].dirty
                    THEN WriteAt(s.file, q, r.heap[s.frame[v].data]) ELSE s.file
        /\ r.heap[s.frame[v].data] = y
    <3>1. s.frame[v].data \in Bufs
      BY <2>4, OccupiedMembers
    <3> QED BY <1>5, <1>6, <1>8, <2>3, <2>6, <3>1 DEF Evicted
  <2>8. /\ \A g \in Frames(N) \ {v} : t.frame[g] = s.frame[g]
        /\ t.frame[v].page = p /\ t.frame[v].data = b
        /\ t.frame[v].clientCount = 1
    BY <1>5, <1>8, <2>3 DEF Evicted
  <2>9. t.heap[b] = x /\ \A z \in Bufs \ {b} : t.heap[z] = s.heap[z]
    BY <1>5, <1>6, <1>8, <2>3 DEF Evicted
  <2>10. ASSUME NEW z \in Pages, lt[z] # Unwritten,
                OnFile(s.file)[z] = lt[z] \/ (q = z /\ s.frame[v].dirty)
         PROVE  OnFile(t.file)[z] = lt[z]
    <3>1. s.file \in FileValue
      BY PoolMembers
    <3>2. lt[q] # Unwritten => y = lt[q]
      BY <2>4 DEF Coherent, Current
    <3> HIDE DEF q, y
    <3>3. CASE s.frame[v].dirty
      BY <2>4, <2>7, <2>10, <3>1, <3>2, <3>3, WriteAtShows
    <3>4. CASE ~s.frame[v].dirty
      BY <2>7, <2>10, <3>4
    <3> QED BY <3>3, <3>4
  <2>11. h.data = b /\ Fresh(N, s, p, b)
    BY <1>2, <1>4, <1>8
  <2>12. Coherent(t, [hs EXCEPT ![c] = h], lt)
    BY <1>1, <1>2, <1>6, <2>5, <2>8, <2>9, <2>10, <2>11, PlacedCoherent
  <2> QED BY <2>12 DEF h
<1> QED BY <1>3, <1>7, <1>8, StopsCases

-----------------------------------------------------------------------------
(* The invariant holds *)

\* A call on a running pool ends in a state the clients may rely on.
LEMMA CallIInv ==
  ASSUME IInv, Running(pool), NEW t, Good(N, {}, t), Kept(pool, t),
         NEW hs, Proper(hs), NEW lt \in Latest, NEW st \in BOOLEAN,
         Running(t) /\ ~st => Coherent(t, hs, lt),
         Becomes(t, hs, lt, st)
  PROVE  IInv'
<1>1. t.status \in {"running", "crashed"} /\ t.file.exists
  BY DEF IInv, Sane, Kept, Running
<1>2. t.strategy \in Using
  BY DEF IInv, Sane, Kept
<1>3. Sane(t, hs, lt, st)
  BY <1>1, <1>2 DEF Sane, Relies
<1> QED BY <1>3, BecomesIInv

LEMMA IInvParts ==
  ASSUME IInv
  PROVE  /\ pool \in Pool(N) /\ Shaped(N, {}, pool) /\ pool.file.exists
         /\ Proper(held) /\ latest \in Latest /\ stray \in BOOLEAN
         /\ Running(pool) => pool.strategy \in Using
         /\ Running(pool) /\ ~stray => Coherent(pool, held, latest)
BY DEF IInv, Sane, Good, Relies

LEMMA SetUnmarked ==
  ASSUME NEW hs, Proper(hs), NEW c \in Clients, hs[c].page # NoPage,
         NEW x \in BOOLEAN
  PROVE  Proper([hs EXCEPT ![c].unmarked = x])
<1> DEFINE h == [hs[c] EXCEPT !.unmarked = x]
<1>1. hs[c] \in Hold /\ hs[c].page \in Pages /\ hs[c].data \in Bufs
  BY DEF Proper, Nothing
<1>2. h \in Hold /\ h.page = hs[c].page /\ h.data = hs[c].data
  BY <1>1 DEF Hold
<1>3. [hs EXCEPT ![c].unmarked = x] = [hs EXCEPT ![c] = h]
  OBVIOUS
<1> HIDE DEF h
<1> QED BY <1>1, <1>2, <1>3 DEF Proper

LEMMA InitIInv == Init => IInv
<1> SUFFICES ASSUME Init PROVE IInv
  OBVIOUS
<1>1. CreatedFile \in FileValue /\ CreatedFile.exists
  BY ContentAssumption, LastPageAssumption DEF CreatedFile, FileValue
<1>2. PICK strategy \in Using : pool = FreshPool(N, CreatedFile, strategy)
  BY DEF Init
<1>3. Good(N, {}, pool)
  BY <1>1, <1>2, FreshPoolGood, UsingAssumption
<1>4. /\ pool.file = CreatedFile /\ pool.strategy = strategy
      /\ pool.status = "running" /\ pool.frame = [f \in Frames(N) |-> EmptyFrame]
  BY <1>2 DEF FreshPool
<1>5. Occupied(N, pool) = {}
  BY <1>4 DEF Occupied, EmptyFrame
<1>6. Coherent(pool, held, latest)
  BY <1>4, <1>5 DEF Init, Coherent, Pinned, Counted, Current, Settled
<1>7. Proper(held) /\ latest \in Latest /\ stray = FALSE
  BY <1>1, IdleProper, OnFileType DEF Init
<1> QED BY <1>1, <1>3, <1>4, <1>6, <1>7 DEF IInv, Sane, Relies, Running

\* One lemma for each action follows.
LEMMA PinIInv ==
  ASSUME IInv, NEW c \in Clients, NEW p \in Pages, Pin(c, p)
  PROVE  IInv'
<1> DEFINE b == CHOOSE x \in Bufs \ InUse : TRUE
           h == [page |-> p, data |-> PinnedData(N, pool, p, b), unmarked |-> FALSE]
           hs == [held EXCEPT ![c] = h]
<1>1. PICK u \in Undefined :
        LET s == PinPage(N, pool, p, b, u)
        IN  Becomes(s, hs, latest, stray \/ Astray(s, p))
  BY DEF Pin, Junk
<1>2. /\ Running(pool) /\ held[c].page = NoPage /\ b \in Bufs \ InUse
  BY DEF Pin, Holders
<1> HIDE DEF b
<1> DEFINE t == PinPage(N, pool, p, b, u)
           st == stray \/ Astray(t, p)
<1>3. b \in Bufs /\ \A g \in Frames(N) : pool.frame[g].data # b
  BY <1>2, NullAssumption DEF InUse, FrameBufs
<1>4. Good(N, {}, t) /\ Kept(pool, t)
  BY <1>3, IInvParts, PinPageGood, PinPageKeeps
<1>5. h \in Hold /\ h.page \in Pages /\ h.data \in Bufs
  BY <1>3, IInvParts, PinnedDataIsBuffer DEF Hold
<1>6. Proper(hs)
  <2> HIDE DEF h
  <2> QED BY <1>5, IInvParts DEF Proper
<1>7. ASSUME Running(t), ~st PROVE Coherent(t, hs, latest)
  <2>1. Coherent(pool, held, latest)
    BY <1>2, <1>7, IInvParts
  <2>2. Holding(N, t, p) # {} /\ (Holding(N, pool, p) # {} \/ pool.streams # MaxStreams)
    BY <1>7 DEF Astray
  <2>3. pool.strategy = "FIFO" \/ \A d \in Clients : d = c
    BY <1>2, IInvParts, SharingAssumption
  <2> HIDE DEF t
  <2>4. t = PinPage(N, pool, p, b, u)
    BY DEF t
  <2> QED BY <1>2, <1>3, <1>7, <2>1, <2>2, <2>3, <2>4, IInvParts, PinCoherent
<1>8. Becomes(t, hs, latest, st)
  BY <1>1
<1>9. st \in BOOLEAN
  BY IInvParts DEF Astray
<1> HIDE DEF t, st, hs
<1> QED BY <1>2, <1>4, <1>6, <1>7, <1>8, <1>9, IInvParts, CallIInv

LEMMA StoreIInv ==
  ASSUME IInv, NEW c \in Clients, NEW x \in Content, Store(c, x)
  PROVE  IInv'
<1> DEFINE t == [pool EXCEPT !.heap[held[c].data] = x]
           heap == [pool.heap EXCEPT ![held[c].data] = x]
           hs == [held EXCEPT ![c].unmarked = TRUE]
           lt == [latest EXCEPT ![held[c].page] = x]
<1>1. Running(pool) /\ held[c].page # NoPage /\ Becomes(t, hs, lt, stray)
  BY DEF Store
<1>2. t = [pool EXCEPT !.heap = heap]
  OBVIOUS
<1>3. heap \in [Bufs -> Content]
  BY IInvParts, PoolMembers
<1> HIDE DEF heap
<1>4. t \in Pool(N)
  BY <1>2, <1>3, IInvParts, SetHeap
<1>5. t.frame = pool.frame /\ Kept(pool, t)
  BY IInvParts DEF Pool, Kept
<1>6. Good(N, {}, t)
  BY <1>4, <1>5, IInvParts, ShapeOfFrames DEF Good
<1>7. Proper(hs)
  BY <1>1, IInvParts, SetUnmarked
<1>8. lt \in Latest
  BY IInvParts DEF Latest
<1>9. ~stray => Coherent(t, hs, lt)
  BY <1>1, IInvParts, StoreCoherent
<1> HIDE DEF t, hs, lt
<1> QED BY <1>1, <1>5, <1>6, <1>7, <1>8, <1>9, IInvParts, CallIInv

\* The frame a client's call finds is the one that holds its page.
LEMMA FoundFrame ==
  ASSUME IInv, Running(pool), ~stray, NEW c \in Clients, held[c].page # NoPage
  PROVE  LET f == Least(Holding(N, pool, held[c].page)) IN
         /\ Holding(N, pool, held[c].page) # {}
         /\ f \in Occupied(N, pool) /\ f \in Frames(N)
         /\ pool.frame[f].page = held[c].page
         /\ pool.frame[f] \in Frame
<1>1. Coherent(pool, held, latest)
  BY IInvParts
<1>2. /\ held[c].page \in Pages
      /\ \E f \in Occupied(N, pool) : pool.frame[f].page = held[c].page
  BY <1>1, IInvParts, HolderFrame DEF Coherent
<1>3. Holding(N, pool, held[c].page) # {}
  BY <1>2 DEF Holding, Occupied
<1>4. /\ Least(Holding(N, pool, held[c].page)) \in Occupied(N, pool)
      /\ pool.frame[Least(Holding(N, pool, held[c].page))].page = held[c].page
  BY <1>2, <1>3, IInvParts, LeastHolding
<1> QED BY <1>3, <1>4, IInvParts, PoolMembers DEF Occupied

LEMMA HeldPage ==
  ASSUME IInv, NEW c \in Clients, held[c].page # NoPage
  PROVE  held[c].page \in Pages
BY IInvParts DEF Proper, Nothing

LEMMA MarkIInv ==
  ASSUME IInv, NEW c \in Clients, Mark(c)
  PROVE  IInv'
<1> DEFINE t == MarkDirty(N, pool, held[c].page)
           hs == [held EXCEPT ![c].unmarked = FALSE]
           f == Least(Holding(N, pool, held[c].page))
           fr == [pool.frame[f] EXCEPT !.dirty = TRUE]
<1>1. Running(pool) /\ held[c].unmarked /\ Becomes(t, hs, latest, stray)
  BY DEF Mark
<1>2. held[c].page # NoPage /\ held[c].page \in Pages
  BY <1>1, IInvParts, NoPageIsNone DEF Proper, Nothing
<1>3. Good(N, {}, t)
  BY <1>2, IInvParts, MarkDirtyGood
<1>4. Kept(pool, t)
  BY IInvParts DEF Kept, MarkDirty, Pool
<1>5. Proper(hs)
  BY <1>2, IInvParts, SetUnmarked
<1>6. ASSUME ~stray PROVE Coherent(t, hs, latest)
  <2>1. /\ Holding(N, pool, held[c].page) # {}
        /\ f \in Occupied(N, pool) /\ f \in Frames(N)
        /\ pool.frame[f].page = held[c].page
        /\ pool.frame[f] \in Frame
    BY <1>1, <1>2, <1>6, FoundFrame
  <2>2. t = [pool EXCEPT !.frame = [pool.frame EXCEPT ![f] = fr]]
    BY <2>1 DEF MarkDirty
  <2>3. /\ fr.page = pool.frame[f].page /\ fr.data = pool.frame[f].data
        /\ fr.dirty /\ fr.clientCount = pool.frame[f].clientCount
    <3> HIDE DEF f
    <3> QED BY <2>1 DEF Frame
  <2>4. pool.frame \in [Frames(N) -> Frame] /\ Coherent(pool, held, latest)
    BY <1>1, <1>6, IInvParts, PoolMembers
  <2> HIDE DEF fr
  <2>5. /\ t.heap = pool.heap /\ t.file = pool.file
        /\ t.frame = [pool.frame EXCEPT ![f] = fr]
    BY <2>2, IInvParts DEF Pool
  <2> HIDE DEF t, f
  <2>6. t.frame[f] = fr /\ \A g \in Frames(N) \ {f} : t.frame[g] = pool.frame[g]
    BY <2>1, <2>4, <2>5
  <2> QED BY <1>2, <2>1, <2>3, <2>4, <2>5, <2>6, IInvParts, MarkedCoherent
<1> HIDE DEF t, hs
<1> QED BY <1>1, <1>3, <1>4, <1>5, <1>6, IInvParts, CallIInv

LEMMA UnpinIInv ==
  ASSUME IInv, NEW c \in Clients, Unpin(c)
  PROVE  IInv'
<1> DEFINE t == UnpinPage(N, pool, held[c].page)
           hs == [held EXCEPT ![c] = Nothing]
           f == Least(Holding(N, pool, held[c].page))
           n == pool.frame[f].clientCount - 1
           fr == [pool.frame[f] EXCEPT !.clientCount = n]
<1>1. /\ Running(pool) /\ held[c].page # NoPage /\ ~held[c].unmarked
      /\ Becomes(t, hs, latest, stray)
  BY DEF Unpin
<1>2. held[c].page \in Pages
  BY <1>1, HeldPage
<1>3. Good(N, {}, t)
  BY <1>2, IInvParts, UnpinPageGood
<1>4. Kept(pool, t)
  BY IInvParts DEF Kept, UnpinPage, Pool
<1>5. Proper(hs)
  BY IInvParts, HoldNothing DEF Proper
<1>6. ASSUME ~stray PROVE Coherent(t, hs, latest)
  <2>1. /\ Holding(N, pool, held[c].page) # {}
        /\ f \in Occupied(N, pool) /\ f \in Frames(N)
        /\ pool.frame[f].page = held[c].page
        /\ pool.frame[f] \in Frame
    BY <1>1, <1>6, FoundFrame
  <2>2. t = [pool EXCEPT !.frame = [pool.frame EXCEPT ![f] = fr]]
    BY <2>1 DEF UnpinPage
  <2> HIDE DEF n
  <2>3. /\ fr.page = pool.frame[f].page /\ fr.data = pool.frame[f].data
        /\ fr.dirty = pool.frame[f].dirty /\ fr.clientCount = n
    <3> HIDE DEF f
    <3> QED BY <2>1 DEF Frame
  <2>4. pool.frame \in [Frames(N) -> Frame] /\ Coherent(pool, held, latest)
    BY <1>1, <1>6, IInvParts, PoolMembers
  <2> HIDE DEF fr
  <2>5. /\ t.heap = pool.heap /\ t.file = pool.file
        /\ t.frame = [pool.frame EXCEPT ![f] = fr]
    BY <2>2, IInvParts DEF Pool
  <2>6. n = pool.frame[f].clientCount - 1
    BY DEF n
  <2> HIDE DEF t, f
  <2>7. t.frame[f] = fr /\ \A g \in Frames(N) \ {f} : t.frame[g] = pool.frame[g]
    BY <2>1, <2>4, <2>5
  <2> QED BY <1>1, <2>1, <2>3, <2>4, <2>5, <2>6, <2>7, IInvParts, ReleasedCoherent
<1> HIDE DEF t, hs
<1> QED BY <1>1, <1>3, <1>4, <1>5, <1>6, IInvParts, CallIInv

LEMMA ForceOutIInv ==
  ASSUME IInv, NEW c \in Clients, ForceOut(c)
  PROVE  IInv'
<1> DEFINE t == ForcePage(N, pool, held[c].page)
           f == Least(Holding(N, pool, held[c].page))
<1>1. /\ Running(pool) /\ held[c].page # NoPage
      /\ Becomes(t, held, latest, stray)
  BY DEF ForceOut
<1>2. held[c].page \in Pages
  BY <1>1, HeldPage
<1>3. Good(N, {}, t)
  BY <1>2, IInvParts, ForcePageGood
<1>4. Kept(pool, t)
  <2>1. CASE Holding(N, pool, held[c].page) = {}
    BY <2>1 DEF ForcePage, Kept
  <2>2. CASE Holding(N, pool, held[c].page) # {}
    <3>1. f \in Frames(N)
      BY <1>2, <2>2, IInvParts, LeastHolding DEF Occupied
    <3>2. t = WriteFrame(pool, f)
      BY <2>2 DEF ForcePage
    <3> QED BY <3>1, <3>2, IInvParts, WriteFrameKeeps
  <2> QED BY <2>1, <2>2
<1>5. ASSUME Running(t), ~stray PROVE Coherent(t, held, latest)
  <2>1. Holding(N, pool, held[c].page) # {} /\ f \in Occupied(N, pool)
    BY <1>1, <1>5, FoundFrame
  <2>2. t = WriteFrame(pool, f)
    BY <2>1 DEF ForcePage
  <2> HIDE DEF t, f
  <2>3. Written(pool, t)
    BY <1>5, <2>1, <2>2, IInvParts, WriteFrameWrites
  <2> QED BY <1>1, <1>5, <2>3, IInvParts, WrittenCoherent
<1> HIDE DEF t
<1> QED BY <1>1, <1>3, <1>4, <1>5, IInvParts, CallIInv

LEMMA FlushKeeps ==
  ASSUME NEW s \in Pool(N), Shaped(N, {}, s)
  PROVE  Kept(s, ForceFlushPool(N, s))
BY FlushWrites DEF Written, Kept

LEMMA FlushIInv ==
  ASSUME IInv, Flush
  PROVE  IInv'
<1> DEFINE t == ForceFlushPool(N, pool)
<1>1. Running(pool) /\ Becomes(t, held, latest, stray)
  BY DEF Flush
<1>2. Good(N, {}, t) /\ Kept(pool, t) /\ Written(pool, t)
  BY IInvParts, ForceFlushPoolGood, FlushKeeps, FlushWrites
<1> HIDE DEF t
<1>3. ASSUME ~stray PROVE Coherent(t, held, latest)
  BY <1>1, <1>2, <1>3, IInvParts, WrittenCoherent
<1> QED BY <1>1, <1>2, <1>3, IInvParts, CallIInv

\* A pool nobody holds a page of has no pins, so a flush that survives leaves
\* nothing dirty, and all that was stored is on the file.
LEMMA IdleFlushIsDurable ==
  ASSUME NEW s \in Pool(N), Shaped(N, {}, s), NEW hs, NEW lt, Coherent(s, hs, lt),
         \A c \in Clients : hs[c] = Nothing,
         Running(ForceFlushPool(N, s))
  PROVE  Durable(ForceFlushPool(N, s).file, lt)
<1> DEFINE t == ForceFlushPool(N, s)
<1>1. /\ Written(s, t)
      /\ \A f \in Frames(N) : s.frame[f].clientCount = 0 => ~t.frame[f].dirty
  BY FlushWrites DEF Running
<1> HIDE DEF t
<1>2. Coherent(t, hs, lt)
  BY <1>1, WrittenCoherent
<1>3. \A f \in Frames(N) : ~t.frame[f].dirty
  <2> TAKE f \in Frames(N)
  <2>1. CASE f \in Occupied(N, s)
    <3>1. s.frame[f].page # NoPage
      BY <2>1 DEF Occupied
    <3>2. Owners(hs, s.frame[f].page) = {}
      BY <3>1 DEF Owners, Nothing
    <3>3. Cardinality(Owners(hs, s.frame[f].page)) = 0
      BY <3>2, FS_EmptySet
    <3> QED BY <1>1, <2>1, <3>3 DEF Coherent, Counted
  <2>2. CASE f \notin Occupied(N, s)
    BY <1>1, <2>2 DEF Shaped, EmptyIsBlank, EmptyFrame
  <2> QED BY <2>1, <2>2
<1>4. \A c \in Clients : ~hs[c].unmarked
  BY DEF Nothing
<1> QED BY <1>2, <1>3, <1>4 DEF Coherent, Settled, Durable, t

LEMMA ShutdownIInv ==
  ASSUME IInv, Shutdown
  PROVE  IInv'
<1> DEFINE s == ForceFlushPool(N, pool)
           t == IF Running(s) THEN [s EXCEPT !.status = "closed"] ELSE s
<1>1. Running(pool) /\ Idle /\ Becomes(t, held, latest, stray)
  BY DEF Shutdown, ShutdownBufferPool
<1>2. \A c \in Clients : held[c] = Nothing
  BY <1>1, IInvParts, NoPageIsNone DEF Idle, Holders, Proper
<1>3. s \in Pool(N) /\ Shaped(N, {}, s) /\ Kept(pool, s)
  BY IInvParts, ForceFlushPoolGood, FlushKeeps DEF Good
<1>4. ~stray /\ Running(s) => Durable(s.file, latest)
  BY <1>1, <1>2, IInvParts, IdleFlushIsDurable
<1> HIDE DEF s
<1>5. CASE Running(s)
  <2> DEFINE x == [s EXCEPT !.status = "closed"]
  <2>1. /\ x \in Pool(N) /\ x.frame = s.frame /\ x.file = s.file
        /\ x.status = "closed"
    BY <1>3, SetStatus DEF Pool
  <2> HIDE DEF x
  <2>2. Good(N, {}, x)
    BY <1>3, <2>1, ShapeOfFrames DEF Good
  <2>3. x.file.exists
    BY <1>3, <2>1, IInvParts DEF Kept
  <2>4. Sane(x, held, latest, stray)
    BY <1>2, <1>4, <1>5, <2>1, <2>2, <2>3, IInvParts DEF Sane, Relies, Running
  <2>5. t = x
    BY <1>5 DEF x
  <2> QED BY <1>1, <2>4, <2>5, BecomesIInv
<1>6. CASE ~Running(s)
  <2>1. t = s /\ Good(N, {}, s)
    BY <1>3, <1>6 DEF Good
  <2> QED BY <1>1, <1>3, <1>6, <2>1, IInvParts, CallIInv
<1> QED BY <1>5, <1>6

\* An empty pool over a file that has everything.
LEMMA EmptyCoherent ==
  ASSUME NEW s, s.frame = [f \in Frames(N) |-> EmptyFrame],
         NEW hs, \A c \in Clients : hs[c] = Nothing,
         NEW lt, Durable(s.file, lt)
  PROVE  Coherent(s, hs, lt)
<1>1. Occupied(N, s) = {}
  BY DEF Occupied, EmptyFrame
<1> QED BY <1>1 DEF Coherent, Pinned, Counted, Current, Settled, Durable

LEMMA OpenIInv ==
  ASSUME IInv, NEW strategy \in Using, Open(strategy)
  PROVE  IInv'
<1> DEFINE t == InitBufferPool(N, pool, strategy)
<1>1. pool.status = "closed" /\ Becomes(t, held, latest, stray)
  BY DEF Open
<1>2. Good(N, {}, t)
  BY IInvParts, InitBufferPoolGood, UsingAssumption
<1>3. /\ t.status = "running" /\ t.strategy = strategy /\ t.file = pool.file
      /\ t.frame = [f \in Frames(N) |-> EmptyFrame]
  BY IInvParts DEF InitBufferPool, Pool
<1> HIDE DEF t
<1>4. /\ \A c \in Clients : held[c] = Nothing
      /\ ~stray => Durable(pool.file, latest)
  BY <1>1 DEF IInv, Sane, Relies
<1>5. ~stray => Coherent(t, held, latest)
  BY <1>3, <1>4, EmptyCoherent
<1>6. Sane(t, held, latest, stray)
  BY <1>2, <1>3, <1>5, IInvParts DEF Sane, Relies, Running
<1> QED BY <1>1, <1>6, BecomesIInv

LEMMA KillIInv ==
  ASSUME IInv, Kill
  PROVE  IInv'
<1> DEFINE t == Crashed(pool)
<1>1. Becomes(t, held, latest, stray)
  BY DEF Kill
<1>2. Good(N, {}, t) /\ Kept(pool, t) /\ t.status = "crashed"
  BY IInvParts, CrashedGood, CrashedKeeps DEF Crashed, Pool
<1> HIDE DEF t
<1>3. Sane(t, held, latest, stray)
  BY <1>2, IInvParts DEF Sane, Relies, Running, Kept
<1> QED BY <1>1, <1>3, BecomesIInv

LEMMA RestartIInv ==
  ASSUME IInv, NEW strategy \in Using, Restart(strategy)
  PROVE  IInv'
<1> DEFINE t == FreshPool(N, pool.file, strategy)
<1>1. /\ pool.status = "crashed" /\ pool' = t
      /\ held' = held /\ latest' = latest /\ stray' = stray
  BY DEF Restart
<1>2. Good(N, {}, t)
  BY IInvParts, PoolMembers, FreshPoolGood, UsingAssumption
<1>3. /\ t.status = "running" /\ t.strategy = strategy /\ t.file = pool.file
      /\ t.frame = [f \in Frames(N) |-> EmptyFrame]
  BY DEF FreshPool
<1> HIDE DEF t
<1>4. /\ \A c \in Clients : held[c] = Nothing
      /\ Durable(pool.file, latest)
  BY <1>1 DEF IInv, Durable
<1>5. Coherent(t, held, latest)
  BY <1>3, <1>4, EmptyCoherent
<1>6. Sane(t, held, latest, stray)
  BY <1>2, <1>3, <1>5, IInvParts DEF Sane, Relies, Running
<1> QED BY <1>1, <1>3, <1>6 DEF IInv

LEMMA NextIInv == IInv /\ [Next]_vars => IInv'
<1> SUFFICES ASSUME IInv, [Next]_vars PROVE IInv'
  OBVIOUS
<1>1. CASE UNCHANGED vars
  BY <1>1 DEF vars, IInv, Sane, Relies, Good, Running
<1> QED BY <1>1, PinIInv, StoreIInv, MarkIInv, UnpinIInv, ForceOutIInv,
           FlushIInv, ShutdownIInv, OpenIInv, KillIInv, RestartIInv DEF Next

\* Every step of every client, and every end of the process, keeps the
\* invariant.
THEOREM Invariance == Spec => []IInv
BY InitIInv, NextIInv, PTL DEF Spec

-----------------------------------------------------------------------------
(* What the clients are promised *)

\* The invariant speaks of Nothing where the properties speak of NoPage.
LEMMA SoundCoherent ==
  ASSUME IInv, Sound
  PROVE  Coherent(pool, held, latest) /\ \A p : Owners(held, p) = Holders(p)
BY IInvParts DEF Sound, Owners, Holders

\* Every state of clients and pool is well-typed.
THEOREM TypeCorrect == Spec => []TypeOK
<1>1. IInv => TypeOK
  BY IInvParts DEF TypeOK, Proper, Latest
<1> QED BY <1>1, Invariance, PTL

\* No replacement takes a frame whose page a client holds, and the holders of
\* a page share its frame's buffer.
THEOREM PinsHold == Spec => []PinnedStays
<1>1. IInv => PinnedStays
  <2> SUFFICES ASSUME IInv, Sound, NEW c \in Clients \ Holders(NoPage)
               PROVE  \E f \in Holding(N, pool, held[c].page) :
                         pool.frame[f].data = held[c].data
    BY DEF PinnedStays
  <2>1. held[c].page # NoPage
    BY DEF Holders
  <2> QED BY <2>1, SoundCoherent, IInvParts, HolderFrame
          DEF Coherent, Holding, Occupied
<1> QED BY <1>1, Invariance, PTL

\* clientCount counts the clients that hold the page.
THEOREM PinsCorrect == Spec => []PinsAccounted
<1>1. IInv => PinsAccounted
  BY SoundCoherent DEF PinsAccounted, Coherent, Counted
<1> QED BY <1>1, Invariance, PTL

\* What is clean can be dropped: it is on the file.
THEOREM CleanIsSafe == Spec => []CleanIsOnFile
<1>1. IInv => CleanIsOnFile
  <2> SUFFICES ASSUME IInv, Sound, NEW f \in Occupied(N, pool),
                      ~pool.frame[f].dirty,
                      latest[pool.frame[f].page] # Unwritten,
                      ~ \E c \in Holders(pool.frame[f].page) : held[c].unmarked
               PROVE  /\ pool.frame[f].page < pool.file.size
                      /\ pool.file.block[pool.frame[f].page]
                           = pool.heap[pool.frame[f].data]
    BY DEF CleanIsOnFile
  <2> DEFINE p == pool.frame[f].page
  <2>1. Coherent(pool, held, latest)
    BY SoundCoherent
  <2>2. p \in Pages /\ p # NoPage
    BY IInvParts, OccupiedMembers, NoPageIsNone
  <2>3. ~ \E g \in Frames(N) : pool.frame[g].page = p /\ pool.frame[g].dirty
    BY <2>2, IInvParts DEF Shaped, OneFrameBut, Occupied
  <2>4. OnFile(pool.file)[p] = latest[p]
    BY <2>1, <2>2, <2>3 DEF Coherent, Settled, Holders
  <2>5. pool.heap[pool.frame[f].data] = latest[p]
    BY <2>1 DEF Coherent, Current
  <2> QED BY <2>2, <2>4, <2>5 DEF OnFile
<1> QED BY <1>1, Invariance, PTL

\* In any state of the invariant the next pin shows the last store.
LEMMA LosesNothing == IInv => NoLostStore
<1> SUFFICES ASSUME IInv, Sound, NEW p \in Pages, latest[p] # Unwritten
             PROVE  Shown(p) = latest[p]
  BY DEF NoLostStore
<1>1. Coherent(pool, held, latest)
  BY SoundCoherent
<1>2. CASE Holding(N, pool, p) # {}
  <2> DEFINE f == CHOOSE x \in Holding(N, pool, p) : TRUE
  <2>1. f \in Holding(N, pool, p)
    BY <1>2
  <2> HIDE DEF f
  <2>2. f \in Occupied(N, pool) /\ pool.frame[f].page = p
    BY <2>1, NoPageIsNone DEF Holding, Occupied
  <2>3. pool.heap[pool.frame[f].data] = latest[p]
    BY <1>1, <2>2 DEF Coherent, Current
  <2> QED BY <1>2, <2>3 DEF Shown, f
<1>3. CASE Holding(N, pool, p) = {}
  <2>1. \A c \in Clients : held[c].page # p
    BY <1>1, <1>3, IInvParts, HolderFrame, NoPageIsNone
       DEF Coherent, Holding, Occupied
  <2> QED BY <1>1, <1>3, <2>1 DEF Coherent, Settled, Holding, Shown
<1> QED BY <1>2, <1>3

\* What a client has stored last is what the next pin shows.
THEOREM NothingLost == Spec => []NoLostStore
BY LosesNothing, Invariance, PTL

\* After an orderly shutdown the file has everything that was ever stored.
THEOREM ShutdownSaves == Spec => []ShutdownIsDurable
<1>1. IInv => ShutdownIsDurable
  BY DEF IInv, Sane, Relies, Durable, ShutdownIsDurable
<1> QED BY <1>1, Invariance, PTL

-----------------------------------------------------------------------------
(* Why a page goes astray *)

\* pinPage returns for a page it has put nowhere only when no frame could take
\* it, and FIFO only because somebody holds a page.
LEMMA PinStray ==
  ASSUME IInv, NEW c \in Clients, NEW p \in Pages, Pin(c, p)
  PROVE  StrayStep
<1> DEFINE b == CHOOSE x \in Bufs \ InUse : TRUE
           hs == [held EXCEPT ![c] = [page |-> p, data |-> PinnedData(N, pool, p, b),
                                      unmarked |-> FALSE]]
<1>1. PICK u \in Undefined :
        LET s == PinPage(N, pool, p, b, u)
        IN  Becomes(s, hs, latest, stray \/ Astray(s, p))
  BY DEF Pin, Junk
<1>2. Running(pool) /\ b \in Bufs \ InUse
  BY DEF Pin
<1> HIDE DEF b, hs
<1> DEFINE t == PinPage(N, pool, p, b, u)
<1>3. b \in Bufs /\ \A g \in Frames(N) : pool.frame[g].data # b
  BY <1>2, NullAssumption DEF InUse, FrameBufs
<1>4. t.status \in {"running", "crashed"}
  BY <1>2, <1>3, IInvParts, PinPageKeeps DEF Kept, Running
<1>5. SUFFICES ASSUME stray', ~stray, pool.streams # MaxStreams
               PROVE  \/ pool.strategy = "LRU_K"
                      \/ pool.strategy = "CLOCK" /\ pool.lastEntry > N
                      \/ pool.strategy = "FIFO" /\ ~Idle
  BY DEF StrayStep
<1>6. Becomes(t, hs, latest, stray \/ Astray(t, p))
  BY <1>1
<1>7. pool.streams < MaxStreams
  BY <1>5, IInvParts, PoolMembers, StreamsAssumption
<1> HIDE DEF t
<1>8. Running(t) /\ Holding(N, t, p) = {}
  BY <1>4, <1>5, <1>6 DEF Becomes, Running, Astray
<1>9. Occupied(N, pool) = Frames(N) /\ NoPlace(N, pool)
  BY <1>2, <1>3, <1>7, <1>8, IInvParts, PinPlaces DEF t
<1>10. ASSUME NEW f \in Frames(N), pool.frame[f].clientCount # 0 PROVE ~Idle
  <2> DEFINE q == pool.frame[f].page
  <2>1. Cardinality(Owners(held, q)) # 0 /\ q # NoPage
    BY <1>2, <1>5, <1>9, <1>10, IInvParts DEF Coherent, Counted, Occupied
  <2>2. Owners(held, q) # {}
    BY <2>1, FS_EmptySet
  <2> QED BY <2>1, <2>2 DEF Owners, Idle, Holders
<1> QED BY <1>9, <1>10 DEF NoPlace

LEMMA NextStray == IInv /\ [Next]_vars => [StrayStep]_vars
<1> SUFFICES ASSUME IInv, Next PROVE StrayStep
  OBVIOUS
<1>1. ASSUME NEW s, NEW hs, NEW lt, Becomes(s, hs, lt, stray) PROVE StrayStep
  BY <1>1 DEF Becomes, StrayStep
<1>2. ASSUME NEW c \in Clients, NEW x \in Content, Store(c, x) PROVE StrayStep
  BY <1>1, <1>2 DEF Store
<1>3. ASSUME NEW c \in Clients, Mark(c) \/ Unpin(c) \/ ForceOut(c)
      PROVE  StrayStep
  BY <1>1, <1>3 DEF Mark, Unpin, ForceOut
<1>4. ASSUME NEW strategy \in Using, Open(strategy) \/ Restart(strategy)
      PROVE  StrayStep
  BY <1>1, <1>4 DEF Open, Restart, StrayStep
<1>5. CASE Flush \/ Shutdown \/ Kill
  BY <1>1, <1>5 DEF Flush, Shutdown, Kill
<1> QED BY <1>2, <1>3, <1>4, <1>5, PinStray DEF Next

\* Under LRU and LFU no page is ever handed out in no frame, and under FIFO
\* none to a client alone, while the process has streams.
THEOREM StrayCaused == Spec => StrayHasCause
<1>1. IInv /\ [Next]_vars => [StrayStep]_vars
  BY NextStray
<1> QED BY <1>1, Invariance, PTL DEF Spec, StrayHasCause

-----------------------------------------------------------------------------
(* The pool, used with discipline, is a page store: every step of clients  *)
(* and pool is a step of PageStore or one the clients cannot see.          *)

-----------------------------------------------------------------------------
(* What the refinement needs beside the invariant *)

\* What is dirty, or about to be marked, somebody has stored to.
DirtyIsStored(s, lt) ==
  \A f \in Frames(N) : s.frame[f].dirty => lt[s.frame[f].page] # Unwritten

UnmarkedIsStored(hs, lt) ==
  \A c \in Clients : hs[c].unmarked => lt[hs[c].page] # Unwritten

Mapped(s, hs, lt, st) ==
  /\ Sparse(s.file)
  /\ Running(s) /\ ~st => DirtyIsStored(s, lt) /\ UnmarkedIsStored(hs, lt)
  /\ s.status = "closed" /\ ~st => Current(s, lt)

RInv ==
  /\ Mapped(pool, held, latest, stray)
  /\ pool.status = "crashed" => Occupied(N, pool) = {}

LEMMA CollectCurrent ==
  ASSUME NEW s \in Pool(N), Shaped(N, {}, s), NEW lt, Current(s, lt),
         NEW used, FrameBufs(N, s) \subseteq used
  PROVE  Current(Collect(s, used), lt)
<1> DEFINE t == Collect(s, used)
<1>1. /\ t.frame = s.frame
      /\ \A x \in Bufs : x \in used => t.heap[x] = s.heap[x]
  BY DEF Collect, Pool
<1>2. \A f \in Occupied(N, s) : s.frame[f].data \in Bufs /\ s.frame[f].data \in used
  BY OccupiedMembers, NullAssumption DEF FrameBufs, Occupied
<1> HIDE DEF t
<1>3. Occupied(N, t) = Occupied(N, s)
  BY <1>1 DEF Occupied
<1> QED BY <1>1, <1>2, <1>3 DEF Current, t

LEMMA BecomesRInv ==
  ASSUME NEW s \in Pool(N), Shaped(N, {}, s), NEW hs, NEW lt, NEW st,
         Mapped(s, hs, lt, st), Becomes(s, hs, lt, st)
  PROVE  RInv'
<1>1. CASE s.status = "crashed"
  <2> DEFINE fresh == FreshPool(N, s.file, s.strategy)
  <2>1. s.file \in FileValue /\ s.strategy \in Strategies
    BY PoolMembers
  <2>2. /\ fresh \in Pool(N) /\ fresh.file = s.file
        /\ fresh.frame = [f \in Frames(N) |-> EmptyFrame]
    BY <2>1, FreshPoolGood DEF Good, FreshPool
  <2>3. pool' = Crashed(fresh)
    BY <1>1 DEF Becomes
  <2> HIDE DEF fresh
  <2>4. /\ pool'.file = s.file /\ pool'.status = "crashed"
        /\ pool'.frame = [f \in Frames(N) |-> EmptyFrame]
    BY <2>2, <2>3 DEF Crashed, Pool
  <2>5. Occupied(N, pool') = {}
    BY <2>4 DEF Occupied, EmptyFrame
  <2> QED BY <2>4, <2>5 DEF RInv, Mapped, Running
<1>2. CASE s.status # "crashed"
  <2> DEFINE used == FrameBufs(N, s) \cup {hs[c].data : c \in Clients}
             t == Collect(s, used)
  <2>1. pool' = t /\ held' = hs /\ latest' = lt /\ stray' = st
    BY <1>2 DEF Becomes
  <2>2. FrameBufs(N, s) \subseteq used
    OBVIOUS
  <2> HIDE DEF used
  <2>3. t.status = s.status /\ t.file = s.file /\ t.frame = s.frame
    BY DEF Collect, Pool
  <2>4. Current(s, lt) => Current(t, lt)
    BY <2>2, CollectCurrent
  <2> HIDE DEF t
  <2>5. Mapped(t, hs, lt, st)
    BY <2>3, <2>4 DEF Mapped, Running, DirtyIsStored
  <2> QED BY <1>2, <2>1, <2>3, <2>5 DEF RInv
<1> QED BY <1>1, <1>2

\* A call on a running pool.
LEMMA CallRInv ==
  ASSUME IInv, RInv, Running(pool), NEW t, Good(N, {}, t), Kept(pool, t),
         NEW W, WritesBack(N, pool, t, W), NEW hs, NEW lt, NEW st,
         Running(t) /\ ~st => DirtyIsStored(t, lt) /\ UnmarkedIsStored(hs, lt),
         Becomes(t, hs, lt, st)
  PROVE  RInv'
<1>1. t \in Pool(N) /\ Shaped(N, {}, t) /\ t.status \in {"running", "crashed"}
  BY DEF Good, Kept, Running
<1>2. Sparse(t.file)
  BY <1>1, IInvParts, SparseKept DEF RInv, Mapped
<1>3. Mapped(t, hs, lt, st)
  BY <1>1, <1>2 DEF Mapped
<1> QED BY <1>1, <1>3, BecomesRInv

\* What a pin that finds a place changes: one buffer, and no dirty frame.
LEMMA PinEffect ==
  ASSUME NEW s \in Pool(N), Shaped(N, {}, s), Running(s), s.file.exists, NEW p \in Pages,
         NEW b \in Bufs, \A g \in Frames(N) : s.frame[g].data # b,
         NEW u \in Undefined,
         NEW t, t = PinPage(N, s, p, b, u), Running(t), Holding(N, t, p) # {},
         Holding(N, s, p) # {} \/ s.streams # MaxStreams
  PROVE  /\ \A x \in Bufs \ {b} : t.heap[x] = s.heap[x]
         /\ \A g \in Frames(N) : t.frame[g].dirty =>
              s.frame[g].dirty /\ t.frame[g].page = s.frame[g].page
<1>1. s.heap \in [Bufs -> Content] /\ (s.streams # MaxStreams => s.streams < MaxStreams)
  <2>1. s.heap \in [Bufs -> Content] /\ s.streams \in 0 .. MaxStreams
    BY PoolMembers
  <2> QED BY <2>1, StreamsAssumption
<1>2. PICK f \in Frames(N) : PutIn(N, s, t, f, p, b, u)
  BY <1>1, PinShows
<1>3. CASE Found(s, t, f, p)
  BY <1>2, <1>3 DEF PutIn, Found
<1>4. CASE Took(N, s, t, f, p, b, u)
  BY <1>1, <1>2, <1>4 DEF PutIn, Took
<1> QED BY <1>2, <1>3, <1>4 DEF PutIn

-----------------------------------------------------------------------------
(* Every step keeps that *)

LEMMA InitRInv == Init => RInv
<1> SUFFICES ASSUME Init PROVE RInv
  OBVIOUS
<1>1. PICK strategy \in Using : pool = FreshPool(N, CreatedFile, strategy)
  BY DEF Init
<1>2. /\ pool.file = CreatedFile /\ pool.status = "running"
      /\ pool.frame = [f \in Frames(N) |-> EmptyFrame]
  BY <1>1 DEF FreshPool
<1>3. Sparse(pool.file)
  BY <1>2 DEF Sparse, CreatedFile
<1>4. DirtyIsStored(pool, latest) /\ UnmarkedIsStored(held, latest)
  BY <1>2 DEF DirtyIsStored, UnmarkedIsStored, Init, EmptyFrame, Nothing
<1> QED BY <1>2, <1>3, <1>4 DEF RInv, Mapped

LEMMA PinRInv ==
  ASSUME IInv, RInv, NEW c \in Clients, NEW p \in Pages, Pin(c, p)
  PROVE  RInv'
<1> DEFINE b == CHOOSE x \in Bufs \ InUse : TRUE
           h == [page |-> p, data |-> PinnedData(N, pool, p, b), unmarked |-> FALSE]
           hs == [held EXCEPT ![c] = h]
<1>1. PICK u \in Undefined :
        LET s == PinPage(N, pool, p, b, u)
        IN  Becomes(s, hs, latest, stray \/ Astray(s, p))
  BY DEF Pin, Junk
<1>2. Running(pool) /\ b \in Bufs \ InUse
  BY DEF Pin
<1> HIDE DEF b
<1> DEFINE t == PinPage(N, pool, p, b, u)
           st == stray \/ Astray(t, p)
<1>3. b \in Bufs /\ \A g \in Frames(N) : pool.frame[g].data # b
  BY <1>2, NullAssumption DEF InUse, FrameBufs
<1>4. Good(N, {}, t) /\ Kept(pool, t) /\ WritesBack(N, pool, t, Dirty(N, pool))
  BY <1>2, <1>3, IInvParts, PinPageGood, PinPageKeeps, PinPageWritesBack
<1>5. ~h.unmarked
  OBVIOUS
<1>6. Becomes(t, hs, latest, st)
  BY <1>1
<1>7. ASSUME Running(t), ~st
      PROVE  DirtyIsStored(t, latest) /\ UnmarkedIsStored(hs, latest)
  <2>1. DirtyIsStored(pool, latest) /\ UnmarkedIsStored(held, latest)
    BY <1>2, <1>7 DEF RInv, Mapped
  <2>2. Holding(N, t, p) # {} /\ (Holding(N, pool, p) # {} \/ pool.streams # MaxStreams)
    BY <1>7 DEF Astray
  <2> HIDE DEF t, h
  <2>3. \A g \in Frames(N) : t.frame[g].dirty =>
          pool.frame[g].dirty /\ t.frame[g].page = pool.frame[g].page
    BY <1>2, <1>3, <1>7, <2>2, IInvParts, PinEffect DEF t
  <2>4. DirtyIsStored(t, latest)
    BY <2>1, <2>3 DEF DirtyIsStored
  <2>5. UnmarkedIsStored(hs, latest)
    <3> SUFFICES ASSUME NEW d \in Clients, hs[d].unmarked
                 PROVE  latest[hs[d].page] # Unwritten
      BY DEF UnmarkedIsStored
    <3>1. d # c
      BY <1>5, IInvParts DEF Proper
    <3>2. hs[d] = held[d]
      BY <3>1, IInvParts DEF Proper
    <3> QED BY <2>1, <3>2 DEF UnmarkedIsStored
  <2> QED BY <2>4, <2>5
<1> HIDE DEF t, hs, st
<1> QED BY <1>2, <1>4, <1>6, <1>7, CallRInv

\* Calls that leave the file alone.
LEMMA QuietRInv ==
  ASSUME IInv, RInv, Running(pool), NEW t, Good(N, {}, t), Kept(pool, t),
         t.file = pool.file,
         \A f \in Frames(N) : t.frame[f].page = pool.frame[f].page,
         NEW hs, NEW lt,
         ~stray => DirtyIsStored(t, lt) /\ UnmarkedIsStored(hs, lt),
         Becomes(t, hs, lt, stray)
  PROVE  RInv'
<1>1. WritesBack(N, pool, t, {})
  BY IInvParts, FileAlone DEF Occupied
<1> QED BY <1>1, CallRInv

LEMMA StoreRInv ==
  ASSUME IInv, RInv, NEW c \in Clients, NEW x \in Content, Store(c, x)
  PROVE  RInv'
<1> DEFINE heap == [pool.heap EXCEPT ![held[c].data] = x]
           t == [pool EXCEPT !.heap = heap]
           hs == [held EXCEPT ![c].unmarked = TRUE]
           lt == [latest EXCEPT ![held[c].page] = x]
<1>1. Running(pool) /\ held[c].page # NoPage /\ Becomes(t, hs, lt, stray)
  BY DEF Store
<1>2. heap \in [Bufs -> Content]
  BY IInvParts, PoolMembers
<1> HIDE DEF heap
<1>3. t \in Pool(N) /\ t.frame = pool.frame /\ t.file = pool.file /\ Kept(pool, t)
  BY <1>2, IInvParts, SetHeap DEF Pool, Kept
<1>4. Good(N, {}, t)
  BY <1>3, IInvParts, ShapeOfFrames DEF Good
<1>5. held[c].page \in Pages
  BY <1>1, HeldPage
<1>6. \A p \in Pages : latest[p] # Unwritten => lt[p] # Unwritten
  BY IInvParts, UnwrittenAssumption DEF Latest
<1>7. lt[held[c].page] # Unwritten
  BY <1>5, IInvParts, UnwrittenAssumption DEF Latest
<1> HIDE DEF t, lt
<1>8. ASSUME ~stray PROVE DirtyIsStored(t, lt) /\ UnmarkedIsStored(hs, lt)
  <2>1. DirtyIsStored(pool, latest) /\ UnmarkedIsStored(held, latest)
    BY <1>1, <1>8 DEF RInv, Mapped
  <2>2. DirtyIsStored(t, lt)
    <3> SUFFICES ASSUME NEW f \in Frames(N), pool.frame[f].dirty
                 PROVE  lt[pool.frame[f].page] # Unwritten
      BY <1>3 DEF DirtyIsStored
    <3>1. f \in Occupied(N, pool)
      BY IInvParts DEF Shaped, EmptyIsBlank, EmptyFrame
    <3>2. pool.frame[f].page \in Pages
      BY <3>1, IInvParts, OccupiedMembers
    <3> QED BY <1>6, <2>1, <3>2 DEF DirtyIsStored
  <2>3. UnmarkedIsStored(hs, lt)
    <3> SUFFICES ASSUME NEW d \in Clients, hs[d].unmarked
                 PROVE  lt[hs[d].page] # Unwritten
      BY DEF UnmarkedIsStored
    <3>1. CASE d = c
      BY <1>7, <3>1, IInvParts DEF Proper, Hold
    <3>2. CASE d # c
      <4>1. hs[d] = held[d] /\ held[d].unmarked
        BY <3>2, IInvParts DEF Proper
      <4>2. held[d].page \in Pages
        BY <4>1, IInvParts DEF Proper, Nothing
      <4> QED BY <1>6, <2>1, <4>1, <4>2 DEF UnmarkedIsStored
    <3> QED BY <3>1, <3>2
  <2> QED BY <2>2, <2>3
<1> HIDE DEF hs
<1> QED BY <1>1, <1>3, <1>4, <1>8, QuietRInv

LEMMA MarkRInv ==
  ASSUME IInv, RInv, NEW c \in Clients, Mark(c)
  PROVE  RInv'
<1> DEFINE p == held[c].page
           t == MarkDirty(N, pool, p)
           hs == [held EXCEPT ![c].unmarked = FALSE]
           f == Least(Holding(N, pool, p))
           fr == [pool.frame[f] EXCEPT !.dirty = TRUE]
<1>1. Running(pool) /\ held[c].unmarked /\ Becomes(t, hs, latest, stray)
  BY DEF Mark
<1>2. p \in Pages
  BY <1>1, IInvParts DEF Proper, Nothing
<1>3. Good(N, {}, t) /\ Kept(pool, t) /\ t.file = pool.file
  BY <1>2, IInvParts, MarkDirtyGood DEF Kept, MarkDirty, Pool
<1>4. \A g \in Frames(N) : /\ t.frame[g].page = pool.frame[g].page
                           /\ t.frame[g].dirty => pool.frame[g].dirty
                                                    \/ pool.frame[g].page = p
  <2>1. CASE Holding(N, pool, p) = {}
    BY <2>1 DEF MarkDirty
  <2>2. CASE Holding(N, pool, p) # {}
    <3>1. f \in Frames(N) /\ pool.frame[f].page = p
      BY <1>2, <2>2, IInvParts, LeastHolding DEF Occupied
    <3>2. t.frame = [pool.frame EXCEPT ![f] = fr]
      BY <2>2, IInvParts DEF MarkDirty, Pool
    <3> HIDE DEF f, t
    <3>3. fr.page = p
      BY <3>1, IInvParts, PoolMembers DEF Frame
    <3> HIDE DEF fr
    <3> QED BY <3>1, <3>2, <3>3, IInvParts, PoolMembers
  <2> QED BY <2>1, <2>2
<1>5. ASSUME ~stray PROVE DirtyIsStored(t, latest) /\ UnmarkedIsStored(hs, latest)
  <2>1. DirtyIsStored(pool, latest) /\ UnmarkedIsStored(held, latest)
    BY <1>1, <1>5 DEF RInv, Mapped
  <2>2. latest[p] # Unwritten
    BY <1>1, <2>1 DEF UnmarkedIsStored
  <2> HIDE DEF t
  <2>3. DirtyIsStored(t, latest)
    BY <1>4, <2>1, <2>2 DEF DirtyIsStored
  <2>4. \A d \in Clients : hs[d].unmarked => held[d].unmarked /\ hs[d].page = held[d].page
    BY <1>1, IInvParts DEF Proper, Hold
  <2>5. UnmarkedIsStored(hs, latest)
    BY <2>1, <2>4 DEF UnmarkedIsStored
  <2> QED BY <2>3, <2>5
<1> HIDE DEF t, hs
<1> QED BY <1>1, <1>3, <1>4, <1>5, QuietRInv

LEMMA UnpinRInv ==
  ASSUME IInv, RInv, NEW c \in Clients, Unpin(c)
  PROVE  RInv'
<1> DEFINE p == held[c].page
           t == UnpinPage(N, pool, p)
           hs == [held EXCEPT ![c] = Nothing]
           f == Least(Holding(N, pool, p))
           n == pool.frame[f].clientCount - 1
           fr == [pool.frame[f] EXCEPT !.clientCount = n]
<1>1. Running(pool) /\ p # NoPage /\ Becomes(t, hs, latest, stray)
  BY DEF Unpin
<1>2. p \in Pages
  BY <1>1, HeldPage
<1>3. Good(N, {}, t) /\ Kept(pool, t) /\ t.file = pool.file
  BY <1>2, IInvParts, UnpinPageGood DEF Kept, UnpinPage, Pool
<1>4. \A g \in Frames(N) : /\ t.frame[g].page = pool.frame[g].page
                           /\ t.frame[g].dirty = pool.frame[g].dirty
  <2>1. CASE Holding(N, pool, p) = {}
    BY <2>1 DEF UnpinPage
  <2>2. CASE Holding(N, pool, p) # {}
    <3>1. f \in Frames(N)
      BY <1>2, <2>2, IInvParts, LeastHolding DEF Occupied
    <3>2. t.frame = [pool.frame EXCEPT ![f] = fr]
      BY <2>2, IInvParts DEF UnpinPage, Pool
    <3> HIDE DEF f, t, n
    <3>3. fr.page = pool.frame[f].page /\ fr.dirty = pool.frame[f].dirty
      BY <3>1, IInvParts, PoolMembers DEF Frame
    <3> HIDE DEF fr
    <3> QED BY <3>1, <3>2, <3>3, IInvParts, PoolMembers
  <2> QED BY <2>1, <2>2
<1>5. ASSUME ~stray PROVE DirtyIsStored(t, latest) /\ UnmarkedIsStored(hs, latest)
  <2>1. DirtyIsStored(pool, latest) /\ UnmarkedIsStored(held, latest)
    BY <1>1, <1>5 DEF RInv, Mapped
  <2> HIDE DEF t
  <2>2. DirtyIsStored(t, latest)
    BY <1>4, <2>1 DEF DirtyIsStored
  <2>3. \A d \in Clients : hs[d].unmarked => held[d].unmarked /\ hs[d].page = held[d].page
    BY IInvParts DEF Proper, Nothing
  <2>4. UnmarkedIsStored(hs, latest)
    BY <2>1, <2>3 DEF UnmarkedIsStored
  <2> QED BY <2>2, <2>4
<1> HIDE DEF t, hs
<1> QED BY <1>1, <1>3, <1>4, <1>5, QuietRInv

\* Frames that were written keep their pages, and none becomes dirty.
LEMMA WrittenIsStored ==
  ASSUME NEW s, NEW t, Written(s, t), NEW lt, DirtyIsStored(s, lt)
  PROVE  DirtyIsStored(t, lt)
BY DEF Written, DirtyIsStored

\* forcePage writes the frame of the page, or changes nothing.
LEMMA ForceWritesBack ==
  ASSUME NEW s \in Pool(N), Shaped(N, {}, s), NEW p \in Pages
  PROVE  WritesBack(N, s, ForcePage(N, s, p), Holding(N, s, p))
<1> DEFINE f == Least(Holding(N, s, p))
<1>1. CASE Holding(N, s, p) = {}
  BY <1>1, SameWritesBack DEF ForcePage
<1>2. CASE Holding(N, s, p) # {}
  <2>1. f \in Occupied(N, s) /\ s.frame[f].page = p
    BY <1>2, LeastHolding
  <2>2. {f} \subseteq Holding(N, s, p)
    BY <2>1 DEF Holding, Occupied
  <2>3. ForcePage(N, s, p) = WriteFrame(s, f)
    BY <1>2 DEF ForcePage
  <2> HIDE DEF f
  <2> QED BY <2>1, <2>2, <2>3, WriteFrameWritesBack, AnyWritesBack
<1> QED BY <1>1, <1>2

LEMMA ForceOutRInv ==
  ASSUME IInv, RInv, NEW c \in Clients, ForceOut(c)
  PROVE  RInv'
<1> DEFINE p == held[c].page
           t == ForcePage(N, pool, p)
           f == Least(Holding(N, pool, p))
<1>1. Running(pool) /\ p # NoPage /\ Becomes(t, held, latest, stray)
  BY DEF ForceOut
<1>2. p \in Pages
  BY <1>1, HeldPage
<1>3. Good(N, {}, t) /\ WritesBack(N, pool, t, Holding(N, pool, p))
  BY <1>2, IInvParts, ForcePageGood, ForceWritesBack
<1>4. Kept(pool, t)
  <2>1. CASE Holding(N, pool, p) = {}
    BY <2>1 DEF ForcePage, Kept
  <2>2. CASE Holding(N, pool, p) # {}
    <3>1. f \in Frames(N)
      BY <1>2, <2>2, IInvParts, LeastHolding DEF Occupied
    <3>2. t = WriteFrame(pool, f)
      BY <2>2 DEF ForcePage
    <3> QED BY <3>1, <3>2, IInvParts, WriteFrameKeeps
  <2> QED BY <2>1, <2>2
<1>5. ASSUME Running(t), ~stray
      PROVE  DirtyIsStored(t, latest) /\ UnmarkedIsStored(held, latest)
  <2>1. DirtyIsStored(pool, latest) /\ UnmarkedIsStored(held, latest)
    BY <1>1, <1>5 DEF RInv, Mapped
  <2>2. Holding(N, pool, p) # {} /\ f \in Occupied(N, pool)
    BY <1>1, <1>5, FoundFrame
  <2>3. t = WriteFrame(pool, f)
    BY <2>2 DEF ForcePage
  <2> HIDE DEF t, f
  <2>4. Written(pool, t)
    BY <1>5, <2>2, <2>3, IInvParts, WriteFrameWrites
  <2> QED BY <2>1, <2>4, WrittenIsStored
<1> HIDE DEF t
<1> QED BY <1>1, <1>3, <1>4, <1>5, CallRInv

LEMMA FlushRInv ==
  ASSUME IInv, RInv, Flush
  PROVE  RInv'
<1> DEFINE t == ForceFlushPool(N, pool)
<1>1. Running(pool) /\ Becomes(t, held, latest, stray)
  BY DEF Flush
<1>2. /\ Good(N, {}, t) /\ Kept(pool, t) /\ Written(pool, t)
      /\ WritesBack(N, pool, t, Dirty(N, pool))
  BY IInvParts, ForceFlushPoolGood, FlushKeeps, FlushWrites,
     ForceFlushPoolWritesBack
<1> HIDE DEF t
<1>3. ASSUME ~stray
      PROVE  DirtyIsStored(t, latest) /\ UnmarkedIsStored(held, latest)
  BY <1>1, <1>2, <1>3, WrittenIsStored DEF RInv, Mapped
<1> QED BY <1>1, <1>2, <1>3, CallRInv

LEMMA ShutdownRInv ==
  ASSUME IInv, RInv, Shutdown
  PROVE  RInv'
<1> DEFINE s == ForceFlushPool(N, pool)
           t == IF Running(s) THEN [s EXCEPT !.status = "closed"] ELSE s
<1>1. Running(pool) /\ Becomes(t, held, latest, stray)
  BY DEF Shutdown, ShutdownBufferPool
<1>2. /\ s \in Pool(N) /\ Shaped(N, {}, s) /\ Kept(pool, s) /\ Written(pool, s)
      /\ WritesBack(N, pool, s, Dirty(N, pool))
  BY IInvParts, ForceFlushPoolGood, FlushKeeps, FlushWrites,
     ForceFlushPoolWritesBack DEF Good
<1> HIDE DEF s
<1>3. Sparse(s.file)
  BY <1>2, IInvParts, SparseKept DEF RInv, Mapped
<1>4. ~stray => Current(s, latest)
  <2> SUFFICES ASSUME ~stray PROVE Current(s, latest)
    OBVIOUS
  <2>1. Coherent(pool, held, latest)
    BY <1>1, IInvParts
  <2>2. Coherent(s, held, latest)
    BY <1>2, <2>1, IInvParts, WrittenCoherent
  <2> QED BY <2>2 DEF Coherent
<1>5. CASE Running(s)
  <2> DEFINE x == [s EXCEPT !.status = "closed"]
  <2>1. /\ x \in Pool(N) /\ x.frame = s.frame /\ x.file = s.file
        /\ x.heap = s.heap /\ x.status = "closed"
    BY <1>2, SetStatus DEF Pool
  <2>2. t = x
    BY <1>5
  <2> HIDE DEF x
  <2>3. Shaped(N, {}, x)
    BY <1>2, <2>1, ShapeOfFrames
  <2>4. ~stray => Current(x, latest)
    BY <1>4, <2>1 DEF Current, Occupied
  <2>5. Mapped(x, held, latest, stray)
    BY <1>3, <2>1, <2>4 DEF Mapped, Running
  <2> QED BY <1>1, <2>1, <2>2, <2>3, <2>5, BecomesRInv
<1>6. CASE ~Running(s)
  <2>1. t = s /\ s.status = "crashed"
    BY <1>1, <1>2, <1>6 DEF Kept, Running
  <2>2. Mapped(s, held, latest, stray)
    BY <1>3, <2>1 DEF Mapped, Running
  <2> QED BY <1>1, <1>2, <2>1, <2>2, BecomesRInv
<1> QED BY <1>5, <1>6

LEMMA OpenRInv ==
  ASSUME IInv, RInv, NEW strategy \in Using, Open(strategy)
  PROVE  RInv'
<1> DEFINE t == InitBufferPool(N, pool, strategy)
<1>1. pool.status = "closed" /\ Becomes(t, held, latest, stray)
  BY DEF Open
<1>2. Good(N, {}, t)
  BY IInvParts, InitBufferPoolGood, UsingAssumption
<1>3. /\ t.status = "running" /\ t.file = pool.file
      /\ t.frame = [f \in Frames(N) |-> EmptyFrame]
  BY IInvParts DEF InitBufferPool, Pool
<1> HIDE DEF t
<1>4. \A c \in Clients : held[c] = Nothing
  BY <1>1 DEF IInv, Sane
<1>5. DirtyIsStored(t, latest) /\ UnmarkedIsStored(held, latest)
  BY <1>3, <1>4 DEF DirtyIsStored, UnmarkedIsStored, EmptyFrame, Nothing
<1>6. Mapped(t, held, latest, stray)
  BY <1>3, <1>5 DEF RInv, Mapped
<1> QED BY <1>1, <1>2, <1>6, BecomesRInv DEF Good

LEMMA KillRInv ==
  ASSUME IInv, RInv, Kill
  PROVE  RInv'
<1> DEFINE t == Crashed(pool)
<1>1. Becomes(t, held, latest, stray)
  BY DEF Kill
<1>2. Good(N, {}, t) /\ t.status = "crashed" /\ t.file = pool.file
  BY IInvParts, CrashedGood DEF Crashed, Pool
<1> HIDE DEF t
<1>3. Mapped(t, held, latest, stray)
  BY <1>2 DEF RInv, Mapped, Running
<1> QED BY <1>1, <1>2, <1>3, BecomesRInv DEF Good

LEMMA RestartRInv ==
  ASSUME IInv, RInv, NEW strategy \in Using, Restart(strategy)
  PROVE  RInv'
<1>1. /\ pool.status = "crashed" /\ pool' = FreshPool(N, pool.file, strategy)
      /\ held' = held /\ latest' = latest /\ stray' = stray
  BY DEF Restart
<1>2. /\ pool'.status = "running" /\ pool'.file = pool.file
      /\ pool'.frame = [f \in Frames(N) |-> EmptyFrame]
  BY <1>1 DEF FreshPool
<1>3. \A c \in Clients : held[c] = Nothing
  BY <1>1 DEF IInv
<1>4. DirtyIsStored(pool', latest') /\ UnmarkedIsStored(held', latest')
  BY <1>1, <1>2, <1>3 DEF DirtyIsStored, UnmarkedIsStored, EmptyFrame, Nothing
<1> QED BY <1>2, <1>4 DEF RInv, Mapped

LEMMA NextRInv == IInv /\ RInv /\ [Next]_vars => RInv'
<1> SUFFICES ASSUME IInv, RInv, [Next]_vars PROVE RInv'
  OBVIOUS
<1>1. CASE UNCHANGED vars
  BY <1>1 DEF vars, RInv, Mapped, Running, DirtyIsStored, Current, Occupied
<1> QED BY <1>1, PinRInv, StoreRInv, MarkRInv, UnpinRInv, ForceOutRInv,
           FlushRInv, ShutdownRInv, OpenRInv, KillRInv, RestartRInv DEF Next

-----------------------------------------------------------------------------
(* What the clients see before and after a step *)

\* As long as something is promised, the current contents are the last ones
\* stored, in a frame or on the file.
LEMMA DbIsLatest == IInv /\ RInv /\ ~stray => Db = latest
<1> SUFFICES ASSUME IInv, RInv, ~stray PROVE Db = latest
  OBVIOUS
<1>1. latest \in Latest
  BY IInvParts
<1>2. ASSUME NEW p \in Pages, latest[p] # Unwritten PROVE Shown(p) = latest[p]
  <2>1. CASE Running(pool)
    BY <1>2, <2>1, LosesNothing DEF NoLostStore, Sound
  <2>2. CASE pool.status = "closed"
    <3>1. Current(pool, latest) /\ Durable(pool.file, latest)
      BY <2>2 DEF RInv, Mapped, IInv, Sane, Relies
    <3>2. CASE Holding(N, pool, p) = {}
      BY <1>2, <3>1, <3>2 DEF Shown, Durable
    <3>3. CASE Holding(N, pool, p) # {}
      <4> DEFINE f == CHOOSE x \in Holding(N, pool, p) : TRUE
      <4>1. f \in Holding(N, pool, p)
        BY <3>3
      <4>2. Shown(p) = pool.heap[pool.frame[f].data]
        BY <3>3 DEF Shown
      <4> HIDE DEF f
      <4>3. f \in Occupied(N, pool) /\ pool.frame[f].page = p
        BY <4>1, NoPageIsNone DEF Holding, Occupied
      <4> QED BY <1>2, <3>1, <4>2, <4>3 DEF Current
    <3> QED BY <3>2, <3>3
  <2>3. CASE pool.status = "crashed"
    <3>1. Holding(N, pool, p) = {} /\ latest = OnFile(pool.file)
      BY <2>3, NoPageIsNone DEF RInv, IInv, Holding, Occupied
    <3> QED BY <3>1 DEF Shown
  <2> QED BY <2>1, <2>2, <2>3, IInvParts, PoolMembers DEF Running
<1> QED BY <1>1, <1>2 DEF Db, Latest

\* The same of the state after a step.
LEMMA DbIsLatestNext == IInv' /\ RInv' /\ ~stray' => Db' = latest'
<1>1. (IInv /\ RInv /\ ~stray => Db = latest)'
  BY DbIsLatest, PTL
<1> QED BY <1>1

\* A call has left the process alive.
LEMMA AfterCall ==
  ASSUME IInv', RInv', NEW s \in Pool(N), NEW hs, Proper(hs), NEW lt,
         Becomes(s, hs, lt, FALSE), s.status \in {"running", "closed"}
  PROVE  /\ Mode' = IF Running(s) THEN "up" ELSE "closed"
         /\ Disk' = OnFile(s.file)
         /\ Db' = lt
         /\ Fixed' = [c \in Clients |-> hs[c].page]
         /\ Sight' = [c \in Clients |->
                        IF hs[c].page = NoPage THEN Blank ELSE s.heap[hs[c].data]]
<1> DEFINE used == FrameBufs(N, s) \cup {hs[c].data : c \in Clients}
           t == Collect(s, used)
<1>1. pool' = t /\ held' = hs /\ latest' = lt /\ stray' = FALSE
  BY DEF Becomes
<1>2. \A c \in Clients : hs[c].data \in used
  OBVIOUS
<1> HIDE DEF used
<1>3. /\ t.status = s.status /\ t.file = s.file
      /\ \A x \in Bufs : x \in used => t.heap[x] = s.heap[x]
  BY DEF Collect, Pool
<1> HIDE DEF t
<1>4. Mode' = IF Running(s) THEN "up" ELSE "closed"
  BY <1>1, <1>3 DEF Mode, Running
<1>5. Disk' = OnFile(s.file) /\ Fixed' = [c \in Clients |-> hs[c].page]
  BY <1>1, <1>3 DEF Disk, Fixed
<1>6. Db' = lt
  BY <1>1, DbIsLatestNext
<1>7. \A c \in Clients : hs[c].page # NoPage => t.heap[hs[c].data] = s.heap[hs[c].data]
  BY <1>2, <1>3 DEF Proper, Nothing
<1>8. Sight' = [c \in Clients |->
                  IF hs[c].page = NoPage THEN Blank ELSE s.heap[hs[c].data]]
  BY <1>1, <1>7 DEF Sight
<1> QED BY <1>4, <1>5, <1>6, <1>8

\* It has ended the process.
LEMMA AfterEnd ==
  ASSUME IInv', RInv', NEW s \in Pool(N), NEW hs, NEW lt, NEW st,
         Becomes(s, hs, lt, st), s.status = "crashed"
  PROVE  /\ Mode' = "dead"
         /\ Disk' = OnFile(s.file)
         /\ Db' = OnFile(s.file)
         /\ Fixed' = [c \in Clients |-> NoPage]
         /\ Sight' = [c \in Clients |-> Blank]
<1> DEFINE fresh == FreshPool(N, s.file, s.strategy)
<1>1. /\ pool' = Crashed(fresh) /\ held' = [c \in Clients |-> Nothing]
      /\ latest' = OnFile(s.file) /\ stray' = FALSE
  BY DEF Becomes
<1>2. pool'.status = "crashed" /\ pool'.file = s.file
  BY <1>1 DEF Crashed, FreshPool
<1>3. Db' = OnFile(s.file)
  BY <1>1, DbIsLatestNext
<1>4. Mode' = "dead"
  BY <1>1, <1>2 DEF Mode
<1>5. Disk' = OnFile(s.file)
  BY <1>2 DEF Disk
<1>6. \A c \in Clients : held'[c].page = NoPage
  BY <1>1 DEF Nothing
<1> HIDE DEF fresh
<1> QED BY <1>3, <1>4, <1>5, <1>6 DEF Fixed, Sight

\* The file has moved towards the last contents at page p, or has come to have
\* p as zeros.
Moved(s, t, lt, p) ==
  \/ OnFile(t.file)[p] = OnFile(s.file)[p]
  \/ OnFile(t.file)[p] = lt[p] /\ lt[p] # Unwritten
  \/ OnFile(t.file)[p] = Blank /\ OnFile(s.file)[p] = Unwritten

LEMMA FileMoves ==
  ASSUME NEW s \in Pool(N), Sparse(s.file), NEW t \in Pool(N),
         NEW W, WritesBack(N, s, t, W), NEW lt, NEW p \in Pages,
         \A f \in Holding(N, s, p) \cap W :
            lt[p] # Unwritten /\ s.heap[s.frame[f].data] = lt[p]
  PROVE  Moved(s, t, lt, p)
<1>1. s.file.size \in Int /\ t.file.size \in Int /\ p \in Int
  BY PoolMembers, FileMembers, LastPageAssumption DEF Pages
<1>2. s.file.size <= t.file.size
  BY DEF WritesBack
<1>3. CASE t.file.block[p] # s.file.block[p]
  <2>1. p < t.file.size /\ t.file.block[p] = lt[p] /\ lt[p] # Unwritten
    BY <1>3 DEF WritesBack
  <2> QED BY <2>1 DEF Moved, OnFile
<1>4. CASE t.file.block[p] = s.file.block[p]
  <2>1. CASE p < s.file.size
    BY <1>1, <1>2, <1>4, <2>1 DEF Moved, OnFile
  <2>2. CASE ~(p < s.file.size)
    <3>1. s.file.block[p] = Blank
      BY <1>1, <2>2 DEF Sparse
    <3> QED BY <1>4, <2>2, <3>1 DEF Moved, OnFile
  <2> QED BY <2>1, <2>2
<1> QED BY <1>3, <1>4

\* A dirty frame shows the last content of its page, so a call that writes
\* dirty frames back moves the file towards it.
LEMMA DirtyMoves ==
  ASSUME IInv, RInv, Running(pool), ~stray, NEW t \in Pool(N),
         WritesBack(N, pool, t, Dirty(N, pool))
  PROVE  \A p \in Pages : Moved(pool, t, latest, p)
<1> TAKE p \in Pages
<1>1. Current(pool, latest) /\ DirtyIsStored(pool, latest)
  BY IInvParts DEF RInv, Mapped, Coherent
<1>2. ASSUME NEW f \in Holding(N, pool, p) \cap Dirty(N, pool)
      PROVE  latest[p] # Unwritten /\ pool.heap[pool.frame[f].data] = latest[p]
  <2>1. f \in Occupied(N, pool) /\ pool.frame[f].page = p /\ pool.frame[f].dirty
    BY NoPageIsNone DEF Holding, Dirty, Occupied
  <2> QED BY <1>1, <2>1 DEF Current, DirtyIsStored, Occupied
<1> QED BY <1>2, IInvParts, FileMoves DEF RInv, Mapped

\* What was promised before the step.
LEMMA BeforeStep ==
  ASSUME IInv, RInv, ~stray
  PROVE  /\ Mode = IF Running(pool) THEN "up"
                   ELSE IF pool.status = "closed" THEN "closed" ELSE "dead"
         /\ Disk = OnFile(pool.file)
         /\ Db = latest
BY DbIsLatest DEF Mode, Disk, Running

LEMMA MovedCatchup ==
  ASSUME IInv, RInv, ~stray, NEW s, Disk' = OnFile(s.file),
         NEW S \in SUBSET Pages, \A p \in S : Moved(pool, s, latest, p)
  PROVE  Promise!Catchup(S)
BY BeforeStep DEF Moved, Promise!Catchup

\* A step that takes the process down, or a page astray, is one after which
\* nothing more is promised than that some disk remains; of any other step it
\* remains to be shown what it is.
LEMMA CallStep ==
  ASSUME IInv, RInv, IInv', RInv', NEW s \in Pool(N), NEW hs, NEW lt, NEW st,
         Becomes(s, hs, lt, st), pool.status \in {"running", "closed"},
         st \in BOOLEAN, stray => st, st /\ ~stray => Running(pool),
         ~stray /\ s.status = "crashed" =>
           \A p \in Pages : Moved(pool, s, latest, p),
         ~stray /\ st = FALSE /\ s.status # "crashed" =>
           [Promise!Next]_(Promise!vars)
  PROVE  [Promise!Next]_(Promise!vars)
<1>1. CASE s.status = "crashed"
  <2>1. /\ Mode' = "dead" /\ Disk' = OnFile(s.file) /\ Db' = Disk'
        /\ Fixed' = [c \in Clients |-> NoPage]
        /\ Sight' = [c \in Clients |-> Blank]
    BY <1>1, AfterEnd
  <2>2. CASE stray
    <3>1. Mode = "void"
      BY <2>2 DEF Mode
    <3> QED BY <2>1, <3>1 DEF Promise!Next, Promise!Recover
  <2>3. CASE ~stray
    <3>1. Mode \in {"up", "closed"}
      BY <2>3, BeforeStep DEF Running
    <3>2. Promise!Catchup(Pages)
      BY <1>1, <2>1, <2>3, MovedCatchup
    <3> QED BY <2>1, <3>1, <3>2 DEF Promise!Next, Promise!Die
  <2> QED BY <2>2, <2>3
<1>2. CASE s.status # "crashed" /\ st
  <2>1. Mode' = "void"
    BY <1>2 DEF Becomes, Mode
  <2>2. Mode \in {"up", "void"}
    <3>1. CASE stray
      BY <3>1 DEF Mode
    <3>2. CASE ~stray
      BY <1>2, <3>2, BeforeStep
    <3> QED BY <3>1, <3>2
  <2> QED BY <2>1, <2>2 DEF Promise!Next, Promise!GiveUp
<1>3. CASE s.status # "crashed" /\ ~st
  BY <1>3
<1> QED BY <1>1, <1>2, <1>3

-----------------------------------------------------------------------------
(* Every step of the clients is a step of the page store *)

\* What the clients see of the pages they hold in pool s.
View(s, hs) ==
  [c \in Clients |-> IF hs[c].page = NoPage THEN Blank ELSE s.heap[hs[c].data]]

LEMMA ViewHeap ==
  ASSUME NEW s, NEW t, NEW hs, Proper(hs),
         \A c \in Clients : hs[c].page # NoPage =>
            t.heap[hs[c].data] = s.heap[hs[c].data]
  PROVE  View(t, hs) = View(s, hs)
BY DEF View

LEMMA PinStep ==
  ASSUME IInv, RInv, IInv', RInv', NEW c \in Clients, NEW p \in Pages, Pin(c, p)
  PROVE  [Promise!Next]_(Promise!vars)
<1> DEFINE b == CHOOSE x \in Bufs \ InUse : TRUE
           h == [page |-> p, data |-> PinnedData(N, pool, p, b), unmarked |-> FALSE]
           hs == [held EXCEPT ![c] = h]
<1>1. PICK u \in Undefined :
        LET s == PinPage(N, pool, p, b, u)
        IN  Becomes(s, hs, latest, stray \/ Astray(s, p))
  BY DEF Pin, Junk
<1>2. Running(pool) /\ held[c].page = NoPage /\ b \in Bufs \ InUse
  BY DEF Pin, Holders
<1> HIDE DEF b
<1> DEFINE t == PinPage(N, pool, p, b, u)
           st == stray \/ Astray(t, p)
<1>3. /\ b \in Bufs /\ \A g \in Frames(N) : pool.frame[g].data # b
      /\ \A d \in Clients : held[d].data # b
  BY <1>2, NullAssumption DEF InUse, FrameBufs
<1>4. /\ t \in Pool(N) /\ Shaped(N, {}, t) /\ t.status \in {"running", "crashed"}
      /\ WritesBack(N, pool, t, Dirty(N, pool))
  BY <1>2, <1>3, IInvParts, PinPageGood, PinPageKeeps, PinPageWritesBack
     DEF Good, Kept, Running
<1>5. /\ Becomes(t, hs, latest, st) /\ st \in BOOLEAN
      /\ st = FALSE => /\ Holding(N, t, p) # {}
                       /\ Holding(N, pool, p) # {} \/ pool.streams # MaxStreams
  BY <1>1, IInvParts DEF Astray
<1>6. h \in Hold /\ h.page = p /\ h.data \in Bufs /\ h.data = PinnedData(N, pool, p, b)
  BY <1>3, IInvParts, PinnedDataIsBuffer DEF Hold
<1> HIDE DEF h
<1>7. Proper(hs) /\ hs[c] = h /\ \A d \in Clients \ {c} : hs[d] = held[d]
  BY <1>6, IInvParts DEF Proper
<1>8. ~stray => \A q \in Pages : Moved(pool, t, latest, q)
  BY <1>2, <1>4, DirtyMoves
<1>9. hs = [held EXCEPT ![c] = [page |-> p, data |-> PinnedData(N, pool, p, b),
                                unmarked |-> FALSE]]
  BY DEF h
<1>10. t = PinPage(N, pool, p, b, u)
  OBVIOUS
<1> HIDE DEF t, st, hs
<1>11. ASSUME ~stray, st = FALSE, t.status # "crashed" PROVE Promise!Fix(c, p)
  <2>1. Running(t)
    BY <1>4, <1>11 DEF Running
  <2>2. /\ Mode' = "up" /\ Disk' = OnFile(t.file) /\ Db' = latest
        /\ Fixed' = [d \in Clients |-> hs[d].page] /\ Sight' = View(t, hs)
    BY <1>4, <1>5, <1>7, <1>11, <2>1, AfterCall DEF View
  <2>3. /\ Mode = "up" /\ Db = latest
        /\ Fixed = [d \in Clients |-> held[d].page] /\ Sight = View(pool, held)
    BY <1>2, <1>11, BeforeStep DEF Fixed, Sight, View
  <2>4. Promise!Catchup(Pages)
    BY <1>8, <1>11, <2>2, MovedCatchup
  <2>5. Coherent(t, hs, latest)
    <3>1. Coherent(pool, held, latest)
      BY <1>2, <1>11, IInvParts
    <3>2. pool.strategy = "FIFO" \/ \A d \in Clients : d = c
      BY <1>2, IInvParts, SharingAssumption
    <3> QED BY <1>2, <1>3, <1>5, <1>9, <1>10, <1>11, <2>1, <3>1, <3>2, IInvParts,
               PinCoherent
  <2>6. \A x \in Bufs \ {b} : t.heap[x] = pool.heap[x]
    BY <1>2, <1>3, <1>5, <1>10, <1>11, <2>1, IInvParts, PinEffect
  <2>7. p # NoPage
    BY NoPageIsNone
  <2>8. PICK f \in Occupied(N, t) : t.frame[f].page = p /\ t.frame[f].data = h.data
    BY <1>4, <1>6, <1>7, <2>5, <2>7, HolderFrame DEF Coherent
  <2>9. \A d \in Clients \ {c} : Sight'[d] = Sight[d]
    <3> TAKE d \in Clients \ {c}
    <3>1. held[d].page # NoPage => held[d].data \in Bufs \ {b}
      BY <1>3, IInvParts DEF Proper, Nothing
    <3> QED BY <1>7, <2>2, <2>3, <2>6, <3>1 DEF View
  <2>10. Sight'[c] = t.heap[h.data]
    BY <1>6, <1>7, <2>2, <2>7 DEF View
  <2>11. Sight'[c] \in Content
    BY <1>4, <1>6, <2>10, PoolMembers
  <2>12. Db[p] # Unwritten => Sight'[c] = Db[p]
    BY <2>3, <2>5, <2>8, <2>10 DEF Coherent, Current
  <2>13. ASSUME NEW d \in Clients, Fixed[d] = p PROVE Sight'[c] = Sight[d]
    <3>1. held[d].page = p /\ d # c
      BY <1>2, <2>3, <2>7, <2>13
    <3>2. hs[d].page = p
      BY <1>7, <3>1
    <3>3. t.frame[f].data = hs[d].data
      BY <1>4, <1>7, <2>5, <2>7, <2>8, <3>2, HolderFrame DEF Coherent, Occupied
    <3>4. Sight'[d] = t.heap[h.data]
      BY <2>2, <2>7, <2>8, <3>2, <3>3 DEF View
    <3> QED BY <2>9, <2>10, <3>1, <3>4
  <2>14. Fixed[c] = NoPage /\ Fixed' = [Fixed EXCEPT ![c] = p]
    BY <1>2, <1>6, <1>7, <2>2, <2>3
  <2> QED BY <2>2, <2>3, <2>4, <2>9, <2>11, <2>12, <2>13, <2>14 DEF Promise!Fix
<1>12. ~stray /\ st = FALSE /\ t.status # "crashed" => [Promise!Next]_(Promise!vars)
  BY <1>11 DEF Promise!Next
<1>13. (stray => st) /\ pool.status \in {"running", "closed"}
  BY <1>2 DEF st, Running
<1> QED BY <1>2, <1>4, <1>5, <1>8, <1>12, <1>13, CallStep

\* A call that leaves the file alone moves it nowhere.
LEMMA SameFileMoves ==
  ASSUME NEW s, NEW t, t.file = s.file, NEW lt
  PROVE  \A p \in Pages : Moved(s, t, lt, p)
BY DEF Moved

\* The calls that only change frames, on a page that did not go astray.
LEMMA QuietStep ==
  ASSUME IInv, RInv, IInv', RInv', Running(pool), NEW t \in Pool(N),
         t.file = pool.file, t.status = "running",
         NEW hs, Proper(hs), NEW lt, Becomes(t, hs, lt, stray),
         \/ stray
         \/ /\ Mode = "up" /\ Mode' = "up"
            /\ Disk' = Disk /\ Db = latest /\ Db' = lt
            /\ Fixed' = [d \in Clients |-> hs[d].page] /\ Sight' = View(t, hs)
            => [Promise!Next]_(Promise!vars)
  PROVE  [Promise!Next]_(Promise!vars)
<1>1. \A p \in Pages : Moved(pool, t, latest, p)
  BY SameFileMoves
<1>2. ASSUME stray = FALSE PROVE [Promise!Next]_(Promise!vars)
  <2>1. Running(t) /\ Becomes(t, hs, lt, FALSE)
    BY <1>2 DEF Running
  <2>2. /\ Mode' = "up" /\ Disk' = OnFile(t.file) /\ Db' = lt
        /\ Fixed' = [d \in Clients |-> hs[d].page] /\ Sight' = View(t, hs)
    BY <2>1, AfterCall DEF View
  <2>3. Mode = "up" /\ Disk = OnFile(pool.file) /\ Db = latest
    BY <1>2, BeforeStep
  <2> QED BY <1>2, <2>2, <2>3
<1>3. pool.status \in {"running", "closed"} /\ stray \in BOOLEAN
  BY IInvParts DEF Running
<1> QED BY <1>1, <1>2, <1>3, CallStep

LEMMA StoreStep ==
  ASSUME IInv, RInv, IInv', RInv', NEW c \in Clients, NEW x \in Content, Store(c, x)
  PROVE  [Promise!Next]_(Promise!vars)
<1> DEFINE heap == [pool.heap EXCEPT ![held[c].data] = x]
           t == [pool EXCEPT !.heap = heap]
           hs == [held EXCEPT ![c].unmarked = TRUE]
           lt == [latest EXCEPT ![held[c].page] = x]
<1>1. Running(pool) /\ held[c].page # NoPage /\ Becomes(t, hs, lt, stray)
  BY DEF Store
<1>2. heap \in [Bufs -> Content]
  BY IInvParts, PoolMembers
<1>3. \A d \in Clients : hs[d].page = held[d].page /\ hs[d].data = held[d].data
  BY IInvParts DEF Proper, Hold
<1>4. Proper(hs)
  BY <1>1, HeldPage, IInvParts, SetUnmarked
<1> HIDE DEF heap
<1>5. /\ t \in Pool(N) /\ t.file = pool.file /\ t.heap = heap
      /\ t.frame = pool.frame /\ t.status = "running"
  BY <1>1, <1>2, IInvParts, SetHeap DEF Pool, Running
<1> HIDE DEF t, hs, lt
<1>6. ASSUME stray = FALSE, Mode = "up", Mode' = "up", Disk' = Disk,
             Db = latest, Db' = lt,
             Fixed' = [d \in Clients |-> hs[d].page], Sight' = View(t, hs)
      PROVE  Promise!Change(c, x)
  <2>1. Fixed = [d \in Clients |-> held[d].page] /\ Fixed' = Fixed
    BY <1>3, <1>6 DEF Fixed
  <2>2. Db' = [Db EXCEPT ![Fixed[c]] = x]
    BY <1>6, <2>1 DEF lt
  <2>3. Pinned(pool, held)
    BY <1>1, <1>6, IInvParts DEF Coherent
  <2>4. ASSUME NEW d \in Clients
        PROVE  Sight'[d] = IF Fixed[d] = Fixed[c] THEN x ELSE Sight[d]
    <3>1. Sight'[d] = IF held[d].page = NoPage THEN Blank ELSE heap[held[d].data]
      BY <1>3, <1>5, <1>6 DEF View
    <3>2. Sight[d] = IF held[d].page = NoPage THEN Blank ELSE pool.heap[held[d].data]
      BY DEF Sight
    <3>3. held[d].page # NoPage => held[d].data \in Bufs
      BY IInvParts DEF Proper, Nothing
    <3>4. PICK g \in Occupied(N, pool) : /\ pool.frame[g].page = held[c].page
                                         /\ pool.frame[g].data = held[c].data
      BY <1>1, <2>3, IInvParts, HolderFrame
    <3>5. CASE held[d].page = held[c].page
      <4>1. held[d].data = held[c].data
        BY <1>1, <2>3, <3>4, <3>5, IInvParts, HolderFrame DEF Occupied
      <4> QED BY <1>1, <2>1, <3>1, <3>3, <3>5, <4>1, IInvParts, PoolMembers DEF heap
    <3>6. CASE held[d].page # held[c].page /\ held[d].page # NoPage
      <4>1. PICK k \in Occupied(N, pool) : /\ pool.frame[k].page = held[d].page
                                           /\ pool.frame[k].data = held[d].data
        BY <2>3, <3>6, IInvParts, HolderFrame
      <4>2. held[d].data # held[c].data
        BY <3>4, <3>6, <4>1, IInvParts DEF Shaped, OneBufferPerFrame
      <4> QED BY <2>1, <3>1, <3>2, <3>3, <3>6, <4>2, IInvParts, PoolMembers DEF heap
    <3>7. CASE held[d].page = NoPage
      BY <1>1, <2>1, <3>1, <3>2, <3>7
    <3> QED BY <3>5, <3>6, <3>7
  <2>5. Sight' = [d \in Clients |-> IF Fixed[d] = Fixed[c] THEN x ELSE Sight[d]]
    BY <1>6, <2>4 DEF View
  <2>6. Fixed[c] # NoPage
    BY <1>1, <2>1
  <2> QED BY <1>6, <2>1, <2>2, <2>5, <2>6 DEF Promise!Change
<1>7. \/ stray
      \/ /\ Mode = "up" /\ Mode' = "up"
         /\ Disk' = Disk /\ Db = latest /\ Db' = lt
         /\ Fixed' = [d \in Clients |-> hs[d].page] /\ Sight' = View(t, hs)
         => [Promise!Next]_(Promise!vars)
  BY <1>6, IInvParts DEF Promise!Next
<1> QED BY <1>1, <1>4, <1>5, <1>7, QuietStep

\* The clients do not see the dirty bits.
LEMMA MarkStep ==
  ASSUME IInv, RInv, IInv', RInv', NEW c \in Clients, Mark(c)
  PROVE  [Promise!Next]_(Promise!vars)
<1> DEFINE t == MarkDirty(N, pool, held[c].page)
           hs == [held EXCEPT ![c].unmarked = FALSE]
<1>1. Running(pool) /\ held[c].unmarked /\ Becomes(t, hs, latest, stray)
  BY DEF Mark
<1>2. held[c].page \in Pages
  BY <1>1, IInvParts DEF Proper, Nothing
<1>3. /\ t \in Pool(N) /\ t.file = pool.file /\ t.heap = pool.heap
      /\ t.status = "running"
  BY <1>1, <1>2, IInvParts, MarkDirtyGood DEF Good, MarkDirty, Pool, Running
<1>4. \A d \in Clients : hs[d].page = held[d].page /\ hs[d].data = held[d].data
  BY IInvParts DEF Proper, Hold
<1>5. Proper(hs)
  BY <1>2, NoPageIsNone, IInvParts, SetUnmarked
<1> HIDE DEF t, hs
<1>6. \/ stray
      \/ /\ Mode = "up" /\ Mode' = "up"
         /\ Disk' = Disk /\ Db = latest /\ Db' = latest
         /\ Fixed' = [d \in Clients |-> hs[d].page] /\ Sight' = View(t, hs)
         => [Promise!Next]_(Promise!vars)
  BY <1>3, <1>4 DEF Fixed, Sight, View, Promise!vars
<1> QED BY <1>1, <1>3, <1>5, <1>6, QuietStep

LEMMA UnpinStep ==
  ASSUME IInv, RInv, IInv', RInv', NEW c \in Clients, Unpin(c)
  PROVE  [Promise!Next]_(Promise!vars)
<1> DEFINE t == UnpinPage(N, pool, held[c].page)
           hs == [held EXCEPT ![c] = Nothing]
<1>1. Running(pool) /\ held[c].page # NoPage /\ Becomes(t, hs, latest, stray)
  BY DEF Unpin
<1>2. held[c].page \in Pages
  BY <1>1, HeldPage
<1>3. /\ t \in Pool(N) /\ t.file = pool.file /\ t.heap = pool.heap
      /\ t.status = "running"
  BY <1>1, <1>2, IInvParts, UnpinPageGood DEF Good, UnpinPage, Pool, Running
<1>4. hs[c].page = NoPage /\ \A d \in Clients \ {c} : hs[d] = held[d]
  BY IInvParts DEF Proper, Nothing
<1>5. Proper(hs)
  BY IInvParts, HoldNothing DEF Proper
<1> HIDE DEF t, hs
<1>6. ASSUME Mode = "up", Mode' = "up", Disk' = Disk, Db = latest, Db' = latest,
             Fixed' = [d \in Clients |-> hs[d].page], Sight' = View(t, hs)
      PROVE  Promise!Release(c)
  <2>1. Fixed = [d \in Clients |-> held[d].page] /\ Sight = View(pool, held)
    BY DEF Fixed, Sight, View
  <2>2. Fixed[c] # NoPage /\ Fixed' = [Fixed EXCEPT ![c] = NoPage]
    BY <1>1, <1>4, <1>6, <2>1
  <2>3. Sight' = [Sight EXCEPT ![c] = Blank]
    BY <1>3, <1>4, <1>6, <2>1 DEF View
  <2> QED BY <1>6, <2>2, <2>3 DEF Promise!Release
<1>7. \/ stray
      \/ /\ Mode = "up" /\ Mode' = "up"
         /\ Disk' = Disk /\ Db = latest /\ Db' = latest
         /\ Fixed' = [d \in Clients |-> hs[d].page] /\ Sight' = View(t, hs)
         => [Promise!Next]_(Promise!vars)
  BY <1>6 DEF Promise!Next
<1> QED BY <1>1, <1>3, <1>5, <1>7, QuietStep

\* The page the client holds reaches the disk as the client sees it.
LEMMA ForceOutStep ==
  ASSUME IInv, RInv, IInv', RInv', NEW c \in Clients, ForceOut(c)
  PROVE  [Promise!Next]_(Promise!vars)
<1> DEFINE p == held[c].page
           t == ForcePage(N, pool, p)
           f == Least(Holding(N, pool, p))
<1>1. Running(pool) /\ p # NoPage /\ Becomes(t, held, latest, stray)
  BY DEF ForceOut
<1>2. p \in Pages
  BY <1>1, HeldPage
<1>3. t \in Pool(N) /\ Shaped(N, {}, t)
  BY <1>2, IInvParts, ForcePageGood DEF Good
<1>4. ASSUME ~stray
      PROVE  LET written == WriteAt(pool.file, p, pool.heap[held[c].data]) IN
             /\ pool.heap[held[c].data] \in Content
             /\ \/ t = Crashed(pool)
                \/ /\ t.status = "running" /\ t.file = written
                   /\ t.heap = pool.heap
  <2>1. /\ Holding(N, pool, p) # {} /\ f \in Occupied(N, pool) /\ f \in Frames(N)
        /\ pool.frame[f].page = p
    BY <1>1, <1>4, FoundFrame
  <2>2. t = WriteFrame(pool, f)
    BY <2>1 DEF ForcePage
  <2> HIDE DEF f
  <2>3. pool.frame[f].data = held[c].data
    BY <1>1, <1>4, <2>1, IInvParts, HolderFrame DEF Coherent
  <2>4. held[c].data \in Bufs
    BY <1>1, IInvParts DEF Proper, Nothing
  <2> HIDE DEF t, p
  <2>5. pool.heap[held[c].data] \in Content
    BY <2>4, IInvParts, PoolMembers
  <2> DEFINE written == WriteAt(pool.file, p, pool.heap[held[c].data])
             k == pool.streams + 1
             fs == [pool.frame EXCEPT ![f] = [pool.frame[f] EXCEPT !.dirty = FALSE]]
  <2>6. \/ t = Crashed(pool)
        \/ t = [pool EXCEPT !.streams = k, !.file = written, !.frame = fs]
    BY <2>1, <2>2, <2>3 DEF WriteFrame
  <2> HIDE DEF written, k, fs
  <2>7. \/ t = Crashed(pool)
        \/ t.status = "running" /\ t.file = written /\ t.heap = pool.heap
    BY <1>1, <2>6, IInvParts DEF Pool, Running
  <2> QED BY <2>5, <2>7 DEF written
<1>5. WritesBack(N, pool, t, Holding(N, pool, p))
  BY <1>2, IInvParts, ForceWritesBack
<1> HIDE DEF t, f
<1>6. ASSUME ~stray, t.status = "crashed"
      PROVE  \A q \in Pages : Moved(pool, t, latest, q)
  <2>1. t = Crashed(pool)
    BY <1>4, <1>6
  <2>2. t.file = pool.file
    BY <2>1, IInvParts DEF Crashed, Pool
  <2> QED BY <2>2, SameFileMoves
<1>7. ASSUME ~stray, stray = FALSE, t.status # "crashed"
      PROVE  Promise!Force(c)
  <2> DEFINE x == pool.heap[held[c].data]
  <2>1. /\ x \in Content /\ t.status = "running" /\ t.heap = pool.heap
        /\ t.file = WriteAt(pool.file, p, x)
    BY <1>4, <1>7, IInvParts DEF Crashed, Pool
  <2>2. Running(t) /\ Becomes(t, held, latest, FALSE)
    BY <1>1, <1>7, <2>1 DEF Running
  <2>3. /\ Mode' = "up" /\ Disk' = OnFile(t.file) /\ Db' = latest
        /\ Fixed' = [d \in Clients |-> held[d].page] /\ Sight' = View(t, held)
    BY <1>3, <1>7, <2>1, <2>2, IInvParts, AfterCall DEF View
  <2>4. /\ Mode = "up" /\ Db = latest
        /\ Fixed = [d \in Clients |-> held[d].page] /\ Sight = View(pool, held)
    BY <1>1, <1>7, BeforeStep DEF Fixed, Sight, View
  <2>5. Sight' = Sight
    BY <2>1, <2>3, <2>4 DEF View
  <2>6. Sight[c] = x /\ Fixed[c] = p
    BY <1>1, <2>4 DEF View
  <2>7. Disk'[p] = Sight[c]
    BY <1>2, <2>1, <2>3, <2>6, IInvParts, PoolMembers, WriteAtShows
  <2>8. \A q \in Pages \ {p} : Moved(pool, t, latest, q)
    <3> TAKE q \in Pages \ {p}
    <3>1. Holding(N, pool, q) \cap Holding(N, pool, p) = {}
      BY <1>1, <1>2, NoPageIsNone DEF Holding, Occupied
    <3> QED BY <1>3, <1>5, <3>1, IInvParts, FileMoves DEF RInv, Mapped
  <2>9. Promise!Catchup(Pages \ {p})
    BY <1>7, <2>3, <2>8, MovedCatchup
  <2> HIDE DEF p, x
  <2> QED BY <1>1, <2>3, <2>4, <2>5, <2>6, <2>7, <2>9 DEF Promise!Force
<1>8. ~stray /\ stray = FALSE /\ t.status # "crashed" => [Promise!Next]_(Promise!vars)
  BY <1>7 DEF Promise!Next
<1>9. pool.status \in {"running", "closed"} /\ stray \in BOOLEAN
  BY <1>1, IInvParts DEF Running
<1> QED BY <1>1, <1>3, <1>6, <1>8, <1>9, CallStep

LEMMA FlushStep ==
  ASSUME IInv, RInv, IInv', RInv', Flush
  PROVE  [Promise!Next]_(Promise!vars)
<1> DEFINE t == ForceFlushPool(N, pool)
<1>1. Running(pool) /\ Becomes(t, held, latest, stray)
  BY DEF Flush
<1>2. /\ t \in Pool(N) /\ t.status \in {"running", "crashed"}
      /\ Written(pool, t) /\ WritesBack(N, pool, t, Dirty(N, pool))
  BY <1>1, IInvParts, ForceFlushPoolGood, FlushKeeps, FlushWrites,
     ForceFlushPoolWritesBack DEF Good, Kept, Running
<1> HIDE DEF t
<1>3. ~stray => \A p \in Pages : Moved(pool, t, latest, p)
  BY <1>1, <1>2, DirtyMoves
<1>4. ASSUME ~stray, stray = FALSE, t.status # "crashed" PROVE Promise!WriteBack
  <2>1. Running(t) /\ Becomes(t, held, latest, FALSE)
    BY <1>1, <1>2, <1>4 DEF Running
  <2>2. /\ Mode' = "up" /\ Disk' = OnFile(t.file) /\ Db' = latest
        /\ Fixed' = [d \in Clients |-> held[d].page] /\ Sight' = View(t, held)
    BY <1>2, <1>4, <2>1, IInvParts, AfterCall DEF View
  <2>3. /\ Mode = "up" /\ Db = latest
        /\ Fixed = [d \in Clients |-> held[d].page] /\ Sight = View(pool, held)
    BY <1>1, <1>4, BeforeStep DEF Fixed, Sight, View
  <2>4. Sight' = Sight
    BY <1>2, <2>2, <2>3 DEF View, Written
  <2>5. Promise!Catchup(Pages)
    BY <1>3, <1>4, <2>2, MovedCatchup
  <2> QED BY <2>2, <2>3, <2>4, <2>5 DEF Promise!WriteBack
<1>5. ~stray /\ stray = FALSE /\ t.status # "crashed" => [Promise!Next]_(Promise!vars)
  BY <1>4 DEF Promise!Next
<1>6. pool.status \in {"running", "closed"} /\ stray \in BOOLEAN
  BY <1>1, IInvParts DEF Running
<1> QED BY <1>1, <1>2, <1>3, <1>5, <1>6, CallStep

\* A shutdown that survives leaves all that is current on the disk.
LEMMA ShutdownStep ==
  ASSUME IInv, RInv, IInv', RInv', Shutdown
  PROVE  [Promise!Next]_(Promise!vars)
<1> DEFINE s == ForceFlushPool(N, pool)
           x == [s EXCEPT !.status = "closed"]
           t == IF Running(s) THEN x ELSE s
<1>1. Running(pool) /\ Idle /\ Becomes(t, held, latest, stray)
  BY DEF Shutdown, ShutdownBufferPool
<1>2. \A c \in Clients : held[c] = Nothing
  BY <1>1, IInvParts, NoPageIsNone DEF Idle, Holders, Proper
<1>3. /\ s \in Pool(N) /\ s.status \in {"running", "crashed"}
      /\ WritesBack(N, pool, s, Dirty(N, pool))
  BY <1>1, IInvParts, ForceFlushPoolGood, FlushKeeps,
     ForceFlushPoolWritesBack DEF Good, Kept, Running
<1>4. ~stray /\ Running(s) => Durable(s.file, latest)
  BY <1>1, <1>2, IInvParts, IdleFlushIsDurable
<1> HIDE DEF s
<1>5. ~stray => \A p \in Pages : Moved(pool, s, latest, p)
  BY <1>1, <1>3, DirtyMoves
<1>6. /\ x \in Pool(N) /\ x.file = s.file /\ x.heap = s.heap /\ x.status = "closed"
  BY <1>3, SetStatus DEF Pool
<1> HIDE DEF x
<1>7. /\ t \in Pool(N) /\ t.file = s.file
      /\ t.status = IF Running(s) THEN "closed" ELSE "crashed"
  BY <1>3, <1>6 DEF Running
<1> HIDE DEF t
<1>8. ~stray => \A p \in Pages : Moved(pool, t, latest, p)
  BY <1>5, <1>7 DEF Moved
<1>9. ASSUME ~stray, stray = FALSE, t.status # "crashed" PROVE Promise!Close
  <2>1. Running(s) /\ t.status = "closed" /\ ~Running(t)
    BY <1>7, <1>9 DEF Running
  <2>2. Becomes(t, held, latest, FALSE)
    BY <1>1, <1>9
  <2>3. /\ Mode' = "closed" /\ Disk' = OnFile(t.file) /\ Db' = latest
        /\ Fixed' = [d \in Clients |-> held[d].page] /\ Sight' = View(t, held)
    BY <1>7, <2>1, <2>2, IInvParts, AfterCall DEF View
  <2>4. /\ Mode = "up" /\ Db = latest
        /\ Fixed = [d \in Clients |-> held[d].page] /\ Sight = View(pool, held)
    BY <1>1, <1>9, BeforeStep DEF Fixed, Sight, View
  <2>5. (\A c \in Clients : Fixed[c] = NoPage) /\ Sight' = Sight
    BY <1>2, <2>3, <2>4 DEF View, Nothing
  <2>6. \A p \in Pages : Db[p] # Unwritten => Disk'[p] = Db[p]
    BY <1>4, <1>7, <1>9, <2>1, <2>3, <2>4 DEF Durable
  <2>7. Promise!Catchup(Pages)
    BY <1>8, <1>9, <2>3, MovedCatchup
  <2> QED BY <2>3, <2>4, <2>5, <2>6, <2>7 DEF Promise!Close
<1>10. ~stray /\ stray = FALSE /\ t.status # "crashed" => [Promise!Next]_(Promise!vars)
  BY <1>9 DEF Promise!Next
<1>11. pool.status \in {"running", "closed"} /\ stray \in BOOLEAN
  BY <1>1, IInvParts DEF Running
<1> QED BY <1>1, <1>7, <1>8, <1>10, <1>11, CallStep

LEMMA OpenStep ==
  ASSUME IInv, RInv, IInv', RInv', NEW strategy \in Using, Open(strategy)
  PROVE  [Promise!Next]_(Promise!vars)
<1> DEFINE t == InitBufferPool(N, pool, strategy)
<1>1. pool.status = "closed" /\ Becomes(t, held, latest, stray)
  BY DEF Open
<1>2. t \in Pool(N) /\ t.status = "running" /\ t.file = pool.file
  BY IInvParts, InitBufferPoolGood, UsingAssumption DEF Good, InitBufferPool, Pool
<1> HIDE DEF t
<1>3. \A c \in Clients : held[c] = Nothing
  BY <1>1 DEF IInv, Sane
<1>4. ASSUME ~stray, stray = FALSE PROVE Promise!Open
  <2>1. Running(t) /\ Becomes(t, held, latest, FALSE)
    BY <1>1, <1>2, <1>4 DEF Running
  <2>2. /\ Mode' = "up" /\ Disk' = OnFile(t.file) /\ Db' = latest
        /\ Fixed' = [d \in Clients |-> held[d].page] /\ Sight' = View(t, held)
    BY <1>2, <2>1, IInvParts, AfterCall DEF View
  <2>3. /\ Mode = "closed" /\ Disk = OnFile(pool.file) /\ Db = latest
        /\ Fixed = [d \in Clients |-> held[d].page] /\ Sight = View(pool, held)
    BY <1>1, <1>4, BeforeStep DEF Fixed, Sight, View, Running
  <2>4. Sight' = Sight
    BY <1>3, <2>2, <2>3 DEF View, Nothing
  <2> QED BY <1>2, <2>2, <2>3, <2>4 DEF Promise!Open
<1>5. ~stray /\ stray = FALSE /\ t.status # "crashed" => [Promise!Next]_(Promise!vars)
  BY <1>4 DEF Promise!Next
<1>6. \A p \in Pages : Moved(pool, t, latest, p)
  BY <1>2, SameFileMoves
<1>7. stray \in BOOLEAN
  BY IInvParts
<1> QED BY <1>1, <1>2, <1>5, <1>6, <1>7, CallStep

LEMMA KillStep ==
  ASSUME IInv, RInv, IInv', RInv', Kill
  PROVE  [Promise!Next]_(Promise!vars)
<1> DEFINE t == Crashed(pool)
<1>1. pool.status \in {"running", "closed"} /\ Becomes(t, held, latest, stray)
  BY DEF Kill
<1>2. t \in Pool(N) /\ t.status = "crashed" /\ t.file = pool.file
  BY IInvParts, CrashedGood DEF Good, Crashed, Pool
<1> HIDE DEF t
<1>3. \A p \in Pages : Moved(pool, t, latest, p)
  BY <1>2, SameFileMoves
<1>4. stray \in BOOLEAN
  BY IInvParts
<1> QED BY <1>1, <1>2, <1>3, <1>4, CallStep

LEMMA RestartStep ==
  ASSUME IInv, RInv, IInv', RInv', NEW strategy \in Using, Restart(strategy)
  PROVE  [Promise!Next]_(Promise!vars)
<1>1. /\ pool.status = "crashed" /\ pool' = FreshPool(N, pool.file, strategy)
      /\ held' = held /\ latest' = latest /\ stray' = stray
  BY DEF Restart
<1>2. ~stray /\ \A c \in Clients : held[c].page = NoPage
  BY <1>1 DEF IInv, Nothing
<1>3. pool'.status = "running" /\ pool'.file = pool.file
  BY <1>1 DEF FreshPool
<1>4. Mode = "dead" /\ Mode' = "up" /\ Disk' = Disk
  BY <1>1, <1>2, <1>3 DEF Mode, Disk
<1>5. Db' = Db
  BY <1>1, <1>2, DbIsLatest, DbIsLatestNext
<1>6. Fixed' = Fixed /\ Sight' = Sight
  BY <1>1, <1>2 DEF Fixed, Sight
<1> QED BY <1>4, <1>5, <1>6 DEF Promise!Next, Promise!Restart

-----------------------------------------------------------------------------
(* The refinement *)

LEMMA InitPromise == Init => Promise!Init
<1> SUFFICES ASSUME Init PROVE Promise!Init
  OBVIOUS
<1>1. PICK strategy \in Using : pool = FreshPool(N, CreatedFile, strategy)
  BY DEF Init
<1>2. /\ pool.status = "running" /\ pool.file = CreatedFile /\ stray = FALSE
      /\ latest = OnFile(CreatedFile) /\ held = [c \in Clients |-> Nothing]
  BY <1>1 DEF Init, FreshPool
<1>3. IInv /\ RInv
  BY InitIInv, InitRInv
<1>4. Mode = "up" /\ Disk = latest /\ Db = latest
  BY <1>2, <1>3, BeforeStep DEF Running
<1>5. latest \in [Pages -> Content \cup {Unwritten}]
  BY <1>3, IInvParts DEF Latest
<1>6. \A c \in Clients : held[c].page = NoPage
  BY <1>2 DEF Nothing
<1>7. Fixed = [c \in Clients |-> NoPage] /\ Sight = [c \in Clients |-> Blank]
  BY <1>6 DEF Fixed, Sight
<1> QED BY <1>4, <1>5, <1>7 DEF Promise!Init

LEMMA NextPromise ==
  IInv /\ RInv /\ IInv' /\ RInv' /\ [Next]_vars => [Promise!Next]_(Promise!vars)
<1> SUFFICES ASSUME IInv, RInv, IInv', RInv', [Next]_vars
             PROVE  [Promise!Next]_(Promise!vars)
  OBVIOUS
<1>1. CASE UNCHANGED vars
  BY <1>1 DEF vars, Promise!vars, Mode, Disk, Db, Shown, Holding, Fixed, Sight
<1> QED BY <1>1, PinStep, StoreStep, MarkStep, UnpinStep, ForceOutStep,
           FlushStep, ShutdownStep, OpenStep, KillStep, RestartStep DEF Next

\* The buffer pool, used with discipline, implements the page store: with any
\* number of frames, pages, buffers and FIFO clients, or one client under any
\* strategy, however the calls, the kills and the restarts interleave.
THEOREM Refines == Spec => IsPageStore
<1>1. Init => Promise!Init
  BY InitPromise
<1>2. Init => IInv /\ RInv
  BY InitIInv, InitRInv
<1>3. IInv /\ RInv /\ [Next]_vars => IInv' /\ RInv'
  BY NextIInv, NextRInv
<1>4. IInv /\ RInv /\ IInv' /\ RInv' /\ [Next]_vars => [Promise!Next]_(Promise!vars)
  BY NextPromise
<1> QED BY <1>1, <1>2, <1>3, <1>4, PTL DEF Spec, IsPageStore, Promise!Spec

=============================================================================
