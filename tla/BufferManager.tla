--------------------------- MODULE BufferManager ----------------------------
(***************************************************************************)
(* The buffer manager (buffer_mgr.c, assign_val.c) as operators over one   *)
(* record: the pool's frames, the heap buffers they point to, the page     *)
(* file, the C library's streams and the global counters of pageInfo.  An  *)
(* operator named after a function of the code takes the record before the *)
(* call and returns the record after it, so that a caller (a client, the   *)
(* record manager) composes calls the way the code does.                   *)
(*                                                                         *)
(* N is pageInfo.maxPgFrs, the number of frames a call looks at.  It is an *)
(* argument because pageInfo is a global that another pool may set anew;   *)
(* a module with one pool passes its constant.                             *)
(*                                                                         *)
(* Nothing is modelled of the I/O statistics (pgN, writeCnt, hitNumber,    *)
(* augCall): no statement of the program reads them to decide anything.    *)
(***************************************************************************)
EXTENDS PageFile, FiniteSets

CONSTANTS
  Bufs,            \* the page-sized buffers malloc can return
  Null,            \* the NULL data pointer of an empty frame
  MaxStreams,      \* how many FILE streams the process may have open
  JunkInts,        \* what an uninitialised int may hold
  PointersFitInt   \* does a pointer survive the int typed by "auto"?

ASSUME NullAssumption == Null \notin Bufs
ASSUME StreamsAssumption == MaxStreams \in Nat
ASSUME JunkAssumption == JunkInts \subseteq Int
ASSUME BuildAssumption == PointersFitInt \in BOOLEAN

Frames(N) == 0 .. N - 1

Strategies == {"FIFO", "LRU", "CLOCK", "LFU", "LRU_K"}

(***************************************************************************)
(* What the C standard leaves undefined is an argument u of the operation  *)
(* that meets it, chosen by the caller's \E:                               *)
(*   lruPage  the int read from the unset member of a fresh pgFr           *)
(*   content  the bytes of a buffer that malloc returned and nobody filled *)
(*   luck     what an access outside of the frame array, or through an     *)
(*            unset file handle, meets: "crash", or memory that happens to *)
(*            look like a busy frame ("busy") or a free one ("free")       *)
(***************************************************************************)
Undefined ==
  [lruPage : JunkInts, content : Content, luck : {"crash", "busy", "free"}]

EmptyFrame ==
  [page |-> NoPage, data |-> Null, dirty |-> FALSE, clientCount |-> 0,
   lruPage |-> 0, lfuPage |-> 0]

Frame ==
  [page : Pages \cup {NoPage}, data : Bufs \cup {Null}, dirty : BOOLEAN,
   clientCount : Int, lruPage : Int, lfuPage : Int]

Pool(N) ==
  [status : {"running", "closed", "crashed"}, strategy : Strategies,
   frame : [Frames(N) -> Frame], heap : [Bufs -> Content], file : FileValue,
   streams : 0 .. MaxStreams, pageCounter : Nat, lastPg : Nat,
   lastEntry : Nat, lastPtr : Nat]

Running(s) == s.status = "running"

Crashed(s) == [s EXCEPT !.status = "crashed"]

\* The smallest element of a nonempty set of integers.
Least(S) == CHOOSE x \in S : \A y \in S : x <= y

\* The greatest, of a nonempty finite one.
Greatest(S) == CHOOSE x \in S : \A y \in S : y <= x

\* Where a loop that keeps the smallest value it has met, and the later of
\* two equal ones ("<="), stands after scanning v[0], v[1], ... v[N-1].
LastLeast(N, v) ==
  CHOOSE f \in Frames(N) :
    \A g \in Frames(N) : v[f] <= v[g] /\ (v[g] = v[f] => g <= f)

-----------------------------------------------------------------------------
(* The page file, as pinPage and the writers reach it *)

\* MUTANT of ReadInto: readBlock does not close its stream either.
ReadIntoLeakingTwo(s, p, b, u) ==
  LET opened == s.file.exists /\ s.streams < MaxStreams
      there  == opened /\ p < s.file.size
  IN  IF \/ ~opened /\ u.luck = "crash"
         \/ opened /\ p <= s.file.size /\ s.streams + 1 >= MaxStreams
      THEN Crashed(s)
      ELSE [s EXCEPT !.streams = IF opened THEN @ + 2 ELSE @,
                     !.heap[b] = IF there THEN s.file.block[p] ELSE u.content]

\* openPageFile, malloc and readBlock of pinPage, whose return codes nobody
\* looks at.  The stream of openPageFile is never closed; readBlock opens one
\* of its own and closes it.  A page at the end of the file reads nothing, one
\* beyond it is refused: either way the buffer keeps what malloc returned.  An
\* openPageFile that fails leaves the file handle unset.
ReadInto(s, p, b, u) ==
  LET opened   == s.file.exists /\ s.streams < MaxStreams
      reopened == s.streams + 1 < MaxStreams
      there    == opened /\ p < s.file.size
      stops    == \/ ~opened /\ u.luck = "crash"
                  \/ opened /\ p <= s.file.size /\ ~reopened
  IN  IF stops
      THEN Crashed(s)
      ELSE [s EXCEPT !.streams = IF opened THEN @ + 1 ELSE @,
                     !.heap[b] = IF there THEN s.file.block[p] ELSE u.content]

\* openPageFile followed by writeBlock of frame f.  writeBlock's fopen uses
\* the name in the handle and seeks in its result unchecked.
WriteFrame(s, f) ==
  LET fr == s.frame[f]
  IN  IF s.file.exists /\ s.streams + 1 < MaxStreams
      THEN [s EXCEPT !.streams = @ + 1,
                     !.file = WriteAt(@, fr.page, s.heap[fr.data]),
                     !.frame[f].dirty = FALSE]
      ELSE Crashed(s)

\* writeInvoke: "auto" makes the file name and the buffer address ints.
WriteInvoke(s, f) == IF PointersFitInt THEN WriteFrame(s, f) ELSE Crashed(s)

-----------------------------------------------------------------------------
(* Replacement: a full pool, and pg the frame value of the page read *)

\* MUTANT of Replace: the dirty bit of the victim is not looked at.
ReplaceUnwritten(s, f, pg) ==
  [s EXCEPT !.frame[f] = [pg EXCEPT !.lfuPage = s.frame[f].lfuPage]]

\* The victim is written back when it is dirty, then assign_val copies every
\* member of pg but lfuPage.
Replace(s, f, pg) ==
  LET w == IF s.frame[f].dirty THEN WriteInvoke(s, f) ELSE s
  IN  IF Running(w)
      THEN [w EXCEPT !.frame[f] = [pg EXCEPT !.lfuPage = s.frame[f].lfuPage]]
      ELSE w

\* MUTANT of FIFO: clientCount is not looked at.
FIFOAnyFrame(N, s, pg, u) == Replace(s, s.pageCounter % N, pg)

\* FIFO starts at pageCounter modulo N and takes the first frame nobody has
\* pinned.  It does not wrap around: a search that starts above frame 0 runs
\* past the array before it has looked at N frames, and pg is then lost to the
\* pool; a search that starts at frame 0 may find every frame pinned.
FIFO(N, s, pg, u) ==
  LET start == s.pageCounter % N
      free  == {f \in start .. N - 1 : s.frame[f].clientCount = 0}
  IN  IF free # {} THEN Replace(s, Least(free), pg)
      ELSE IF start > 0 /\ u.luck = "crash" THEN Crashed(s)
      ELSE s

\* LRU never looks at clientCount.
LRU(N, s, pg) == Replace(s, LastLeast(N, [f \in Frames(N) |-> s.frame[f].lruPage]), pg)

\* CLOCK takes the frame under the hand, pinned or not, and moves on.  Only a
\* multiple of N is brought back to 0: every hit advances the hand too, and
\* may put it outside of the array.
CLOCK(N, s, pg, u) ==
  LET hand == IF s.lastEntry % N = 0 THEN 0 ELSE s.lastEntry
      past == IF u.luck = "crash" THEN Crashed(s) ELSE s
      took == IF hand < N THEN Replace(s, hand, pg) ELSE past
      next == IF hand >= N /\ u.luck = "busy" THEN hand ELSE hand + 1
  IN  [took EXCEPT !.lastEntry = next]

\* LFU scans from the frame after lastPtr, which another pool may have moved,
\* round to lastPtr itself.
LFU(N, s, pg) ==
  LET at(k)  == (s.lastPtr + 1 + k) % N
      victim == at(LastLeast(N, [k \in Frames(N) |-> s.frame[at(k)].lfuPage]))
  IN  [Replace(s, victim, pg) EXCEPT !.lastPtr = victim + 1]

-----------------------------------------------------------------------------
(* The calls *)

\* MUTANT of Stops: an empty frame is taken before the page is looked for.
StopsAtEmpty(N, s, p) ==
  LET empty == {f \in Frames(N) : s.frame[f].page = NoPage}
  IN  IF empty # {} THEN empty ELSE {f \in Frames(N) : s.frame[f].page = p}

\* The frames pinPage stops at: the first that is empty or holds p.
Stops(N, s, p) == {f \in Frames(N) : s.frame[f].page \in {NoPage, p}}

\* MUTANT of HitFrame: the new holder is not counted.
HitFrameUncounted(s, f) ==
  [s EXCEPT !.lastPg = @ + 1, !.lastEntry = @ + 1]

HitFrame(s, f) ==
  LET fr == s.frame[f]
  IN  [s EXCEPT
         !.frame[f] = [fr EXCEPT
            !.clientCount = fr.clientCount + 1,
            !.lruPage = IF s.strategy \in {"LRU", "CLOCK"} THEN 1 ELSE fr.lruPage,
            !.lfuPage = IF s.strategy = "LFU" THEN 1 ELSE fr.lfuPage],
         !.lastPg = s.lastPg + 1,
         !.lastEntry = s.lastEntry + 1]

\* MUTANT of Loaded: the frame does not record which page it holds.
LoadedUnnamed(fr, p, b, count, age) ==
  [page |-> fr.page, data |-> b, dirty |-> fr.dirty, clientCount |-> count,
   lruPage |-> age, lfuPage |-> 0]

\* An empty frame is given the page; its dirty bit is left as it is.
Loaded(fr, p, b, count, age) ==
  [page |-> p, data |-> b, dirty |-> fr.dirty, clientCount |-> count,
   lruPage |-> age, lfuPage |-> 0]

\* MUTANT of LoadFirst: the counters advance as they do for other frames.
LoadFirstCounted(s, p, b) ==
  [s EXCEPT !.frame[0] = Loaded(s.frame[0], p, b, s.frame[0].clientCount + 1, 0),
            !.pageCounter = @ + 1, !.lastPg = @ + 1]

\* Frame 0 has a branch of its own, which adds to clientCount and leaves the
\* counters alone.
LoadFirst(s, p, b) ==
  LET fr == s.frame[0]
  IN  [s EXCEPT !.frame[0] = Loaded(fr, p, b, fr.clientCount + 1, 0)]

LoadOther(s, f, p, b) ==
  LET age == CASE s.strategy = "CLOCK" -> 1
               [] s.strategy = "LRU"   -> s.lastPg + 1
               [] OTHER                -> 0
  IN  [s EXCEPT !.frame[f] = Loaded(s.frame[f], p, b, 1, age),
                !.pageCounter = s.pageCounter + 1,
                !.lastPg = s.lastPg + 1]

LoadEmpty(s, f, p, b) ==
  IF f = 0 THEN LoadFirst(s, p, b) ELSE LoadOther(s, f, p, b)

\* The default branch of the switch, RS_LRU_K, puts the page in no frame.
LoadFull(N, s, p, b, u) ==
  LET pg == [page |-> p, data |-> b, dirty |-> FALSE, clientCount |-> 1,
             lruPage |-> u.lruPage, lfuPage |-> 0]
      t  == [s EXCEPT !.lastPg = @ + 1, !.pageCounter = @ + 1]
  IN  CASE s.strategy = "FIFO"  -> FIFO(N, t, pg, u)
        [] s.strategy = "LRU"   -> LRU(N, t, pg)
        [] s.strategy = "CLOCK" -> CLOCK(N, t, pg, u)
        [] s.strategy = "LFU"   -> LFU(N, t, pg)
        [] OTHER                -> t

\* pinPage(p), where b is the buffer its malloc returns.
PinPage(N, s, p, b, u) ==
  LET f == Least(Stops(N, s, p))
      r == ReadInto(s, p, b, u)
  IN  IF Stops(N, s, p) # {} /\ s.frame[f].page = p THEN HitFrame(s, f)
      ELSE IF ~Running(r) THEN r
      ELSE IF Stops(N, s, p) # {} THEN LoadEmpty(r, f, p, b)
      ELSE LoadFull(N, r, p, b, u)

\* The data pointer pinPage puts in the caller's handle.
PinnedData(N, s, p, b) ==
  LET f == Least(Stops(N, s, p))
  IN  IF Stops(N, s, p) # {} /\ s.frame[f].page = p THEN s.frame[f].data ELSE b

\* The frames that hold page p; the calls below act on the first, and return
\* RC_ERROR, changing nothing, when there is none.
Holding(N, s, p) == {f \in Frames(N) : s.frame[f].page = p}

MarkDirty(N, s, p) ==
  IF Holding(N, s, p) = {} THEN s
  ELSE [s EXCEPT !.frame[Least(Holding(N, s, p))].dirty = TRUE]

UnpinPage(N, s, p) ==
  IF Holding(N, s, p) = {} THEN s
  ELSE [s EXCEPT !.frame[Least(Holding(N, s, p))].clientCount = @ - 1]

\* forcePage calls the storage manager itself, not through writeInvoke.
ForcePage(N, s, p) ==
  IF Holding(N, s, p) = {} THEN s ELSE WriteFrame(s, Least(Holding(N, s, p)))

\* MUTANT of ForceFlushPool: every dirty bit is cleared, written or not.
ForceFlushForgets(N, s) ==
  LET due   == {f \in Frames(N) : s.frame[f].clientCount = 0 /\ s.frame[f].dirty}
      of(p) == {f \in due : s.frame[f].page = p}
  IN  [s EXCEPT
         !.file.size = IF due = {} THEN @ ELSE LastPage + 1,
         !.file.block = [p \in Pages |->
                           IF of(p) = {} THEN @[p]
                           ELSE s.heap[s.frame[Greatest(of(p))].data]],
         !.frame = [f \in Frames(N) |-> [s.frame[f] EXCEPT !.dirty = FALSE]]]

\* forceFlushPool writes, in the order of the frames, the dirty ones nobody
\* has pinned; each write-back leaks a stream, and the first that finds none
\* left ends the process.  Of two frames of a page, as pools that share pageInfo
\* may have, the later one is on the file in the end.
ForceFlushPool(N, s) ==
  LET due     == {f \in Frames(N) : s.frame[f].clientCount = 0 /\ s.frame[f].dirty}
      rank(f) == Cardinality({g \in due : g <= f})
      written == {f \in due : /\ PointersFitInt
                              /\ s.file.exists
                              /\ s.streams + rank(f) < MaxStreams}
      of(p)   == {f \in written : s.frame[f].page = p}
      covers  == {n \in s.file.size .. LastPage + 1 :
                    \A f \in written : s.frame[f].page < n}
      blocks  == [p \in Pages |->
                    IF of(p) = {} THEN s.file.block[p]
                    ELSE s.heap[s.frame[Greatest(of(p))].data]]
  IN  [s EXCEPT
         !.status = IF written = due THEN s.status ELSE "crashed",
         !.streams = s.streams + Cardinality(written),
         !.file = [exists |-> s.file.exists, size |-> Least(covers),
                   block |-> blocks],
         !.frame = [f \in Frames(N) |->
                      [s.frame[f] EXCEPT !.dirty = @ /\ f \notin written]]]

\* shutdownBufferPool flushes; it returns before the loop that would free the
\* frames, and leaves the pool as it is.
ShutdownBufferPool(N, s) == ForceFlushPool(N, s)

\* initBufferPool: a fresh frame array.  lastPg and the streams go on.
InitBufferPool(N, s, strategy) ==
  [s EXCEPT !.status = "running", !.strategy = strategy,
            !.frame = [f \in Frames(N) |-> EmptyFrame],
            !.pageCounter = 0, !.lastEntry = 0, !.lastPtr = 0]

\* The state of a process that has just called initBufferPool on file.
FreshPool(N, file, strategy) ==
  [status |-> "running", strategy |-> strategy,
   frame |-> [f \in Frames(N) |-> EmptyFrame],
   heap |-> [b \in Bufs |-> Blank], file |-> file,
   streams |-> 0, pageCounter |-> 0, lastPg |-> 0, lastEntry |-> 0,
   lastPtr |-> 0]

\* A buffer nothing points to: its bytes are of no further consequence.
Collect(s, used) ==
  [s EXCEPT !.heap = [b \in Bufs |-> IF b \in used THEN s.heap[b] ELSE Blank]]

FrameBufs(N, s) == {s.frame[f].data : f \in Frames(N)} \ {Null}

Occupied(N, s) == {f \in Frames(N) : s.frame[f].page # NoPage}

-----------------------------------------------------------------------------
(* The shape every pool keeps, however it is used *)

\* pinPage's search stops at the first empty frame: it is right to load there
\* only because no page is behind it.
OccupiedIsPrefix(N, s) ==
  \A f \in Occupied(N, s) : \A g \in Frames(N) : g < f => g \in Occupied(N, s)

OneFramePerPage(N, s) ==
  \A f, g \in Occupied(N, s) : s.frame[f].page = s.frame[g].page => f = g

\* assign_val copies the buffer by reference.
OneBufferPerFrame(N, s) ==
  \A f, g \in Occupied(N, s) : s.frame[f].data = s.frame[g].data => f = g

\* calloc and setPageFrame; what is not occupied has never been.
EmptyIsBlank(N, s) ==
  \A f \in Frames(N) :
    IF f \in Occupied(N, s) THEN s.frame[f].data # Null ELSE s.frame[f] = EmptyFrame

Shape(N, s) ==
  /\ OccupiedIsPrefix(N, s)
  /\ OneFramePerPage(N, s)
  /\ OneBufferPerFrame(N, s)
  /\ EmptyIsBlank(N, s)

=============================================================================
