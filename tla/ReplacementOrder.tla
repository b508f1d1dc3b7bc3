-------------------------- MODULE ReplacementOrder --------------------------
(***************************************************************************)
(* A pool visited by callers that pin one page at a time, and the order in *)
(* which it lets pages go: BufferPool with its calls restricted to these,  *)
(* and a record of when each page was loaded and used.  No page is stored  *)
(* to; the pool may be started again, with another strategy.               *)
(***************************************************************************)
EXTENDS BufferPool

CONSTANT MaxVisits   \* BOUND: how many visits are made

ASSUME MaxVisitsAssumption == MaxVisits \in Nat

VARIABLES
  visiting,   \* the page pinned, or NoPage
  now,        \* GHOST: how many visits were made
  loadedAt,   \* GHOST: of each page, the visit that loaded it
  usedAt      \* GHOST: of each page, its last visit

orderVars == <<pool, handle, visiting, now, loadedAt, usedAt>>

Resident(s) == {s.frame[f].page : f \in Occupied(N, s)}

\* An empty pool: which pages an earlier one loaded is of no consequence.
Never == [p \in Pages |-> 0]

OrderInit ==
  /\ Init
  /\ visiting = NoPage
  /\ now = 0
  /\ loadedAt = Never
  /\ usedAt = Never

Visit(h, p) ==
  /\ visiting = NoPage
  /\ now < MaxVisits
  /\ Pin(h, p)
  /\ visiting' = p
  /\ now' = now + 1
  /\ loadedAt' = IF p \in Resident(pool) THEN loadedAt ELSE [loadedAt EXCEPT ![p] = now]
  /\ usedAt' = [usedAt EXCEPT ![p] = now]

Leave(h) ==
  /\ visiting # NoPage
  /\ handle[h].page = visiting
  /\ Unpin(h)
  /\ visiting' = NoPage
  /\ UNCHANGED <<now, loadedAt, usedAt>>

Restart(strategy) ==
  /\ visiting = NoPage
  /\ Start(strategy)
  /\ loadedAt' = Never
  /\ usedAt' = Never
  /\ UNCHANGED <<visiting, now>>

OrderNext ==
  \/ \E h \in Handles, p \in Pages : Visit(h, p)
  \/ \E h \in Handles : Leave(h)
  \/ \E strategy \in Using : Restart(strategy)

OrderSpec == OrderInit /\ [][OrderNext]_orderVars

-----------------------------------------------------------------------------
(* Properties *)

Visits == Running(pool') /\ visiting = NoPage /\ visiting' # NoPage

Gone == Resident(pool) \ Resident(pool')

\* FIFO's arithmetic on pageCounter (buffer_mgr.c:30), a counter that the load
\* of frame 0 does not advance and that is never brought back below N, takes
\* the frames in the order of their loads when nothing is pinned.
FIFOStep ==
  Visits /\ pool.strategy = "FIFO" =>
    \A p \in Gone : \A q \in Resident(pool) : loadedAt[p] <= loadedAt[q]

FIFOEvictsOldest == [][FIFOStep]_orderVars

\* However the counters stand, a visit drops no page but one it has put its own
\* in the place of.  The page it wanted is then in the pool, with two exceptions:
\* RS_LRU_K, and a CLOCK hand that hits have moved beyond the array, since CLOCK
\* brings it back to 0 only from a multiple of N (buffer_mgr.c:80).
VisitStep ==
  Visits =>
    /\ \/ Gone = {}
       \/ /\ visiting' \in Resident(pool') \ Resident(pool)
          /\ \E p \in Pages : Gone = {p}
    /\ \/ visiting' \in Resident(pool')
       \/ pool.strategy = "LRU_K"
       \/ pool.strategy = "CLOCK" /\ pool.lastEntry > N

VisitReplacesOne == [][VisitStep]_orderVars

\* README.txt:20 says that the pool replaces the least recently used page.
LRUStep ==
  Visits /\ pool.strategy = "LRU" =>
    \A p \in Gone : \A q \in Resident(pool) : usedAt[p] <= usedAt[q]

LRUEvictsLeastRecent == [][LRUStep]_orderVars

=============================================================================
