----------------------------- MODULE MCTwoPools -----------------------------
(* TwoPools for TLC: pool 1 under every strategy, and next to it an LFU pool *)
(* of which two pages are read: its loads, hits and replacements move all of *)
(* pageInfo's counters.  Under CLOCK the hand can leave the array of pool 1, *)
(* which takes five pins.                                                    *)
EXTENDS TwoPools

UsingBoth == [i \in PoolIds |-> IF i = 1 THEN Strategies ELSE {"LFU"}]
StoredBoth == [i \in PoolIds |-> IF i = 1 THEN Content \ {Blank} ELSE {}]
AskedBoth == [i \in PoolIds |-> IF i = 1 THEN Pages ELSE {0, 1}]
PinsBoth ==
  [strategy \in Strategies |->
     CASE strategy = "CLOCK" -> 5 [] strategy = "LRU_K" -> 2 [] OTHER -> 3]
=============================================================================
