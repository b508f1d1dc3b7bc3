---------------------------- MODULE MCPoolClient ----------------------------
(* PoolClient for TLC: clients are interchangeable, and a CLOCK pool is      *)
(* pinned often enough for its hand to leave an array of two frames: by two  *)
(* loads, of which only the second counts, three hits, and a load.           *)
EXTENDS PoolClient, TLC

ClientSymmetry == Permutations(Clients)

\* A full pool under RS_LRU_K refuses every page.
Pins ==
  [strategy \in Using |->
     CASE strategy = "CLOCK" -> 5 [] strategy = "LRU_K" -> 2 [] OTHER -> 3]
=============================================================================
