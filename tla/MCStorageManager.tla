-------------------------- MODULE MCStorageManager --------------------------
(* StorageManager for TLC. *)
EXTENDS StorageManager, TLC

AskedPages == {0, LastPage}

Interchangeable == Permutations(Handles) \cup Permutations(Streams)
=============================================================================
