-------------------------- MODULE MCRecordManager ---------------------------
(* RecordManager for TLC: pages of a few slots, and what malloc may return. *)
EXTENDS RecordManager

PageContents == [SlotIds -> Cell]
ZeroPage == [i \in SlotIds |-> [mark |-> "0", val |-> NoVal]]

\* A page of zeros, or what is left of another page of records.
Leftovers ==
  {ZeroPage, [ZeroPage EXCEPT ![0] = [mark |-> "#", val |-> NoVal]]}
=============================================================================
