---------------------------- MODULE MCBuddyAlloc ----------------------------
(* A heap of eight smallest usable blocks in an address space of 128 bytes.    *)
(* The last five sizes are the largest that only fails, the smallest and the   *)
(* largest that spin, and two that wrap.                                       *)
EXTENDS BuddyAlloc

MCSizes == {1, 13, 14, 30} \cup {62, 63, 124, 125, 127}
=============================================================================
