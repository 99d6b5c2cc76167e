-------------------------------- MODULE MCPMM --------------------------------
(* Small machines for model checking PMM: 2-byte pages, 4-bit bytes. *)
EXTENDS PMM

Usable(b, n) == [base |-> b, pages |-> n, usable |-> TRUE]
Taken(b, n)  == [base |-> b, pages |-> n, usable |-> FALSE]

(* The bitmap fits in the first usable entry; two separate areas remain. *)
TwoAreas == <<Taken(0, 1), Usable(1, 5), Taken(6, 1), Usable(7, 5)>>

(* The first usable entry is too small for the bitmap. *)
LateBitmap == <<Taken(0, 1), Usable(1, 1), Taken(2, 1), Usable(3, 9), Taken(12, 3)>>

(* The size is no multiple of a byte, and the page of the first leftover bit   *)
(* (page 4) is not usable: Bitmap::fill misses it.                             *)
OddTail == <<Taken(0, 1), Usable(1, 3), Taken(4, 1), Usable(5, 2)>>

MCMemMaps == {TwoAreas, LateBitmap, OddTail}
=============================================================================
