-------------------------------- MODULE Heap --------------------------------
(* What the kernel heap promises the code that calls malloc, realloc and free: *)
(* every allocation is a range of bytes of its own, which stays as it is until *)
(* its owner frees it or has it resized. A request may always fail.            *)
EXTENDS Integers

CONSTANTS
    HeapSize,   \* bytes in the heap
    Sizes       \* the sizes the kernel asks for

VARIABLE live   \* the size of each allocation, by its address

Bytes(p, n) == p .. (p + n - 1)

(* n bytes at p lie in the heap and meet no allocation but those at freed. *)
Fits(p, n, freed) ==
    /\ Bytes(p, n) \subseteq 0 .. (HeapSize - 1)
    /\ \A q \in DOMAIN live \ freed : Bytes(p, n) \cap Bytes(q, live[q]) = {}

Without(p) == [q \in DOMAIN live \ {p} |-> live[q]]

With(f, p, n) == [q \in DOMAIN f \cup {p} |-> IF q = p THEN n ELSE f[q]]

Init == live = [p \in {} |-> 0]

Malloc(n) ==
    \E p \in DOMAIN live' :
        /\ Fits(p, n, {})
        /\ live' = With(live, p, n)

Free(p) == live' = Without(p)

(* The allocation grows where it is, or moves to a range that is clear of its  *)
(* old one.                                                                    *)
Realloc(p, n) ==
    \/ live' = With(live, p, n) /\ Fits(p, n, {p})
    \/ \E q \in DOMAIN live' :
        /\ Fits(q, n, {})
        /\ live' = With(Without(p), q, n)

Next ==
    \/ \E n \in Sizes : Malloc(n)
    \/ \E p \in DOMAIN live : Free(p) \/ \E n \in Sizes : Realloc(p, n)

Spec == Init /\ [][Next]_live
=============================================================================
