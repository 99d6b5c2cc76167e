------------------------------ MODULE BuddyAlloc ------------------------------
(* The kernel heap, mem::BuddyAlloc of src/mem/allocator.cpp. The heap is a    *)
(* row of blocks, each with a header that says how many bytes of it are used   *)
(* and whether it is free; a block's real size is size_required of that. Every *)
(* operation runs as a whole under alloc_lock. Addresses count from the head.  *)
EXTENDS Integers, FiniteSets

CONSTANTS
    alignment,    \* the smallest block (16 in the code)
    HeaderSize,   \* sizeof(Block) (16 in the code)
    HeapSize,     \* the size given to init (1 GiB in the code)
    Sizes,        \* the sizes callers ask for
    HalfWord      \* half of the numbers a usize can hold (2^63 in the code)

Word == 2 * HalfWord

-----------------------------------------------------------------------------
(* n rounds of a loop from state s. Round leaves a state in which the loop has *)
(* ended as it is, and n is at least the number of rounds the loop makes.      *)
Looped(Round(_), s, n) ==
    LET after[k \in 0 .. n] == IF k = 0 THEN s ELSE Round(after[k - 1])
    IN  after[n]

(* Rounding up and doubling wrap around, as they do in a usize. *)
align(n) == (((n + alignment - 1) \div alignment) * alignment) % Word

SizeRequired ==
    [n \in 0 .. (Word - 1) |->
        Looped(LAMBDA actual : IF align(n) > actual THEN (2 * actual) % Word ELSE actual,
               alignment, n)]

size_required(n) == SizeRequired[n]

(* size_required's loop would still go on: its doubling has come to 0. *)
Spins(n) == size_required(n) < align(n)

(* p is the smallest block doubled some number of times. *)
IsBlock(p) == Looped(LAMBDA x : IF p > x THEN 2 * x ELSE x, alignment, p) = p

(* A header fills the smallest block, and the heap and half of the address     *)
(* space are blocks. Callers may ask for any number of bytes.                  *)
ASSUME GeometryAssumption ==
    /\ alignment \in Nat \ {0} /\ HeaderSize = alignment
    /\ HalfWord \in Nat /\ HeapSize \in Nat /\ 2 * HeapSize <= HalfWord
    /\ IsBlock(HalfWord) /\ IsBlock(HeapSize)
    /\ Sizes \subseteq 0 .. (Word - 1)

head == 0
tail == HeapSize
NULL == -1

VARIABLES
    hdr,       \* what each aligned address holds, read as a block header
    live,      \* history: the size of each allocation a caller owns, by address
    outcome    \* "failed" after a request that found no block, "spins" in one that
               \* never ends, "wild" after one whose block is too small, else "ok"

vars == <<hdr, live, outcome>>

Addresses == {a \in 0 .. (HeapSize - 1) : a % alignment = 0}

(* What an address holds that is no header, or no longer one. *)
NoHeader == [size |-> 0, is_free |-> FALSE]

(* Block::next *)
NextOf(h, a) == a + size_required(h[a].size)

(* The buddy that goes with the block at a; past the tail it is left as it was. *)
BuddyOf(h, a, old) == IF a < tail THEN NextOf(h, a) ELSE old

(* The header init writes: one free block. *)
FirstHeader == [size |-> HeapSize, is_free |-> TRUE]

Init ==
    /\ hdr = [a \in Addresses |-> IF a = head THEN FirstHeader ELSE NoHeader]
    /\ live = [p \in {} |-> 0]
    /\ outcome = "ok"

-----------------------------------------------------------------------------
(* split_until halves the block at b and goes on with the upper half until the *)
(* half is as small as asked for.                                              *)
HalveRound(s, size) ==
    LET half == s.actual \div 2
        lower == [s.h EXCEPT ![s.block].size = half]
        upper == NextOf(lower, s.block)
    IN  IF size < s.actual
        THEN [h |-> [lower EXCEPT ![upper] = [size |-> half, is_free |-> TRUE]],
              block |-> upper, actual |-> half]
        ELSE s

Halve(h, b, size) ==
    Looped(LAMBDA s : HalveRound(s, size),
           [h |-> h, block |-> b, actual |-> size_required(h[b].size)], HeapSize)

split_until(h, b, size) ==
    LET s == Halve(h, b, size)
    IN  [h |-> s.h, found |-> IF size <= s.actual THEN s.block ELSE NULL]

(* Both blocks are free and of one size. *)
MergeableAnySize(h, b, c) == h[b].is_free /\ h[c].is_free

Mergeable(h, b, c) == h[b].is_free /\ h[c].is_free /\ h[b].size = h[c].size

(* The block at b swallows the one behind it, whose header is one no more. *)
Merge(h, b) == [h EXCEPT ![b].size = 2 * @, ![NextOf(h, b)] = NoHeader]

(* The loop of find_best, which walks the blocks in pairs. *)
ScanMerge(s, size) ==
    LET h == Merge(s.h, s.block)
        block == NextOf(s.h, s.buddy)
        better == size <= h[s.block].size
                    /\ (s.best = NULL \/ h[s.block].size <= h[s.best].size)
    IN  [h |-> h, block |-> block, buddy |-> BuddyOf(h, block, s.buddy),
         best |-> IF better THEN s.block ELSE s.best]

BestOfPair(s, size) ==
    LET actual_best_size == IF s.best = NULL THEN 0 ELSE size_required(s.h[s.best].size)
        first == IF s.h[s.block].is_free /\ size <= s.h[s.block].size
                        /\ (s.best = NULL \/ s.h[s.block].size <= actual_best_size)
                 THEN s.block ELSE s.best
    IN  IF s.h[s.buddy].is_free /\ size <= s.h[s.buddy].size
            /\ (first = NULL \/ s.h[s.buddy].size < actual_best_size)
        THEN s.buddy ELSE first

ScanOn(s, size) ==
    LET skip == size_required(s.h[s.block].size) <= size_required(s.h[s.buddy].size)
        block == IF skip THEN NextOf(s.h, s.buddy) ELSE s.buddy
    IN  [h |-> s.h, block |-> block,
         buddy |-> IF skip THEN BuddyOf(s.h, block, s.buddy) ELSE NextOf(s.h, s.buddy),
         best |-> BestOfPair(s, size)]

InRange(s) == s.block < tail /\ s.buddy < tail

ScanRound(s, size) ==
    IF ~ InRange(s) THEN s
    ELSE IF Mergeable(s.h, s.block, s.buddy) THEN ScanMerge(s, size) ELSE ScanOn(s, size)

Scan(h, size) ==
    Looped(LAMBDA s : ScanRound(s, size),
           [h |-> h, block |-> head, buddy |-> NextOf(h, head), best |-> NULL], HeapSize)

find_best(h, size) ==
    LET s == Scan(h, size)
    IN  IF NextOf(h, head) = tail /\ h[head].is_free THEN split_until(h, head, size)
        ELSE IF s.best # NULL THEN split_until(s.h, s.best, size)
        ELSE [h |-> s.h, found |-> NULL]

(* One pass of coalescence; again says that a pair was merged before the tail. *)
PassMerge(s) ==
    LET h == Merge(s.h, s.block)
        block == NextOf(h, s.block)
    IN  [h |-> h, block |-> block, buddy |-> BuddyOf(h, block, s.buddy),
         again |-> s.again \/ block < tail]

PassOn(s) ==
    LET split == size_required(s.h[s.block].size) < size_required(s.h[s.buddy].size)
        block == IF split THEN s.buddy ELSE NextOf(s.h, s.buddy)
    IN  [h |-> s.h, block |-> block,
         buddy |-> IF split THEN NextOf(s.h, s.buddy) ELSE BuddyOf(s.h, block, s.buddy),
         again |-> s.again]

PassRound(s) ==
    IF ~ InRange(s) THEN s
    ELSE IF Mergeable(s.h, s.block, s.buddy) THEN PassMerge(s) ELSE PassOn(s)

PassKeepsOn(h) ==
    Looped(PassRound, [h |-> h, block |-> head, buddy |-> NextOf(h, head), again |-> TRUE],
           HeapSize)

Pass(h) ==
    Looped(PassRound, [h |-> h, block |-> head, buddy |-> NextOf(h, head), again |-> FALSE],
           HeapSize)

Passes(h) ==
    Looped(LAMBDA s : IF s.again THEN Pass(s.h) ELSE s, [h |-> h, again |-> TRUE], HeapSize)

coalescence(h) == Passes(h).h

(* Look for a block, coalesce, and look again. *)
Obtain(h, actual) ==
    LET first == find_best(h, actual)
    IN  IF first.found # NULL THEN first ELSE find_best(coalescence(first.h), actual)

-----------------------------------------------------------------------------
(* The block at b goes to the caller, who writes to everything behind the      *)
(* header.                                                                     *)
Place(h, b, n) ==
    [a \in Addresses |->
        IF a = b THEN [size |-> n + HeaderSize, is_free |-> FALSE]
        ELSE IF b < a /\ a < b + size_required(n + HeaderSize) THEN NoHeader
        ELSE h[a]]

(* The headers met on the way from the head to the tail. *)
Walk ==
    Looped(LAMBDA w : IF w.at < tail THEN [at |-> NextOf(hdr, w.at), met |-> w.met \cup {w.at}]
                      ELSE w,
           [at |-> head, met |-> {}], HeapSize)

Blocks == Walk.met

Own(b, n) == [p \in DOMAIN live \cup {b + HeaderSize} |->
                IF p = b + HeaderSize THEN n ELSE live[p]]

Disown(f, p) == [q \in DOMAIN f \ {p} |-> f[q]]

(* size + sizeof(Block), which wraps around. *)
Total(n) == (n + HeaderSize) % Word

(* The block of a request so near to the end of the address space that its     *)
(* size wraps: a smallest one, with room for its header only.                  *)
Short(n) == size_required(Total(n)) < n + HeaderSize

(* Nobody spins with alloc_lock held, and nobody wrote behind a short block.   *)
Working == outcome \in {"ok", "failed"}

(* A request for more than half of the address space: its size_required never  *)
(* ends.                                                                       *)
requestSpins(n) ==
    /\ Working /\ n # 0 /\ Spins(Total(n))
    /\ outcome' = "spins"
    /\ UNCHANGED <<hdr, live>>

(* No block was found, or one that is too short, behind which the caller or    *)
(* the copying of realloc then writes.                                         *)
NotServed(got, n) ==
    /\ \/ got.found = NULL /\ hdr' = got.h /\ outcome' = "failed"
       \/ got.found # NULL /\ Short(n) /\ hdr' = hdr /\ outcome' = "wild"
    /\ UNCHANGED live

(* malloc. A request for nothing gets a null pointer and changes nothing. *)
malloc(n) ==
    LET got == Obtain(hdr, size_required(Total(n)))
    IN  /\ Working /\ n # 0 /\ ~ Spins(Total(n))
        /\ \/ /\ got.found # NULL /\ ~ Short(n)
              /\ hdr' = Place(got.h, got.found, n)
              /\ live' = Own(got.found, n)
              /\ outcome' = "ok"
           \/ NotServed(got, n)

(* realloc of the block before p: its callers, Vector::push_back and the write *)
(* of tmpfs, only ever grow it. No allocation is in a smallest block, so one   *)
(* whose new size wraps always moves.                                          *)
OldBlock(p) == p - HeaderSize

reallocInPlace(p, n) ==
    /\ Working /\ n > live[p] /\ ~ Spins(Total(n)) /\ ~ Short(n)
    /\ size_required(hdr[OldBlock(p)].size) = size_required(Total(n))
    /\ hdr' = [hdr EXCEPT ![OldBlock(p)].size = n + HeaderSize]
    /\ live' = [live EXCEPT ![p] = n]
    /\ outcome' = "ok"

reallocMoves(p, n) ==
    LET got == Obtain(hdr, size_required(Total(n)))
    IN  /\ Working /\ n > live[p] /\ ~ Spins(Total(n))
        /\ size_required(hdr[OldBlock(p)].size) # size_required(Total(n))
        /\ \/ /\ got.found # NULL /\ ~ Short(n)
              /\ hdr' = [Place(got.h, got.found, n) EXCEPT ![OldBlock(p)].is_free = TRUE]
              /\ live' = Disown(Own(got.found, n), p)
              /\ outcome' = "ok"
           \/ NotServed(got, n)

FreedUnrounded(h) == [h EXCEPT !.size = @ - HeaderSize, !.is_free = TRUE]

Freed(h) == [size |-> size_required(h.size), is_free |-> TRUE]

free(p) ==
    /\ Working
    /\ hdr' = [hdr EXCEPT ![OldBlock(p)] = Freed(@)]
    /\ live' = Disown(live, p)
    /\ outcome' = "ok"

Next ==
    \/ \E n \in Sizes : malloc(n) \/ requestSpins(n)
    \/ \E p \in DOMAIN live :
        free(p) \/ \E n \in Sizes : reallocInPlace(p, n) \/ reallocMoves(p, n)

Spec == Init /\ [][Next]_vars

-----------------------------------------------------------------------------
(* Properties *)

TypeOK ==
    /\ hdr \in [Addresses -> [size : 0 .. HeapSize, is_free : BOOLEAN]]
    /\ DOMAIN live \subseteq 0 .. HeapSize
    /\ \A p \in DOMAIN live : live[p] \in Sizes
    /\ outcome \in {"ok", "failed", "spins", "wild"}

(* Whatever was split, merged, moved and left behind half filled, the headers  *)
(* lead from the head exactly to the tail, and the blocks that are not free    *)
(* are the callers' own, each as large as its owner was told.                  *)
HeadersTell ==
    /\ \E b \in Blocks : NextOf(hdr, b) = tail
    /\ {b \in Blocks : ~ hdr[b].is_free} = {OldBlock(p) : p \in DOMAIN live}
    /\ \A p \in DOMAIN live : hdr[OldBlock(p)].size = live[p] + HeaderSize

(* The loops of a request from headers h: the pairs of find_best come to the   *)
(* end of the heap, split_until comes to a block that is not too large, a pass *)
(* of coalescence comes to the end and the passes come to one that is the last.*)
FindEnds(h, actual) ==
    LET s == Scan(h, actual)
        SplitEnds(e, b) == ~ (actual < Halve(e, b, actual).actual)
    IN  /\ h[head].is_free => SplitEnds(h, head)
        /\ ~ InRange(s)
        /\ s.best # NULL => SplitEnds(s.h, s.best)

CoalescenceEnds(h) == ~ InRange(Pass(h)) /\ ~ Passes(h).again

(* The requests that never end are those for more than half of the address     *)
(* space whose size does not wrap, and no others: every other request comes to *)
(* the end of all its loops, whatever callers have asked for, given back and   *)
(* resized before, so nobody waits for alloc_lock behind it for ever.          *)
OperationsEnd ==
    \A n \in Sizes \ {0} :
        LET actual == size_required(Total(n))
            first == find_best(hdr, actual)
        IN  /\ Spins(Total(n)) <=> n + HeaderSize \in (HalfWord + 1) .. (Word - alignment)
            /\ ~ Spins(Total(n)) =>
                /\ FindEnds(hdr, actual)
                /\ first.found = NULL =>
                    CoalescenceEnds(first.h) /\ FindEnds(coalescence(first.h), actual)

H == INSTANCE Heap

(* malloc, realloc and free keep every allocation to itself: no operation, nor *)
(* the coalescing and splitting it does on the way, hands out bytes that       *)
(* another caller still owns, or bytes outside the heap.                       *)
ImplementsHeap == H!Spec

-----------------------------------------------------------------------------
(* What a comment of the source says and the code does not do. *)

(* "keep looping until there are no more buddies to coalesce": after a request *)
(* that failed, no two halves of one block are both free.                      *)
NoBuddiesLeft ==
    outcome = "failed" =>
        \A b \in Blocks :
            LET c == NextOf(hdr, b)
            IN  c \in Blocks /\ b % (2 * size_required(hdr[b].size)) = 0
                    => ~ Mergeable(hdr, b, c)

=============================================================================
