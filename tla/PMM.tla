--------------------------------- MODULE PMM ---------------------------------
(* The physical memory manager, mem::pmm of src/mem/pmm.cpp, on top of         *)
(* klib::Bitmap and klib::Spinlock. Pages are numbered from 0; bit p of the    *)
(* page bitmap is set when page p must not be handed out. alloc_pages runs on  *)
(* several processors: the application processors allocate their stacks in     *)
(* cpu::init while the boot processor goes on allocating.                      *)
EXTENDS Integers, Sequences, FiniteSets

CONSTANTS
    CPUs,        \* the processors that call alloc_pages
    NoCPU,       \* no processor: pmm_lock is free
    MemMaps,     \* the memory maps the boot loader may report
    Requests,    \* the page counts the kernel asks for
    PageBytes,   \* bytes in a page (0x1000 in the code)
    ByteBits     \* bits in a byte of the bitmap (8 in the code)

-----------------------------------------------------------------------------
(* The boot loader's memory map. Limine aligns usable entries to pages, so an  *)
(* entry is given by its first page and its number of pages.                   *)

MemMapEntry == [base : Nat, pages : Nat, usable : BOOLEAN]

EntryEnd(e) == e.base + e.pages

(* Page p lies in an entry the boot loader reports as usable. *)
InRam(mm, p) ==
    \E i \in DOMAIN mm : mm[i].usable /\ mm[i].base <= p /\ p < EntryEnd(mm[i])

(* n is the page number after the last usable page (last_usable_mem). *)
IsLastUsable(mm, n) ==
    /\ \E i \in DOMAIN mm : mm[i].usable /\ EntryEnd(mm[i]) = n
    /\ \A i \in DOMAIN mm : mm[i].usable => EntryEnd(mm[i]) <= n

(* An entry that init accepts as the home of a bitmap of size bits. *)
HoldsBitmap(e, size) == e.usable /\ e.pages * PageBytes >= size \div ByteBits

(* The pages init reserves for a bitmap of size bits, and the pages its bytes  *)
(* occupy.                                                                     *)
ReservedPages(size) == (size \div ByteBits + PageBytes - 1) \div PageBytes
StoragePages(size) ==
    ((size + ByteBits - 1) \div ByteBits + PageBytes - 1) \div PageBytes

ASSUME GeometryAssumption ==
    /\ PageBytes \in Nat \ {0}
    /\ ByteBits \in Nat \ {0}
    /\ Requests \subseteq Nat \ {0}
    /\ NoCPU \notin CPUs

(* Limine never reports page 0 as usable, usable entries do not overlap, one   *)
(* of them is large enough for the bitmap, and the last, partial byte of the   *)
(* bitmap does not begin a page of its own (init would not reserve that page). *)
ASSUME MemMapsAssumption ==
    \A mm \in MemMaps :
        /\ mm \in Seq(MemMapEntry)
        /\ \A i \in DOMAIN mm : mm[i].usable => mm[i].base > 0
        /\ \A i, j \in DOMAIN mm :
            i < j /\ mm[i].usable /\ mm[j].usable => EntryEnd(mm[i]) <= mm[j].base
        /\ \A n \in {EntryEnd(mm[i]) : i \in DOMAIN mm} :
            IsLastUsable(mm, n) =>
                /\ \E i \in DOMAIN mm : HoldsBitmap(mm[i], n)
                /\ StoragePages(n) = ReservedPages(n)

-----------------------------------------------------------------------------
VARIABLES
    memmap,              \* the map this boot was given
    m_size,              \* the bitmap's size in bits
    m_buffer,            \* the page the bitmap begins in
    bitmap,              \* the bits: TRUE when the page must not be handed out
    page_bitmap_index,   \* where the next scan begins
    total_usable_size,   \* in bytes
    total_allocated,     \* in bytes
    pmm_lock,            \* the processor that holds the lock, or NoCPU
    pc,                  \* where each processor is in alloc_pages
    num_pages,           \* the argument of each processor's call
    last, limit, pages,  \* the locals of the call that holds the lock
    attempt, result,
    held                 \* history: how many answers covered each page

locals == <<last, limit, pages, attempt, result>>
static == <<memmap, m_size, m_buffer, total_usable_size>>
vars == <<static, bitmap, page_bitmap_index, total_allocated, pmm_lock, pc,
          num_pages, locals, held>>

Pages == 0 .. (m_size - 1)

(* Bitmap::fill sets whole bytes and then the bits m_size - i for i below the  *)
(* number of bits left over, which leaves out the first of them.               *)
MissedByFill == IF m_size % ByteBits = 0 THEN {} ELSE {m_size - (m_size % ByteBits)}

SelfReservedRoundedDown ==
    m_buffer .. (m_buffer + (m_size \div ByteBits) \div PageBytes - 1)

SelfReserved == m_buffer .. (m_buffer + ReservedPages(m_size) - 1)

(* init: size the bitmap, place it in the first entry that can hold it, set    *)
(* every bit that fill reaches, clear the usable pages, take back the pages of *)
(* the bitmap itself.                                                          *)
Init ==
    /\ memmap \in MemMaps
    /\ m_size \in {EntryEnd(memmap[i]) : i \in DOMAIN memmap}
    /\ IsLastUsable(memmap, m_size)
    /\ \E i \in DOMAIN memmap :
        /\ HoldsBitmap(memmap[i], m_size)
        /\ \A j \in 1 .. (i - 1) : ~ HoldsBitmap(memmap[j], m_size)
        /\ m_buffer = memmap[i].base
    /\ \E junk \in BOOLEAN :
        bitmap = [p \in Pages |->
                    \/ p \in SelfReserved
                    \/ /\ ~ InRam(memmap, p)
                       /\ p \in MissedByFill => junk]
    /\ total_usable_size =
        (Cardinality({p \in Pages : InRam(memmap, p)}) - ReservedPages(m_size)) * PageBytes
    /\ page_bitmap_index = 0
    /\ total_allocated = 0
    /\ pmm_lock = NoCPU
    /\ pc = [c \in CPUs |-> "idle"]
    /\ num_pages = [c \in CPUs |-> 0]
    /\ last = 0 /\ limit = 0 /\ pages = 0 /\ attempt = 1 /\ result = 0
    /\ held = [p \in Pages |-> 0]

-----------------------------------------------------------------------------
(* alloc_pages *)

(* Where the first and the second scan end. *)
ScanLimitPastEnd(scan) == IF scan = 1 THEN m_size + 1 ELSE last

ScanLimit(scan) == IF scan = 1 THEN m_size ELSE last

(* The loop that sets the bits of a run. *)
MarkAllButFirst(bits, run) ==
    [p \in DOMAIN bits |-> bits[p] \/ (p \in run /\ p - 1 \in run)]

Mark(bits, run) == [p \in DOMAIN bits |-> bits[p] \/ p \in run]

Call(c, n) ==
    /\ pc[c] = "idle"
    /\ pc' = [pc EXCEPT ![c] = "spin"]
    /\ num_pages' = [num_pages EXCEPT ![c] = n]
    /\ UNCHANGED <<static, bitmap, page_bitmap_index, total_allocated, pmm_lock,
                   locals, held>>

(* The lock is taken and the first scan is set up. *)
Acquire(c) ==
    /\ pc[c] = "spin"
    /\ pmm_lock = NoCPU
    /\ pmm_lock' = c
    /\ pc' = [pc EXCEPT ![c] = "scan"]
    /\ last' = page_bitmap_index
    /\ limit' = ScanLimit(1)
    /\ pages' = 0
    /\ attempt' = 1
    /\ UNCHANGED <<static, bitmap, page_bitmap_index, total_allocated, num_pages,
                   result, held>>

(* The holder stopped for good: the spin count runs out ("Spinlock spun too    *)
(* much"). The bound is taken to be longer than any section under the lock.    *)
SpinOut(c) ==
    /\ pc[c] = "spin"
    /\ pmm_lock # NoCPU
    /\ pc[pmm_lock] = "panic"
    /\ pc' = [pc EXCEPT ![c] = "panic"]
    /\ UNCHANGED <<static, bitmap, page_bitmap_index, total_allocated, pmm_lock,
                   num_pages, locals, held>>

(* inner_alloc: a free page that does not complete the run. *)
ScanFree(c) ==
    /\ pc[c] = "scan"
    /\ page_bitmap_index < limit
    /\ ~ bitmap[page_bitmap_index]
    /\ pages + 1 # num_pages[c]
    /\ page_bitmap_index' = page_bitmap_index + 1
    /\ pages' = pages + 1
    /\ UNCHANGED <<static, bitmap, total_allocated, pmm_lock, pc, num_pages, last,
                   limit, attempt, result, held>>

(* inner_alloc: the free page that completes the run; the run is marked. *)
ScanTake(c) ==
    /\ pc[c] = "scan"
    /\ page_bitmap_index < limit
    /\ ~ bitmap[page_bitmap_index]
    /\ pages + 1 = num_pages[c]
    /\ page_bitmap_index' = page_bitmap_index + 1
    /\ pages' = pages + 1
    /\ result' = page_bitmap_index' - num_pages[c]
    /\ bitmap' = Mark(bitmap, result' .. page_bitmap_index)
    /\ held' = [p \in Pages |->
                  IF p \in result' .. page_bitmap_index THEN held[p] + 1 ELSE held[p]]
    /\ pc' = [pc EXCEPT ![c] = "return"]
    /\ UNCHANGED <<static, total_allocated, pmm_lock, num_pages, last, limit, attempt>>

(* inner_alloc: a page in use ends the run. *)
ScanUsedStays(c) ==
    /\ pc[c] = "scan"
    /\ page_bitmap_index < limit
    /\ bitmap[page_bitmap_index]
    /\ pages' = 0
    /\ UNCHANGED <<static, bitmap, page_bitmap_index, total_allocated, pmm_lock, pc,
                   num_pages, last, limit, attempt, result, held>>

ScanUsed(c) ==
    /\ pc[c] = "scan"
    /\ page_bitmap_index < limit
    /\ bitmap[page_bitmap_index]
    /\ page_bitmap_index' = page_bitmap_index + 1
    /\ pages' = 0
    /\ UNCHANGED <<static, bitmap, total_allocated, pmm_lock, pc, num_pages, last,
                   limit, attempt, result, held>>

(* inner_alloc: the limit is reached. *)
ScanEnd(c) ==
    /\ pc[c] = "scan"
    /\ page_bitmap_index >= limit
    /\ result' = 0
    /\ pc' = [pc EXCEPT ![c] = "return"]
    /\ UNCHANGED <<static, bitmap, page_bitmap_index, total_allocated, pmm_lock,
                   num_pages, last, limit, pages, attempt, held>>

(* The second scan goes from the beginning to where the first one began. *)
RetryInPlace(c) ==
    /\ pc[c] = "return"
    /\ result = 0
    /\ attempt = 1
    /\ limit' = ScanLimit(2)
    /\ pages' = 0
    /\ attempt' = 2
    /\ pc' = [pc EXCEPT ![c] = "scan"]
    /\ UNCHANGED <<static, bitmap, page_bitmap_index, total_allocated, pmm_lock,
                   num_pages, last, result, held>>

Retry(c) ==
    /\ pc[c] = "return"
    /\ result = 0
    /\ attempt = 1
    /\ page_bitmap_index' = 0
    /\ limit' = ScanLimit(2)
    /\ pages' = 0
    /\ attempt' = 2
    /\ pc' = [pc EXCEPT ![c] = "scan"]
    /\ UNCHANGED <<static, bitmap, total_allocated, pmm_lock, num_pages, last,
                   result, held>>

(* "Out of physical memory": the processor stops and keeps the lock. *)
OutOfMemory(c) ==
    /\ pc[c] = "return"
    /\ result = 0
    /\ attempt = 2
    /\ pc' = [pc EXCEPT ![c] = "panic"]
    /\ UNCHANGED <<static, bitmap, page_bitmap_index, total_allocated, pmm_lock,
                   num_pages, locals, held>>

(* The address is returned and the guard releases the lock. *)
ReturnCountsOnePage(c) ==
    /\ pc[c] = "return"
    /\ result # 0
    /\ total_allocated' = total_allocated + PageBytes
    /\ pmm_lock' = NoCPU
    /\ pc' = [pc EXCEPT ![c] = "idle"]
    /\ UNCHANGED <<static, bitmap, page_bitmap_index, num_pages, locals, held>>

Return(c) ==
    /\ pc[c] = "return"
    /\ result # 0
    /\ total_allocated' = total_allocated + num_pages[c] * PageBytes
    /\ pmm_lock' = NoCPU
    /\ pc' = [pc EXCEPT ![c] = "idle"]
    /\ UNCHANGED <<static, bitmap, page_bitmap_index, num_pages, locals, held>>

Step(c) ==
    \/ Acquire(c) \/ SpinOut(c)
    \/ ScanFree(c) \/ ScanTake(c) \/ ScanUsed(c) \/ ScanEnd(c)
    \/ Retry(c) \/ OutOfMemory(c) \/ Return(c)

Next == \E c \in CPUs : Step(c) \/ \E n \in Requests : Call(c, n)

Spec == Init /\ [][Next]_vars

(* A processor that runs goes on running; nothing forces a caller to call. The *)
(* spinlock is not fair: a waiting processor is only sure to get the lock when *)
(* it stays free.                                                              *)
FairSpec == Spec /\ \A c \in CPUs : WF_vars(Step(c))

-----------------------------------------------------------------------------
(* Properties *)

TypeOK ==
    /\ memmap \in MemMaps
    /\ m_size \in Nat /\ m_buffer \in Nat
    /\ bitmap \in [Pages -> BOOLEAN]
    /\ page_bitmap_index \in 0 .. m_size
    /\ total_usable_size \in Int /\ total_allocated \in Nat
    /\ pmm_lock \in CPUs \cup {NoCPU}
    /\ pc \in [CPUs -> {"idle", "spin", "scan", "return", "panic"}]
    /\ num_pages \in [CPUs -> Nat]
    /\ last \in 0 .. m_size /\ limit \in 0 .. m_size /\ pages \in Nat
    /\ attempt \in {1, 2} /\ result \in Nat
    /\ held \in [Pages -> Nat]

(* No page is part of two answers of alloc_pages: page tables, stacks and heap *)
(* pages never overlap, whichever processors asked for them.                   *)
NoPageGrantedTwice == \A p \in Pages : held[p] <= 1

(* Every page alloc_pages hands out is usable memory and holds no byte of the  *)
(* page bitmap. The one exception is the page whose bit Bitmap::fill misses.   *)
GrantsAreRam ==
    \A p \in Pages :
        held[p] > 0 =>
            \/ /\ InRam(memmap, p)
               /\ p \notin m_buffer .. (m_buffer + StoragePages(m_size) - 1)
            \/ p \in MissedByFill

(* n free pages in a row from page p. *)
FreeRun(p, n) == \A q \in p .. (p + n - 1) : q \in Pages /\ ~ bitmap[q]

(* When alloc_pages is about to panic with "Out of physical memory", no run of *)
(* the size asked for is free anywhere, although neither of its two scans      *)
(* looks at runs that cross the point where the first one began.               *)
OutOfMemoryIsReal ==
    \A c \in CPUs :
        pc[c] = "return" /\ result = 0 /\ attempt = 2 =>
            \A p \in Pages : ~ FreeRun(p, num_pages[c])

(* Free pages and the total_allocated the panic message reports add up to the  *)
(* usable memory (plus the page fill misses) whenever no call is in progress.  *)
MemoryIsAccounted ==
    pmm_lock = NoCPU =>
        LET stray == {p \in MissedByFill : ~ InRam(memmap, p) /\ (~ bitmap[p] \/ held[p] > 0)}
        IN  Cardinality({p \in Pages : ~ bitmap[p]}) * PageBytes + total_allocated
                = total_usable_size + Cardinality(stray) * PageBytes

(* A call ends, with pages or with a panic, although the spinlock lets others  *)
(* overtake: memory is finite and nothing is freed.                            *)
CallsEnd == \A c \in CPUs : pc[c] = "spin" ~> pc[c] \in {"idle", "panic"}

(* The bitmap, the cursor and the two scans implement PageAllocator: a page    *)
(* with a clear bit is free, and a call is granted when its run is marked.     *)
FreePages == {p \in Pages : ~ bitmap[p]}

StatusOf(c) ==
    CASE pc[c] = "idle" -> "idle"
      [] pc[c] = "panic" -> "stopped"
      [] pc[c] = "return" /\ result # 0 -> "granted"
      [] OTHER -> "asking"

CallStatus == [c \in CPUs |-> StatusOf(c)]

PA == INSTANCE PageAllocator WITH
        Clients <- CPUs,
        free <- FreePages,
        owners <- held,
        want <- num_pages,
        status <- CallStatus

(* alloc_pages as its callers see it: a request gets a run of adjacent pages   *)
(* that were free, or stops the machine when there is none.                    *)
ImplementsPageAllocator == PA!Spec

-----------------------------------------------------------------------------
(* The inductive invariant behind the safety properties. *)

LockInv ==
    \A c \in CPUs :
        /\ pc[c] \in {"scan", "return"} => pmm_lock = c
        /\ pmm_lock = c => pc[c] \in {"scan", "return", "panic"}
        /\ pc[c] # "idle" => num_pages[c] \in Requests

MarkInv ==
    /\ m_size > 0 /\ bitmap[0]
    /\ \A p \in Pages : held[p] <= 1 /\ (held[p] > 0 => bitmap[p])

(* The page before position i is in use, or there is none. *)
Edge(i) == i = 0 \/ bitmap[i - 1]

ScanStart == IF attempt = 1 THEN last ELSE 0

(* No run of n free pages lies between positions from and to. *)
NoRunIn(from, to, n) == \A p \in from .. to : p + n <= to => ~ FreeRun(p, n)

(* What a scan knows: the pages it counts are free, the count began at the     *)
(* scan's start or behind a page in use, and everything behind the cursor (in  *)
(* the second scan also everything the first one saw) holds no run.            *)
Scanned(c) ==
    /\ Edge(last)
    /\ limit = ScanLimit(attempt)
    /\ ScanStart <= page_bitmap_index - pages
    /\ page_bitmap_index <= limit
    /\ pages < num_pages[c]
    /\ \A q \in (page_bitmap_index - pages) .. (page_bitmap_index - 1) : ~ bitmap[q]
    /\ page_bitmap_index - pages = ScanStart \/ bitmap[page_bitmap_index - pages - 1]
    /\ NoRunIn(ScanStart, page_bitmap_index, num_pages[c])
    /\ attempt = 2 => NoRunIn(last, m_size, num_pages[c])

(* What a scan that found nothing has established. *)
Exhausted(c) ==
    /\ Edge(last)
    /\ NoRunIn(last, m_size, num_pages[c])
    /\ attempt = 2 => NoRunIn(0, last, num_pages[c])

ScanInv ==
    \A c \in CPUs :
        /\ pc[c] = "scan" => Scanned(c)
        /\ pc[c] = "return" /\ result = 0 => Exhausted(c)
        /\ pc[c] = "return" /\ result # 0 => Edge(page_bitmap_index)

(* Between calls the cursor stands behind a page in use or at the beginning,   *)
(* which is why two scans that split memory at the cursor miss nothing.        *)
CursorInv == pmm_lock = NoCPU => Edge(page_bitmap_index)

RamInv ==
    \A p \in Pages :
        ~ bitmap[p] \/ held[p] > 0 =>
            (InRam(memmap, p) /\ p \notin SelfReserved) \/ p \in MissedByFill

(* The strengthening that makes the safety properties of the scan inductive:   *)
(* who holds the lock, what the marks mean, what a scan has established.       *)
IndInv == TypeOK /\ LockInv /\ MarkInv /\ ScanInv /\ CursorInv /\ RamInv

=============================================================================
