----------------------------- MODULE PMM_proofs -----------------------------
(* Proofs about the physical memory manager, for every set of processors,      *)
(* every memory map the assumptions of PMM allow and every request size.       *)
EXTENDS PMM, FiniteSetTheorems, TLAPS

-----------------------------------------------------------------------------
(* What init computes. *)

(* The entry that ends the usable memory has a positive base, so the bitmap    *)
(* has a bit 0, and page 0 lies in no usable entry.                            *)
LEMMA MapFacts ==
    ASSUME NEW mm \in MemMaps, NEW n \in {EntryEnd(mm[i]) : i \in DOMAIN mm},
           IsLastUsable(mm, n)
    PROVE  /\ n \in Nat
           /\ n > 0
           /\ ~ InRam(mm, 0)
           /\ \A i \in DOMAIN mm : mm[i] \in MemMapEntry
           /\ StoragePages(n) = ReservedPages(n)
<1>1. mm \in Seq(MemMapEntry)
  BY MemMapsAssumption
<1>2. \A i \in DOMAIN mm : mm[i] \in MemMapEntry
  BY <1>1
<1>3. \A i \in DOMAIN mm : mm[i].usable => mm[i].base > 0
  BY MemMapsAssumption
<1>4. StoragePages(n) = ReservedPages(n)
  BY MemMapsAssumption
<1>5. PICK i \in DOMAIN mm : mm[i].usable /\ EntryEnd(mm[i]) = n
  BY DEF IsLastUsable
<1>6. mm[i].base \in Nat /\ mm[i].pages \in Nat /\ mm[i].base > 0
  BY <1>2, <1>3, <1>5 DEF MemMapEntry
<1>7. n \in Nat /\ n > 0
  BY <1>5, <1>6 DEF EntryEnd
<1>8. ~ InRam(mm, 0)
  BY <1>2, <1>3 DEF InRam, MemMapEntry
<1> QED BY <1>2, <1>4, <1>7, <1>8

(* The bitmap has at least one whole byte, so the bit Bitmap::fill misses is   *)
(* never the bit of page 0: an answer of 0 always means failure.               *)
LEMMA FirstByteIsWhole ==
    ASSUME NEW n \in Nat, n > 0, StoragePages(n) = ReservedPages(n)
    PROVE  n - (n % ByteBits) # 0
<1> SUFFICES ASSUME n % ByteBits = n PROVE FALSE
  BY GeometryAssumption
<1> DEFINE b == ByteBits
           p == PageBytes
<1>1. b \in Nat \ {0} /\ p \in Nat \ {0}
  BY GeometryAssumption
<1>2. n < b
  BY <1>1
<1>3. n \div b = 0
  BY <1>1, <1>2
<1>4. (n + b - 1) \div b = 1
  BY <1>1, <1>2
<1>5. (p - 1) \div p = 0 /\ p \div p = 1
  BY <1>1
<1>6. ReservedPages(n) = 0 /\ StoragePages(n) = 1
  BY <1>1, <1>3, <1>4, <1>5 DEF ReservedPages, StoragePages
<1> QED BY <1>6

(* The state init leaves satisfies the inductive invariant. *)
LEMMA InitIndInv == Init => IndInv
<1> SUFFICES ASSUME Init PROVE IndInv
  OBVIOUS
<1>1. /\ m_size \in Nat /\ m_size > 0 /\ ~ InRam(memmap, 0)
      /\ \A i \in DOMAIN memmap : memmap[i] \in MemMapEntry
      /\ memmap \in MemMaps
  BY MapFacts DEF Init
<1>2. PICK i \in DOMAIN memmap : m_buffer = memmap[i].base /\ memmap[i].usable
  BY DEF Init, HoldsBitmap
<1>3. m_buffer \in Nat /\ m_buffer > 0
  <2>1. m_buffer > 0
    BY <1>1, <1>2, MemMapsAssumption
  <2> QED BY <1>1, <1>2, <2>1 DEF MemMapEntry
<1>4. PICK junk \in BOOLEAN :
        bitmap = [p \in Pages |->
                    p \in SelfReserved \/ (~ InRam(memmap, p) /\ (p \in MissedByFill => junk))]
  BY DEF Init
<1>5. bitmap \in [Pages -> BOOLEAN]
  BY <1>4
<1>6. total_usable_size \in Int
  <2>1. ReservedPages(m_size) \in Int
    BY <1>1, GeometryAssumption DEF ReservedPages
  <2>2. Cardinality({p \in Pages : InRam(memmap, p)}) \in Nat
    <3>1. IsFiniteSet(Pages)
      BY <1>1, FS_Interval DEF Pages
    <3> QED BY <3>1, FS_Subset, FS_CardinalityType
  <2> QED BY <2>1, <2>2, GeometryAssumption DEF Init
<1>7. TypeOK
  BY <1>1, <1>3, <1>5, <1>6 DEF Init, TypeOK, Pages
<1>8. LockInv
  BY GeometryAssumption DEF Init, LockInv
<1>9. MarkInv
  <2>1. 0 \in Pages
    BY <1>1 DEF Pages
  <2>2. 0 \notin MissedByFill
    BY <1>1, MapFacts, FirstByteIsWhole DEF Init, MissedByFill
  <2> QED BY <1>1, <1>4, <2>1, <2>2 DEF Init, MarkInv
<1>10. ScanInv /\ CursorInv
  BY DEF Init, ScanInv, CursorInv, Edge
<1>11. RamInv
  BY <1>4 DEF Init, RamInv
<1> QED BY <1>7, <1>8, <1>9, <1>10, <1>11 DEF IndInv

-----------------------------------------------------------------------------
(* Every step preserves the inductive invariant. *)

(* Steps that leave the bitmap, the lock and the locals alone, and neither     *)
(* enter nor leave the section under the lock.                                 *)
LEMMA CallIndInv ==
    ASSUME IndInv, NEW c \in CPUs, NEW n \in Requests, Call(c, n)
    PROVE  IndInv'
<1> USE DEF IndInv, Call, static, locals
<1>1. TypeOK'
  BY GeometryAssumption DEF TypeOK, Pages
<1>2. LockInv'
  BY GeometryAssumption DEF LockInv, TypeOK
<1>3. MarkInv' /\ CursorInv' /\ RamInv'
  BY DEF MarkInv, CursorInv, RamInv, Edge, Pages, SelfReserved, MissedByFill
<1>4. ScanInv'
  BY DEF ScanInv, Scanned, Exhausted, ScanLimit, TypeOK, NoRunIn, FreeRun, Edge, Pages, ScanStart
<1> QED BY <1>1, <1>2, <1>3, <1>4

LEMMA SpinOutIndInv ==
    ASSUME IndInv, NEW c \in CPUs, SpinOut(c)
    PROVE  IndInv'
<1> USE DEF IndInv, SpinOut, static, locals
<1>1. TypeOK'
  BY DEF TypeOK, Pages
<1>2. LockInv'
  BY DEF LockInv, TypeOK
<1>3. MarkInv' /\ CursorInv' /\ RamInv'
  BY DEF MarkInv, CursorInv, RamInv, Edge, Pages, SelfReserved, MissedByFill
<1>4. ScanInv'
  BY DEF ScanInv, Scanned, Exhausted, ScanLimit, TypeOK, NoRunIn, FreeRun, Edge, Pages, ScanStart
<1> QED BY <1>1, <1>2, <1>3, <1>4

LEMMA OutOfMemoryIndInv ==
    ASSUME IndInv, NEW c \in CPUs, OutOfMemory(c)
    PROVE  IndInv'
<1> USE DEF IndInv, OutOfMemory, static, locals
<1>1. TypeOK'
  BY DEF TypeOK, Pages
<1>2. LockInv'
  BY DEF LockInv, TypeOK
<1>3. MarkInv' /\ CursorInv' /\ RamInv'
  BY DEF MarkInv, CursorInv, RamInv, Edge, Pages, SelfReserved, MissedByFill
<1>4. ScanInv'
  BY DEF ScanInv, Scanned, Exhausted, ScanLimit, TypeOK, NoRunIn, FreeRun, Edge, Pages, ScanStart
<1> QED BY <1>1, <1>2, <1>3, <1>4

LEMMA AcquireIndInv ==
    ASSUME IndInv, NEW c \in CPUs, Acquire(c)
    PROVE  IndInv'
<1> USE DEF IndInv, Acquire, ScanLimit, static
<1>1. TypeOK'
  BY DEF TypeOK, Pages
<1>2. LockInv'
  BY GeometryAssumption DEF LockInv, TypeOK
<1>3. MarkInv' /\ CursorInv' /\ RamInv'
  BY GeometryAssumption DEF MarkInv, CursorInv, RamInv, Edge, Pages, SelfReserved, MissedByFill
<1>4. ScanInv'
  <2>1. \A d \in CPUs : pc'[d] # "return" /\ (pc'[d] = "scan" => d = c)
    BY GeometryAssumption DEF LockInv, TypeOK
  <2>2. num_pages[c] \in Nat /\ num_pages[c] > 0
    BY GeometryAssumption DEF LockInv, TypeOK
  <2>3. NoRunIn(ScanStart, page_bitmap_index, num_pages[c])'
    BY <2>2 DEF NoRunIn, ScanStart, TypeOK
  <2>4. Scanned(c)'
    BY <2>2, <2>3 DEF CursorInv, Edge, Scanned, TypeOK, ScanStart
  <2> QED BY <2>1, <2>4 DEF ScanInv
<1> QED BY <1>1, <1>2, <1>3, <1>4

(* The steps of a scan. *)
LEMMA ScanFreeIndInv ==
    ASSUME IndInv, NEW c \in CPUs, ScanFree(c)
    PROVE  IndInv'
<1> USE DEF IndInv, ScanFree, ScanLimit, static
<1>0. /\ Scanned(c) /\ pmm_lock = c /\ pmm_lock # NoCPU
      /\ num_pages[c] \in Nat \ {0}
      /\ page_bitmap_index \in Nat /\ pages \in Nat /\ last \in Nat /\ m_size \in Nat
      /\ limit \in Nat /\ limit <= m_size /\ attempt \in {1, 2}
  BY GeometryAssumption DEF ScanInv, LockInv, TypeOK
<1>1. TypeOK'
  BY <1>0 DEF TypeOK, Pages
<1>2. LockInv'
  BY DEF LockInv, TypeOK
<1>3. MarkInv' /\ CursorInv' /\ RamInv'
  BY <1>0 DEF MarkInv, CursorInv, RamInv, Pages, SelfReserved, MissedByFill
<1>4. ScanInv'
  <2>1. \A d \in CPUs : pc'[d] \in {"scan", "return"} => d = c
    BY <1>0 DEF LockInv
  <2>2. NoRunIn(ScanStart, page_bitmap_index, num_pages[c])'
    <3> SUFFICES ASSUME NEW p \in ScanStart .. (page_bitmap_index + 1),
                        p + num_pages[c] <= page_bitmap_index + 1,
                        FreeRun(p, num_pages[c])
                 PROVE  FALSE
      BY DEF NoRunIn, ScanStart, FreeRun, Pages
    <3>1. p + num_pages[c] = page_bitmap_index + 1
      BY <1>0 DEF Scanned, NoRunIn, ScanStart
    <3>2. p < page_bitmap_index - pages
      BY <1>0, <3>1 DEF Scanned
    <3>3. page_bitmap_index - pages - 1 \in p .. (p + num_pages[c] - 1)
      BY <1>0, <3>1, <3>2 DEF ScanStart
    <3> QED BY <1>0, <3>2, <3>3 DEF FreeRun, Scanned
  <2>3. attempt = 2 => NoRunIn(last, m_size, num_pages[c])'
    BY <1>0 DEF Scanned, NoRunIn, FreeRun, Pages
  <2>4. Scanned(c)'
    BY <1>0, <2>2, <2>3 DEF Scanned, Edge, ScanStart
  <2> QED BY <2>1, <2>4 DEF ScanInv
<1> QED BY <1>1, <1>2, <1>3, <1>4

LEMMA ScanUsedIndInv ==
    ASSUME IndInv, NEW c \in CPUs, ScanUsed(c)
    PROVE  IndInv'
<1> USE DEF IndInv, ScanUsed, ScanLimit, static
<1>0. /\ Scanned(c) /\ pmm_lock = c /\ pmm_lock # NoCPU
      /\ num_pages[c] \in Nat \ {0}
      /\ page_bitmap_index \in Nat /\ pages \in Nat /\ last \in Nat /\ m_size \in Nat
      /\ limit \in Nat /\ limit <= m_size /\ attempt \in {1, 2}
  BY GeometryAssumption DEF ScanInv, LockInv, TypeOK
<1>1. TypeOK'
  BY <1>0 DEF TypeOK, Pages
<1>2. LockInv'
  BY DEF LockInv, TypeOK
<1>3. MarkInv' /\ CursorInv' /\ RamInv'
  BY <1>0 DEF MarkInv, CursorInv, RamInv, Pages, SelfReserved, MissedByFill
<1>4. ScanInv'
  <2>1. \A d \in CPUs : pc'[d] \in {"scan", "return"} => d = c
    BY <1>0 DEF LockInv
  <2>2. NoRunIn(ScanStart, page_bitmap_index, num_pages[c])'
    <3> SUFFICES ASSUME NEW p \in ScanStart .. (page_bitmap_index + 1),
                        p + num_pages[c] <= page_bitmap_index + 1,
                        FreeRun(p, num_pages[c])
                 PROVE  FALSE
      BY DEF NoRunIn, ScanStart, FreeRun, Pages
    <3>1. p + num_pages[c] = page_bitmap_index + 1
      BY <1>0 DEF Scanned, NoRunIn, ScanStart
    <3>2. page_bitmap_index \in p .. (p + num_pages[c] - 1)
      BY <1>0, <3>1 DEF ScanStart
    <3> QED BY <3>2 DEF FreeRun
  <2>3. attempt = 2 => NoRunIn(last, m_size, num_pages[c])'
    BY <1>0 DEF Scanned, NoRunIn, FreeRun, Pages
  <2>4. Scanned(c)'
    BY <1>0, <2>2, <2>3 DEF Scanned, Edge, ScanStart
  <2> QED BY <2>1, <2>4 DEF ScanInv
<1> QED BY <1>1, <1>2, <1>3, <1>4

LEMMA ScanTakeIndInv ==
    ASSUME IndInv, NEW c \in CPUs, ScanTake(c)
    PROVE  IndInv'
<1> USE DEF IndInv, ScanTake, static
<1>0. /\ Scanned(c) /\ pmm_lock = c /\ pmm_lock # NoCPU
      /\ num_pages[c] \in Nat \ {0}
      /\ page_bitmap_index \in Nat /\ pages \in Nat /\ last \in Nat /\ m_size \in Nat
      /\ limit \in Nat /\ limit <= m_size /\ attempt \in {1, 2}
  BY GeometryAssumption DEF ScanInv, LockInv, TypeOK
<1>b. bitmap' = [p \in Pages |-> bitmap[p] \/ p \in result' .. page_bitmap_index]
  BY DEF Mark, TypeOK
<1>1. result' = page_bitmap_index - pages /\ result' \in Nat
  BY <1>0 DEF Scanned, ScanStart
<1>2. \A p \in result' .. page_bitmap_index : p \in Pages /\ ~ bitmap[p]
  <2>1. \A q \in result' .. (page_bitmap_index - 1) : ~ bitmap[q]
    BY <1>0, <1>1 DEF Scanned
  <2>2. ~ bitmap[page_bitmap_index] /\ page_bitmap_index < m_size
    BY <1>0
  <2> HIDE DEF ScanTake
  <2> QED BY <1>0, <1>1, <2>1, <2>2 DEF Pages
<1>3. TypeOK'
  <2>1. bitmap' \in [Pages' -> BOOLEAN] /\ held' \in [Pages' -> Nat]
    <3>1. Pages' = Pages
      BY DEF Pages
    <3>2. bitmap' \in [Pages -> BOOLEAN]
      BY <1>b
    <3>3. held' \in [Pages -> Nat]
      BY DEF TypeOK
    <3> QED BY <3>1, <3>2, <3>3
  <2> QED BY <1>0, <1>1, <2>1 DEF TypeOK
<1>4. LockInv'
  BY DEF LockInv, TypeOK
<1>5. MarkInv'
  <2>1. Pages' = Pages /\ 0 \in Pages /\ m_size' > 0
    BY <1>0 DEF Pages, MarkInv
  <2>2. bitmap'[0]
    BY <1>b, <2>1 DEF MarkInv
  <2>3. ASSUME NEW p \in Pages
        PROVE  held'[p] <= 1 /\ (held'[p] > 0 => bitmap'[p])
    <3>1. CASE p \in result' .. page_bitmap_index
      <4>1. held[p] = 0
        BY <1>2, <3>1 DEF MarkInv, TypeOK
      <4>2. held'[p] = 1
        BY <3>1, <4>1
      <4>3. bitmap'[p]
        BY <1>b, <3>1
      <4> QED BY <4>2, <4>3
    <3>2. CASE p \notin result' .. page_bitmap_index
      <4>1. held'[p] = held[p] /\ (bitmap[p] => bitmap'[p])
        BY <1>b, <3>2
      <4> QED BY <4>1 DEF MarkInv
    <3> QED BY <3>1, <3>2
  <2> QED BY <2>1, <2>2, <2>3 DEF MarkInv
<1>6. CursorInv'
  BY <1>0 DEF CursorInv
<1>7. RamInv'
  BY <1>b, <1>2 DEF RamInv, TypeOK, Pages, SelfReserved, MissedByFill
<1>8. ScanInv'
  <2>1. \A d \in CPUs : pc'[d] \in {"scan", "return"} => d = c /\ pc'[d] = "return"
    BY <1>0 DEF LockInv, TypeOK
  <2>2. result' # 0
    BY <1>1, <1>2, <1>0 DEF MarkInv
  <2>3. Edge(page_bitmap_index)'
    <3>1. page_bitmap_index \in result' .. page_bitmap_index
      BY <1>0, <1>1
    <3>2. bitmap'[page_bitmap_index]
      BY <1>b, <1>2, <3>1
    <3>3. page_bitmap_index' - 1 = page_bitmap_index
      BY <1>0
    <3> QED BY <3>2, <3>3 DEF Edge
  <2> QED BY <2>1, <2>2, <2>3 DEF ScanInv
<1> QED BY <1>3, <1>4, <1>5, <1>6, <1>7, <1>8

LEMMA ScanEndIndInv ==
    ASSUME IndInv, NEW c \in CPUs, ScanEnd(c)
    PROVE  IndInv'
<1> USE DEF IndInv, ScanEnd, ScanLimit, static
<1>0. /\ Scanned(c) /\ pmm_lock = c /\ pmm_lock # NoCPU
      /\ page_bitmap_index \in Nat /\ pages \in Nat /\ last \in Nat /\ m_size \in Nat
      /\ limit \in Nat /\ limit <= m_size /\ attempt \in {1, 2}
  BY GeometryAssumption DEF ScanInv, LockInv, TypeOK
<1>1. TypeOK'
  BY DEF TypeOK, Pages
<1>2. LockInv'
  BY DEF LockInv, TypeOK
<1>3. MarkInv' /\ CursorInv' /\ RamInv'
  BY <1>0 DEF MarkInv, CursorInv, RamInv, Pages, SelfReserved, MissedByFill
<1>4. ScanInv'
  <2>1. \A d \in CPUs : pc'[d] \in {"scan", "return"} => d = c /\ pc'[d] = "return"
    BY <1>0 DEF LockInv, TypeOK
  <2>2. page_bitmap_index = limit
    BY <1>0 DEF Scanned
  <2>3. Exhausted(c)
    BY <1>0, <2>2 DEF Scanned, Exhausted, ScanStart
  <2>4. Exhausted(c)'
    BY <2>3 DEF Exhausted, Edge, NoRunIn, FreeRun, Pages
  <2> QED BY <2>1, <2>4 DEF ScanInv
<1> QED BY <1>1, <1>2, <1>3, <1>4

LEMMA RetryIndInv ==
    ASSUME IndInv, NEW c \in CPUs, Retry(c)
    PROVE  IndInv'
<1> USE DEF IndInv, Retry, ScanLimit, static
<1>0. /\ Exhausted(c) /\ pmm_lock = c /\ pmm_lock # NoCPU
      /\ num_pages[c] \in Nat \ {0}
      /\ last \in Nat /\ m_size \in Nat /\ last <= m_size
  BY GeometryAssumption DEF ScanInv, LockInv, TypeOK
<1>1. TypeOK'
  BY <1>0 DEF TypeOK, Pages
<1>2. LockInv'
  BY DEF LockInv, TypeOK
<1>3. MarkInv' /\ CursorInv' /\ RamInv'
  BY <1>0 DEF MarkInv, CursorInv, RamInv, Pages, SelfReserved, MissedByFill
<1>4. ScanInv'
  <2>1. \A d \in CPUs : pc'[d] \in {"scan", "return"} => d = c /\ pc'[d] = "scan"
    BY <1>0 DEF LockInv, TypeOK
  <2>2. NoRunIn(last, m_size, num_pages[c])'
    BY <1>0 DEF Exhausted, NoRunIn, FreeRun, Pages
  <2>3. NoRunIn(ScanStart, page_bitmap_index, num_pages[c])'
    BY <1>0 DEF NoRunIn, ScanStart
  <2>4. Edge(last)'
    BY <1>0 DEF Exhausted, Edge
  <2>5. Scanned(c)'
    BY <1>0, <2>2, <2>3, <2>4 DEF Scanned, ScanStart
  <2> QED BY <2>1, <2>5 DEF ScanInv
<1> QED BY <1>1, <1>2, <1>3, <1>4

LEMMA ReturnIndInv ==
    ASSUME IndInv, NEW c \in CPUs, Return(c)
    PROVE  IndInv'
<1> USE DEF IndInv, Return, static, locals
<1>0. Edge(page_bitmap_index) /\ pmm_lock = c
  BY DEF ScanInv, LockInv
<1>1. TypeOK'
  BY GeometryAssumption DEF TypeOK, Pages
<1>2. LockInv'
  BY <1>0, GeometryAssumption DEF LockInv, TypeOK
<1>3. MarkInv' /\ CursorInv' /\ RamInv'
  BY <1>0 DEF MarkInv, CursorInv, RamInv, Edge, Pages, SelfReserved, MissedByFill
<1>4. ScanInv'
  BY <1>0, GeometryAssumption DEF ScanInv, LockInv, TypeOK
<1> QED BY <1>1, <1>2, <1>3, <1>4

(* The inductive step: one case per action. *)
LEMMA NextIndInv == IndInv /\ [Next]_vars => IndInv'
<1> SUFFICES ASSUME IndInv, [Next]_vars PROVE IndInv'
  OBVIOUS
<1>1. CASE UNCHANGED vars
  BY <1>1 DEF vars, static, locals, IndInv, TypeOK, LockInv, MarkInv, ScanInv, CursorInv,
              RamInv, Scanned, Exhausted, ScanLimit, NoRunIn, FreeRun, Edge, ScanStart, Pages,
              SelfReserved, MissedByFill
<1>2. ASSUME NEW c \in CPUs, Step(c) PROVE IndInv'
  BY <1>2, AcquireIndInv, SpinOutIndInv, ScanFreeIndInv, ScanTakeIndInv, ScanUsedIndInv,
     ScanEndIndInv, RetryIndInv, OutOfMemoryIndInv, ReturnIndInv DEF Step
<1>3. ASSUME NEW c \in CPUs, NEW n \in Requests, Call(c, n) PROVE IndInv'
  BY <1>3, CallIndInv
<1> QED BY <1>1, <1>2, <1>3 DEF Next

(* Every reachable state of alloc_pages satisfies the inductive invariant. *)
THEOREM Invariance == Spec => []IndInv
  BY InitIndInv, NextIndInv, PTL DEF Spec

-----------------------------------------------------------------------------
(* What follows from it. *)

(* The cursor of alloc_pages, its scans and its counters stay in range.       *)
THEOREM Types == Spec => []TypeOK
<1>1. IndInv => TypeOK
  BY DEF IndInv
<1> QED BY Invariance, <1>1, PTL

(* alloc_pages never hands out a page twice. *)
THEOREM GrantedOnce == Spec => []NoPageGrantedTwice
<1>1. IndInv => NoPageGrantedTwice
  BY DEF IndInv, MarkInv, NoPageGrantedTwice
<1> QED BY Invariance, <1>1, PTL

(* alloc_pages hands out usable memory that holds no byte of the page bitmap,  *)
(* apart from the one page whose bit Bitmap::fill misses.                      *)
THEOREM GrantsRam == Spec => []GrantsAreRam
<1> DEFINE Sized == StoragePages(m_size) = ReservedPages(m_size)
<1>1. Init => Sized
  BY MapFacts DEF Init
<1>2. Sized /\ [Next]_vars => Sized'
  <2> SUFFICES ASSUME Sized, [Next]_vars PROVE m_size' = m_size
    BY DEF StoragePages, ReservedPages
  <2> QED BY DEF Next, Step, vars, static, Call, Acquire, SpinOut, ScanFree, ScanTake,
                ScanUsed, ScanEnd, Retry, OutOfMemory, Return
<1>3. IndInv /\ Sized => GrantsAreRam
  BY DEF IndInv, RamInv, GrantsAreRam, SelfReserved
<1> QED BY Invariance, <1>1, <1>2, <1>3, PTL DEF Spec

(* A state in which both scans have failed holds no run of the size asked for: *)
(* a run inside either part was ruled out by a scan, and a run across the      *)
(* point that divides them would contain the page in use before that point.    *)
LEMMA ExhaustedMeansNone ==
    ASSUME IndInv, NEW c \in CPUs, pc[c] = "return", result = 0, attempt = 2,
           NEW p \in Pages
    PROVE  ~ FreeRun(p, num_pages[c])
<1> SUFFICES ASSUME FreeRun(p, num_pages[c]) PROVE FALSE
  OBVIOUS
<1> DEFINE n == num_pages[c]
<1>1. /\ Exhausted(c) /\ n \in Nat \ {0} /\ last \in Nat /\ m_size \in Nat
      /\ last <= m_size /\ p \in Nat /\ p < m_size
  BY GeometryAssumption DEF IndInv, ScanInv, LockInv, TypeOK, Pages
<1>2. p + n <= m_size
  <2>1. p + n - 1 \in p .. (p + n - 1)
    BY <1>1
  <2>2. p + n - 1 \in Pages
    BY <2>1 DEF FreeRun
  <2> QED BY <1>1, <2>2 DEF Pages
<1>3. CASE p >= last
  BY <1>1, <1>2, <1>3 DEF Exhausted, NoRunIn
<1>4. CASE p + n <= last
  BY <1>1, <1>4 DEF Exhausted, NoRunIn
<1>5. CASE p < last /\ last < p + n
  <2>1. last - 1 \in p .. (p + n - 1)
    BY <1>1, <1>5
  <2>2. ~ bitmap[last - 1]
    BY <2>1 DEF FreeRun
  <2>3. last # 0
    BY <1>1, <1>5
  <2> QED BY <1>1, <2>2, <2>3 DEF Exhausted, Edge
<1> QED BY <1>1, <1>3, <1>4, <1>5

(* "Out of physical memory" is only ever reported when there is no run of the  *)
(* size asked for.                                                             *)
THEOREM PanicIsJustified == Spec => []OutOfMemoryIsReal
<1>1. IndInv => OutOfMemoryIsReal
  BY ExhaustedMeansNone DEF OutOfMemoryIsReal
<1> QED BY Invariance, <1>1, PTL

-----------------------------------------------------------------------------
(* Refinement: alloc_pages implements PageAllocator. *)

(* The steps of a call that its client does not see. *)
LEMMA HiddenStep ==
    ASSUME IndInv, NEW c \in CPUs,
           Acquire(c) \/ ScanFree(c) \/ ScanUsed(c) \/ ScanEnd(c) \/ Retry(c)
    PROVE  UNCHANGED PA!vars
<1>1. \A d \in CPUs : d # c => pc'[d] = pc[d] /\ pc[d] # "return"
  BY GeometryAssumption
     DEF IndInv, TypeOK, LockInv, Acquire, ScanFree, ScanUsed, ScanEnd, Retry
<1>2. \A d \in CPUs : StatusOf(d)' = StatusOf(d)
  <2>1. \A d \in CPUs : d # c => StatusOf(d)' = StatusOf(d)
    BY <1>1 DEF StatusOf
  <2>2. StatusOf(c) = "asking" /\ StatusOf(c)' = "asking"
    BY DEF IndInv, TypeOK, StatusOf, Acquire, ScanFree, ScanUsed, ScanEnd, Retry
  <2> QED BY <2>1, <2>2
<1>3. CallStatus' = CallStatus
  BY <1>2 DEF CallStatus
<1>4. FreePages' = FreePages /\ held' = held /\ num_pages' = num_pages
  BY DEF FreePages, Pages, static, Acquire, ScanFree, ScanUsed, ScanEnd, Retry
<1> QED BY <1>3, <1>4 DEF PA!vars

LEMMA CallIsAsk ==
    ASSUME IndInv, NEW c \in CPUs, NEW n \in Requests, Call(c, n)
    PROVE  PA!Ask(c, n)
<1>1. StatusOf(c) = "idle" /\ StatusOf(c)' = "asking"
  BY DEF IndInv, TypeOK, StatusOf, Call
<1>2. \A d \in CPUs : d # c => StatusOf(d)' = StatusOf(d)
  BY DEF IndInv, TypeOK, StatusOf, Call, locals
<1>3. CallStatus' = [CallStatus EXCEPT ![c] = "asking"] /\ CallStatus[c] = "idle"
  BY <1>1, <1>2 DEF CallStatus
<1>4. FreePages' = FreePages /\ held' = held
  BY DEF FreePages, Pages, Call, static
<1> QED BY <1>3, <1>4 DEF PA!Ask, Call

LEMMA TakeIsGrant ==
    ASSUME IndInv, NEW c \in CPUs, ScanTake(c)
    PROVE  PA!Grant(c)
<1> USE DEF ScanTake
<1>0. /\ Scanned(c) /\ pmm_lock = c /\ c # NoCPU
      /\ num_pages[c] \in Nat \ {0}
      /\ page_bitmap_index \in Nat /\ pages \in Nat /\ last \in Nat /\ m_size \in Nat
      /\ limit \in Nat /\ limit <= m_size /\ attempt \in {1, 2}
  BY GeometryAssumption DEF IndInv, ScanInv, LockInv, TypeOK
<1>b. bitmap' = [p \in Pages |-> bitmap[p] \/ p \in result' .. page_bitmap_index]
  BY DEF Mark, IndInv, TypeOK
<1>1. /\ result' = page_bitmap_index - pages /\ result' \in Nat
      /\ PA!Run(result', num_pages[c]) = result' .. page_bitmap_index
  <2>1. result' = page_bitmap_index - pages /\ result' \in Nat
    BY <1>0 DEF Scanned, ScanStart
  <2>2. result' + num_pages[c] - 1 = page_bitmap_index
    BY <1>0, <2>1
  <2> QED BY <2>1, <2>2 DEF PA!Run
<1>2. \A p \in result' .. page_bitmap_index : p \in Pages /\ ~ bitmap[p]
  BY <1>0, <1>1 DEF Scanned, Pages
<1>3. result' # 0
  BY <1>0, <1>1, <1>2 DEF IndInv, MarkInv
<1>4. StatusOf(c) = "asking" /\ StatusOf(c)' = "granted"
  BY <1>3 DEF IndInv, TypeOK, StatusOf
<1>5. \A d \in CPUs : d # c => StatusOf(d)' = StatusOf(d)
  BY <1>0 DEF IndInv, TypeOK, LockInv, StatusOf
<1>6. CallStatus' = [CallStatus EXCEPT ![c] = "granted"] /\ CallStatus[c] = "asking"
  BY <1>4, <1>5 DEF CallStatus
<1>7. PA!Run(result', num_pages[c]) \subseteq FreePages /\ result' \in FreePages
  BY <1>0, <1>1, <1>2 DEF FreePages
<1>8. FreePages' = FreePages \ PA!Run(result', num_pages[c])
  BY <1>b, <1>1 DEF FreePages, Pages, static
<1>9. held' = [q \in DOMAIN held |->
                 IF q \in PA!Run(result', num_pages[c]) THEN held[q] + 1 ELSE held[q]]
  BY <1>1 DEF IndInv, TypeOK
<1> QED BY <1>6, <1>7, <1>8, <1>9 DEF PA!Grant

LEMMA ReturnIsDone ==
    ASSUME IndInv, NEW c \in CPUs, Return(c)
    PROVE  PA!Done(c)
<1>1. StatusOf(c) = "granted" /\ StatusOf(c)' = "idle"
  BY DEF IndInv, TypeOK, StatusOf, Return
<1>2. \A d \in CPUs : d # c => StatusOf(d)' = StatusOf(d)
  BY DEF IndInv, TypeOK, StatusOf, Return, locals
<1>3. CallStatus' = [CallStatus EXCEPT ![c] = "idle"] /\ CallStatus[c] = "granted"
  BY <1>1, <1>2 DEF CallStatus
<1>4. FreePages' = FreePages
  BY DEF FreePages, Pages, Return, static
<1> QED BY <1>3, <1>4 DEF PA!Done, Return

LEMMA PanicIsStop ==
    ASSUME IndInv, NEW c \in CPUs, OutOfMemory(c) \/ SpinOut(c)
    PROVE  PA!Stop(c)
<1>1. StatusOf(c) = "asking" /\ StatusOf(c)' = "stopped"
  BY DEF IndInv, TypeOK, StatusOf, OutOfMemory, SpinOut
<1>2. \A d \in CPUs : d # c => StatusOf(d)' = StatusOf(d)
  BY DEF IndInv, TypeOK, StatusOf, OutOfMemory, SpinOut, locals
<1>3. CallStatus' = [CallStatus EXCEPT ![c] = "stopped"] /\ CallStatus[c] = "asking"
  BY <1>1, <1>2 DEF CallStatus
<1>4. FreePages' = FreePages /\ held' = held /\ num_pages' = num_pages
  BY DEF FreePages, Pages, OutOfMemory, SpinOut, static
<1>5. \/ \A p \in FreePages : ~ (PA!Run(p, num_pages[c]) \subseteq FreePages)
      \/ \E d \in CPUs : CallStatus[d] = "stopped"
  <2>1. CASE OutOfMemory(c)
    BY <2>1, ExhaustedMeansNone DEF OutOfMemory, FreePages, FreeRun, PA!Run
  <2>2. CASE SpinOut(c)
    BY <2>2 DEF SpinOut, CallStatus, StatusOf, IndInv, TypeOK
  <2> QED BY <2>1, <2>2
<1> QED BY <1>3, <1>4, <1>5 DEF PA!Stop

(* mem::pmm implements PageAllocator: each of its states maps to a state of    *)
(* the abstract allocator and each of its steps to a step of it or to none.    *)
THEOREM Refinement == Spec => ImplementsPageAllocator
<1>1. Init => PA!Init
  <2> SUFFICES ASSUME Init PROVE PA!Init
    OBVIOUS
  <2>1. FreePages \subseteq DOMAIN held /\ \A p \in DOMAIN held : held[p] = 0
    BY DEF Init, FreePages
  <2>2. CallStatus = [c \in CPUs |-> "idle"]
    BY DEF Init, CallStatus, StatusOf
  <2> QED BY <2>1, <2>2 DEF Init, PA!Init
<1>2. IndInv /\ [Next]_vars => [PA!Next]_(PA!vars)
  <2> SUFFICES ASSUME IndInv, [Next]_vars PROVE [PA!Next]_(PA!vars)
    OBVIOUS
  <2>1. CASE UNCHANGED vars
    BY <2>1 DEF vars, static, locals, PA!vars, FreePages, Pages, CallStatus, StatusOf
  <2>2. ASSUME NEW c \in CPUs, Step(c) PROVE [PA!Next]_(PA!vars)
    <3>1. CASE Acquire(c) \/ ScanFree(c) \/ ScanUsed(c) \/ ScanEnd(c) \/ Retry(c)
      BY <3>1, HiddenStep
    <3>2. CASE ScanTake(c)
      BY <3>2, TakeIsGrant DEF PA!Next
    <3>3. CASE Return(c)
      BY <3>3, ReturnIsDone DEF PA!Next
    <3>4. CASE OutOfMemory(c) \/ SpinOut(c)
      BY <3>4, PanicIsStop DEF PA!Next
    <3> QED BY <2>2, <3>1, <3>2, <3>3, <3>4 DEF Step
  <2>3. ASSUME NEW c \in CPUs, NEW n \in Requests, Call(c, n) PROVE PA!Next
    BY <2>3, CallIsAsk DEF PA!Next
  <2> QED BY <2>1, <2>2, <2>3 DEF Next
<1> QED BY Invariance, <1>1, <1>2, PTL DEF Spec, PA!Spec, ImplementsPageAllocator

-----------------------------------------------------------------------------
(* The accounts. *)

Ram == {p \in Pages : InRam(memmap, p)}
Stray == {p \in MissedByFill : ~ InRam(memmap, p) /\ (~ bitmap[p] \/ held[p] > 0)}

(* Pages that are marked and that total_allocated does not count yet. *)
Answering(c) == pc[c] = "return" /\ result # 0
Pending == IF \E c \in CPUs : Answering(c) THEN num_pages[pmm_lock] ELSE 0

(* Counted in pages, so that no product is in it: a is what was returned.      *)
CountInv ==
    /\ total_usable_size = (Cardinality(Ram) - ReservedPages(m_size)) * PageBytes
    /\ \E a \in Nat :
         /\ total_allocated = a * PageBytes
         /\ Cardinality(FreePages) + Pending + a
              = Cardinality(Ram) - ReservedPages(m_size) + Cardinality(Stray)

(* The pages that hold the bitmap are as many as init says and all in the      *)
(* entry that init chose, because that entry has as many bytes as the bitmap.  *)
LEMMA ReservedFits ==
    ASSUME NEW n \in Nat, NEW k \in Nat, k * PageBytes >= n \div ByteBits
    PROVE  ReservedPages(n) \in Nat /\ ReservedPages(n) <= k
<1> DEFINE b == n \div ByteBits
           m == b + PageBytes - 1
           q == m \div PageBytes
<1>0. PageBytes \in Nat /\ PageBytes > 0 /\ ByteBits \in Nat /\ ByteBits > 0
  BY GeometryAssumption
<1>1. b \in Nat /\ k * PageBytes >= b /\ ReservedPages(n) = q
  BY <1>0 DEF ReservedPages
<1> HIDE DEF b
<1>2. m \in Nat /\ m < k * PageBytes + PageBytes
  <2>1. k * PageBytes \in Nat
    BY <1>0
  <2> QED BY <1>0, <1>1, <2>1
<1> HIDE DEF m
<1>3. q \in Nat /\ PageBytes * q <= m
  <2>1. m % PageBytes \in Nat /\ q \in Nat
    BY <1>0, <1>2
  <2>2. m = PageBytes * q + (m % PageBytes)
    BY <1>0, <1>2
  <2>3. PageBytes * q \in Nat
    BY <1>0, <2>1
  <2> QED BY <1>2, <2>1, <2>2, <2>3
<1> HIDE DEF q
<1>4. ASSUME q > k PROVE FALSE
  <2>1. PICK d \in Nat : q = k + 1 + d
    <3>1. q - k - 1 \in Nat /\ q = k + 1 + (q - k - 1)
      BY <1>3, <1>4
    <3> QED BY <3>1
  <2>2. PageBytes * q = k * PageBytes + PageBytes + PageBytes * d
    BY <1>0, <2>1
  <2>3. PageBytes * d \in Nat /\ k * PageBytes \in Nat
    BY <1>0, <2>1
  <2> QED BY <1>0, <1>2, <1>3, <2>2, <2>3
<1> QED BY <1>1, <1>3, <1>4

LEMMA FiniteParts ==
    ASSUME TypeOK
    PROVE  /\ IsFiniteSet(Pages) /\ IsFiniteSet(Ram) /\ IsFiniteSet(FreePages) /\ IsFiniteSet(MissedByFill)
           /\ IsFiniteSet(Stray)
           /\ Cardinality(Ram) \in Nat /\ Cardinality(FreePages) \in Nat /\ Cardinality(Stray) \in Nat
<1>1. IsFiniteSet(Pages)
  BY FS_Interval DEF Pages, TypeOK
<1>2. IsFiniteSet(Ram) /\ IsFiniteSet(FreePages)
  <2>1. Ram \in SUBSET Pages /\ FreePages \in SUBSET Pages
    BY DEF Ram, FreePages
  <2> QED BY <1>1, <2>1, FS_Subset
<1>3. IsFiniteSet(MissedByFill)
  BY FS_EmptySet, FS_Singleton DEF MissedByFill
<1>4. IsFiniteSet(Stray)
  <2>1. Stray \in SUBSET MissedByFill
    BY DEF Stray
  <2> QED BY <1>3, <2>1, FS_Subset
<1> QED BY <1>1, <1>2, <1>3, <1>4, FS_CardinalityType

LEMMA InitCounts ==
    ASSUME Init
    PROVE  CountInv
<1>1. TypeOK
  BY InitIndInv DEF IndInv
<1>2. /\ m_size \in Nat /\ m_size > 0 /\ memmap \in MemMaps
      /\ \A i \in DOMAIN memmap : memmap[i] \in MemMapEntry
  BY MapFacts DEF Init
<1>3. PICK i \in DOMAIN memmap : m_buffer = memmap[i].base /\ HoldsBitmap(memmap[i], m_size)
  BY DEF Init
<1>4. PICK junk \in BOOLEAN :
        bitmap = [p \in Pages |->
                    p \in SelfReserved \/ (~ InRam(memmap, p) /\ (p \in MissedByFill => junk))]
  BY DEF Init
<1>5. memmap[i].base \in Nat /\ memmap[i].pages \in Nat /\ memmap[i].usable
      /\ EntryEnd(memmap[i]) <= m_size
  BY <1>2, <1>3 DEF MemMapEntry, HoldsBitmap, Init, IsLastUsable
<1>6. ReservedPages(m_size) \in Nat /\ ReservedPages(m_size) <= memmap[i].pages
  BY <1>2, <1>3, <1>5, ReservedFits DEF HoldsBitmap
<1>7. SelfReserved \subseteq Ram
  <2> SUFFICES ASSUME NEW p \in SelfReserved PROVE p \in Ram
    OBVIOUS
  <2>1. p \in Nat /\ memmap[i].base <= p /\ p < EntryEnd(memmap[i])
    BY <1>3, <1>5, <1>6 DEF SelfReserved, EntryEnd
  <2>2. InRam(memmap, p)
    BY <1>5, <2>1 DEF InRam
  <2>3. EntryEnd(memmap[i]) \in Nat
    BY <1>5 DEF EntryEnd
  <2>4. p \in Pages
    BY <1>2, <1>5, <2>1, <2>3 DEF Pages
  <2> QED BY <2>2, <2>4 DEF Ram
<1>8. IsFiniteSet(SelfReserved) /\ Cardinality(SelfReserved) = ReservedPages(m_size)
  <2>1. m_buffer \in Int /\ m_buffer + ReservedPages(m_size) - 1 \in Int
    BY <1>3, <1>5, <1>6
  <2> QED BY <1>6, <2>1, FS_Interval DEF SelfReserved
<1>9. MissedByFill \subseteq Pages
  <2>1. ByteBits \in Nat /\ ByteBits > 0
    BY GeometryAssumption
  <2>2. m_size % ByteBits \in Nat /\ m_size % ByteBits <= m_size
    BY <1>2, <2>1
  <2>3. m_size % ByteBits # 0 => m_size - (m_size % ByteBits) \in Pages
    BY <1>2, <2>2 DEF Pages
  <2> QED BY <2>3 DEF MissedByFill
<1>10. \A p \in Pages : held[p] = 0
  BY DEF Init
<1>11. FreePages = (Ram \ SelfReserved) \cup Stray /\ (Ram \ SelfReserved) \cap Stray = {}
  <2>1. ASSUME NEW p \in Pages
        PROVE  p \in FreePages <=> p \in Ram \ SelfReserved \/ p \in Stray
    <3>1. bitmap[p] = (p \in SelfReserved \/ (~ InRam(memmap, p) /\ (p \in MissedByFill => junk)))
      BY <1>4, <2>1
    <3>2. ~ (held[p] > 0)
      BY <1>10, <2>1
    <3>3. p \in FreePages <=> ~ bitmap[p]
      BY <2>1 DEF FreePages
    <3>4. p \in Ram <=> InRam(memmap, p)
      BY <2>1 DEF Ram
    <3>5. p \in Stray <=> p \in MissedByFill /\ ~ InRam(memmap, p) /\ ~ bitmap[p]
      BY <3>2, Zenon DEF Stray
    <3> QED BY <1>7, <3>1, <3>3, <3>4, <3>5, Zenon
  <2>2. FreePages \subseteq Pages /\ Ram \subseteq Pages /\ Stray \subseteq Pages
    BY <1>9 DEF FreePages, Ram, Stray
  <2>3. (Ram \ SelfReserved) \cap Stray = {}
    BY DEF Ram, Stray
  <2> QED BY <2>1, <2>2, <2>3
<1>12. Cardinality(Ram \ SelfReserved) = Cardinality(Ram) - ReservedPages(m_size)
       /\ IsFiniteSet(Ram \ SelfReserved)
  <2>1. Ram \cap SelfReserved = SelfReserved
    BY <1>7
  <2>2. IsFiniteSet(Ram)
    BY <1>1, FiniteParts
  <2>3. /\ IsFiniteSet(Ram \ SelfReserved)
        /\ Cardinality(Ram \ SelfReserved) = Cardinality(Ram) - Cardinality(Ram \cap SelfReserved)
    BY <2>2, FS_Difference
  <2> QED BY <1>8, <2>1, <2>3
<1>13. Cardinality(FreePages) = Cardinality(Ram) - ReservedPages(m_size) + Cardinality(Stray)
  <2>1. Cardinality(FreePages) = Cardinality(Ram \ SelfReserved) + Cardinality(Stray) - Cardinality({})
    BY <1>1, <1>11, <1>12, FiniteParts, FS_Union
  <2> QED BY <1>1, <1>6, <1>12, <2>1, FiniteParts, FS_EmptySet
<1>14. Pending = 0
  BY DEF Init, Pending, Answering
<1>15. total_allocated = 0 * PageBytes
  BY GeometryAssumption DEF Init
<1>16. Cardinality(FreePages) + Pending + 0
         = Cardinality(Ram) - ReservedPages(m_size) + Cardinality(Stray)
  BY <1>1, <1>13, <1>14, FiniteParts
<1> QED BY <1>15, <1>16 DEF CountInv, Init, Ram

(* At most one call is answering, the one that holds the lock. *)
LEMMA PendingFacts ==
    ASSUME IndInv
    PROVE  /\ \A c \in CPUs : Answering(c) => pmm_lock = c /\ Pending = num_pages[c]
           /\ (\A c \in CPUs : ~ Answering(c)) => Pending = 0
           /\ Pending \in Nat
<1>1. \A c \in CPUs : Answering(c) => pmm_lock = c
  BY DEF IndInv, LockInv, Answering
<1>2. \A c \in CPUs : Answering(c) => Pending = num_pages[c]
  BY <1>1 DEF Pending
<1>3. (\A c \in CPUs : ~ Answering(c)) => Pending = 0
  BY DEF Pending
<1>4. \A c \in CPUs : num_pages[c] \in Nat
  BY DEF IndInv, TypeOK
<1> QED BY <1>1, <1>2, <1>3, <1>4

(* A step that marks nothing and returns nothing leaves the accounts alone.    *)
LEMMA QuietCounts ==
    ASSUME CountInv, UNCHANGED <<static, bitmap, held, total_allocated>>, Pending' = Pending
    PROVE  CountInv'
<1>1. /\ UNCHANGED <<memmap, m_size, total_usable_size, bitmap, held, total_allocated>>
      /\ Ram' = Ram /\ FreePages' = FreePages /\ Stray' = Stray
      /\ ReservedPages(m_size)' = ReservedPages(m_size)
  BY DEF static, Ram, FreePages, Stray, Pages, MissedByFill, InRam, ReservedPages
<1>2. PICK a \in Nat :
        /\ total_allocated = a * PageBytes
        /\ Cardinality(FreePages) + Pending + a
             = Cardinality(Ram) - ReservedPages(m_size) + Cardinality(Stray)
  BY DEF CountInv
<1>3. /\ total_allocated' = a * PageBytes
      /\ Cardinality(FreePages') + Pending' + a
           = Cardinality(Ram') - ReservedPages(m_size)' + Cardinality(Stray')
  BY <1>1, <1>2
<1>4. total_usable_size' = (Cardinality(Ram') - ReservedPages(m_size)') * PageBytes
  BY <1>1 DEF CountInv
<1> QED BY <1>3, <1>4 DEF CountInv

LEMMA QuietStep ==
    ASSUME IndInv, IndInv', NEW c \in CPUs,
           \/ Acquire(c) \/ SpinOut(c) \/ ScanFree(c) \/ ScanUsed(c) \/ ScanEnd(c)
           \/ Retry(c) \/ OutOfMemory(c) \/ \E n \in Requests : Call(c, n)
    PROVE  UNCHANGED <<static, bitmap, held, total_allocated>> /\ Pending' = Pending
<1> USE DEF Acquire, SpinOut, ScanFree, ScanUsed, ScanEnd, Retry, OutOfMemory, Call
<1>1. UNCHANGED <<static, bitmap, held, total_allocated>>
  OBVIOUS
<1>2. ~ Answering(c) /\ ~ Answering(c)'
  BY DEF IndInv, TypeOK, Answering
<1>3. ASSUME NEW d \in CPUs, d # c, Answering(d) \/ Answering(d)'
      PROVE  Answering(d) /\ Answering(d)' /\ num_pages'[d] = num_pages[d]
  <2>1. pc'[d] = pc[d] /\ num_pages'[d] = num_pages[d]
    BY <1>3 DEF IndInv, TypeOK
  <2>2. pc[d] = "return"
    BY <1>3, <2>1 DEF Answering
  <2>3. pmm_lock = d
    BY <2>2 DEF IndInv, LockInv
  <2>4. pc[c] \notin {"scan", "return"} /\ d # NoCPU
    BY <1>3, <2>3, GeometryAssumption DEF IndInv, LockInv
  <2>5. result' = result
    BY <2>3, <2>4 DEF locals
  <2> QED BY <1>3, <2>1, <2>5 DEF Answering
<1>4. CASE \E d \in CPUs : Answering(d)
  <2>1. PICK d \in CPUs : Answering(d)
    BY <1>4
  <2>2. d # c /\ Answering(d)' /\ num_pages'[d] = num_pages[d]
    BY <1>2, <1>3, <2>1
  <2>3. Pending = num_pages[d]
    BY <2>1, PendingFacts
  <2>4. pmm_lock' = d
    BY <2>2 DEF IndInv, LockInv, Answering
  <2>5. Pending' = num_pages'[d]
    BY <2>2, <2>4 DEF Pending
  <2> QED BY <1>1, <2>2, <2>3, <2>5
<1>5. CASE \A d \in CPUs : ~ Answering(d)
  <2>1. \A d \in CPUs : ~ Answering(d)'
    BY <1>2, <1>3, <1>5
  <2>2. Pending' = 0
    BY <2>1 DEF Pending
  <2> QED BY <1>1, <1>5, <2>2, PendingFacts
<1> QED BY <1>4, <1>5

(* The run that is marked leaves the free pages and is pending.                *)
LEMMA TakeCounts ==
    ASSUME IndInv, IndInv', CountInv, NEW c \in CPUs, ScanTake(c)
    PROVE  CountInv'
<1> DEFINE run == result' .. page_bitmap_index
<1>0. /\ Scanned(c) /\ pmm_lock = c /\ pmm_lock' = c
      /\ num_pages[c] \in Nat \ {0} /\ num_pages' = num_pages
      /\ page_bitmap_index \in Nat /\ pages \in Nat /\ last \in Nat /\ m_size \in Nat
      /\ limit \in Nat /\ limit <= m_size /\ attempt \in {1, 2}
      /\ pc[c] = "scan" /\ pc'[c] = "return"
  BY GeometryAssumption DEF ScanTake, IndInv, ScanInv, LockInv, TypeOK
<1>1. UNCHANGED <<memmap, m_size, total_usable_size, total_allocated>>
  BY DEF ScanTake, static
<1>2. bitmap' = [p \in Pages |-> bitmap[p] \/ p \in run]
  BY DEF ScanTake, Mark, IndInv, TypeOK
<1>3. /\ result' = page_bitmap_index - pages /\ result' \in Nat
      /\ page_bitmap_index - result' + 1 = num_pages[c] /\ result' <= page_bitmap_index
  <2>1. result' = (page_bitmap_index + 1) - num_pages[c] /\ pages + 1 = num_pages[c]
    <3>1. page_bitmap_index' = page_bitmap_index + 1 /\ result' = page_bitmap_index' - num_pages[c]
          /\ pages + 1 = num_pages[c]
      BY Zenon DEF ScanTake
    <3> QED BY <3>1
  <2>2. ScanStart \in Nat /\ ScanStart <= page_bitmap_index - pages
    BY <1>0 DEF Scanned, ScanStart
  <2>3. page_bitmap_index \in Nat /\ pages \in Nat /\ num_pages[c] \in Nat
    BY <1>0
  <2> QED BY <2>1, <2>2, <2>3
<1>4. \A p \in run : p \in Pages /\ ~ bitmap[p]
  <2>1. page_bitmap_index < limit /\ ~ bitmap[page_bitmap_index]
    BY DEF ScanTake
  <2>2. \A q \in (page_bitmap_index - pages) .. (page_bitmap_index - 1) : ~ bitmap[q]
    BY <1>0 DEF Scanned
  <2> QED BY <1>0, <1>3, <2>1, <2>2 DEF Pages
<1>5. result' # 0
  BY <1>0, <1>3, <1>4 DEF IndInv, MarkInv
<1>6. IsFiniteSet(run) /\ Cardinality(run) = num_pages[c]
  <2>1. result' \in Int /\ page_bitmap_index \in Int /\ ~ (result' > page_bitmap_index)
    BY <1>0, <1>3
  <2>2. Cardinality(run) = page_bitmap_index - result' + 1 /\ IsFiniteSet(run)
    BY <2>1, FS_Interval
  <2> QED BY <1>3, <2>2
<1>7. FreePages' = FreePages \ run /\ FreePages \cap run = run
  BY <1>1, <1>2, <1>4 DEF FreePages, Pages
<1>8. IsFiniteSet(FreePages) /\ Cardinality(FreePages) \in Nat
  BY FiniteParts DEF IndInv
<1>9. Cardinality(FreePages') = Cardinality(FreePages) - num_pages[c]
  <2>1. Cardinality(FreePages \ run) = Cardinality(FreePages) - Cardinality(FreePages \cap run)
    BY <1>8, FS_Difference
  <2> QED BY <1>6, <1>7, <2>1
<1>10. Ram' = Ram /\ ReservedPages(m_size)' = ReservedPages(m_size)
  BY <1>1 DEF Ram, Pages, InRam, ReservedPages
<1>11. Stray' = Stray
  <2>1. MissedByFill' = MissedByFill /\ Pages' = Pages
    BY <1>1 DEF MissedByFill, Pages
  <2>2. ASSUME NEW p \in MissedByFill
        PROVE  (~ bitmap[p] \/ held[p] > 0) <=> (~ bitmap'[p] \/ held'[p] > 0)
    <3>1. p \in Pages
      BY <1>0, <2>2, GeometryAssumption DEF MissedByFill, Pages
    <3>2. CASE p \in run
      <4>1. ~ bitmap[p]
        BY <1>4, <3>2
      <4>2. held'[p] = held[p] + 1 /\ held[p] \in Nat
        BY <3>1, <3>2 DEF ScanTake, IndInv, TypeOK
      <4>3. held'[p] > 0
        BY <4>2
      <4> QED BY <4>1, <4>3
    <3>3. CASE p \notin run
      <4>1. held'[p] = held[p]
        BY <3>1, <3>3 DEF ScanTake
      <4>2. bitmap'[p] <=> bitmap[p]
        BY <1>2, <3>1, <3>3
      <4> QED BY <4>1, <4>2
    <3> QED BY <3>2, <3>3
  <2>3. \A p : InRam(memmap, p)' <=> InRam(memmap, p)
    BY <1>1 DEF InRam
  <2> QED BY <1>1, <2>1, <2>2, <2>3 DEF Stray
<1>12. Pending = 0 /\ Pending' = num_pages[c]
  <2>1. \A d \in CPUs : ~ Answering(d)
    BY <1>0 DEF Answering, IndInv, LockInv
  <2>2. Answering(c)'
    BY <1>0, <1>5 DEF Answering
  <2>3. Pending' = num_pages'[pmm_lock']
    BY <2>2 DEF Pending
  <2> QED BY <1>0, <2>1, <2>3, PendingFacts
<1>13. PICK a \in Nat :
        /\ total_allocated = a * PageBytes
        /\ Cardinality(FreePages) + Pending + a
             = Cardinality(Ram) - ReservedPages(m_size) + Cardinality(Stray)
  BY DEF CountInv
<1>14. /\ total_allocated' = a * PageBytes
       /\ Cardinality(FreePages') + Pending' + a
            = Cardinality(Ram') - ReservedPages(m_size)' + Cardinality(Stray')
  <2>1. Cardinality(FreePages') + Pending' + a = Cardinality(FreePages) + Pending + a
    BY <1>0, <1>8, <1>9, <1>12
  <2> QED BY <1>1, <1>10, <1>11, <1>13, <2>1
<1>15. total_usable_size' = (Cardinality(Ram') - ReservedPages(m_size)') * PageBytes
  BY <1>1, <1>10 DEF CountInv
<1> QED BY <1>14, <1>15 DEF CountInv

(* The answer that is returned is no longer pending but counted.               *)
LEMMA ReturnCounts ==
    ASSUME IndInv, IndInv', CountInv, NEW c \in CPUs, Return(c)
    PROVE  CountInv'
<1>1. UNCHANGED <<memmap, m_size, total_usable_size, bitmap, held>>
  BY DEF Return, static
<1>2. /\ Ram' = Ram /\ FreePages' = FreePages /\ Stray' = Stray
      /\ ReservedPages(m_size)' = ReservedPages(m_size)
  BY <1>1 DEF Ram, FreePages, Stray, Pages, MissedByFill, InRam, ReservedPages
<1>3. Pending = num_pages[c] /\ num_pages[c] \in Nat
  BY PendingFacts DEF Return, Answering, IndInv, TypeOK
<1>4. Pending' = 0
  <2>1. pmm_lock' = NoCPU
    BY DEF Return
  <2>2. \A d \in CPUs : ~ Answering(d)'
    BY <2>1, GeometryAssumption DEF IndInv, LockInv, Answering
  <2> QED BY <2>2 DEF Pending
<1>5. PICK a \in Nat :
        /\ total_allocated = a * PageBytes
        /\ Cardinality(FreePages) + Pending + a
             = Cardinality(Ram) - ReservedPages(m_size) + Cardinality(Stray)
  BY DEF CountInv
<1>6. a + num_pages[c] \in Nat
      /\ total_allocated' = (a + num_pages[c]) * PageBytes
  <2>1. total_allocated' = a * PageBytes + num_pages[c] * PageBytes
    BY <1>5 DEF Return
  <2> QED BY <1>3, <2>1, GeometryAssumption
<1>7. Cardinality(FreePages') + Pending' + (a + num_pages[c])
        = Cardinality(Ram') - ReservedPages(m_size)' + Cardinality(Stray')
  <2>1. Cardinality(FreePages) \in Nat
    BY FiniteParts DEF IndInv
  <2>2. Cardinality(FreePages) + 0 + (a + num_pages[c]) = Cardinality(FreePages) + Pending + a
    BY <1>3, <2>1
  <2> QED BY <1>2, <1>4, <1>5, <2>2
<1>8. total_usable_size' = (Cardinality(Ram') - ReservedPages(m_size)') * PageBytes
  BY <1>1, <1>2 DEF CountInv
<1> QED BY <1>6, <1>7, <1>8 DEF CountInv

(* Free pages, the run that is about to be returned and what total_allocated   *)
(* counts always make up the usable memory: nothing alloc_pages does, on any   *)
(* number of processors, loses a page or counts one twice.                     *)
THEOREM CountsHold == Spec => []CountInv
<1>1. Init => CountInv
  BY InitCounts
<1>2. IndInv /\ IndInv' /\ CountInv /\ [Next]_vars => CountInv'
  <2> SUFFICES ASSUME IndInv, IndInv', CountInv, [Next]_vars PROVE CountInv'
    OBVIOUS
  <2>1. CASE UNCHANGED vars
    <3>1. UNCHANGED <<static, bitmap, held, total_allocated>> /\ Pending' = Pending
      BY <2>1 DEF vars, locals, Pending, Answering
    <3> QED BY <3>1, QuietCounts
  <2>2. ASSUME NEW c \in CPUs, Step(c) \/ \E n \in Requests : Call(c, n)
        PROVE  CountInv'
    <3>1. CASE ScanTake(c)
      BY <3>1, TakeCounts
    <3>2. CASE Return(c)
      BY <3>2, ReturnCounts
    <3>3. CASE \/ Acquire(c) \/ SpinOut(c) \/ ScanFree(c) \/ ScanUsed(c) \/ ScanEnd(c)
               \/ Retry(c) \/ OutOfMemory(c) \/ \E n \in Requests : Call(c, n)
      BY <3>3, QuietStep, QuietCounts
    <3> QED BY <2>2, <3>1, <3>2, <3>3 DEF Step
  <2> QED BY <2>1, <2>2 DEF Next
<1> QED BY <1>1, <1>2, Invariance, PTL DEF Spec

(* The figures of the "Out of physical memory" message add up whenever no call *)
(* is in progress, for every memory map and every number of processors.        *)
THEOREM Accounted == Spec => []MemoryIsAccounted
<1>1. IndInv /\ CountInv => MemoryIsAccounted
  <2> SUFFICES ASSUME IndInv, CountInv, pmm_lock = NoCPU
               PROVE  Cardinality(FreePages) * PageBytes + total_allocated
                        = total_usable_size + Cardinality(Stray) * PageBytes
    BY DEF MemoryIsAccounted, FreePages, Stray
  <2>1. Pending = 0
    <3>1. \A c \in CPUs : ~ Answering(c)
      BY GeometryAssumption DEF IndInv, LockInv, Answering
    <3> QED BY <3>1, PendingFacts
  <2>2. PICK a \in Nat :
          /\ total_allocated = a * PageBytes
          /\ Cardinality(FreePages) + Pending + a
               = Cardinality(Ram) - ReservedPages(m_size) + Cardinality(Stray)
    BY DEF CountInv
  <2> DEFINE F == Cardinality(FreePages)
             R == Cardinality(Ram)
             r == ReservedPages(m_size)
             S == Cardinality(Stray)
  <2>3. F \in Nat /\ R \in Nat /\ S \in Nat
    BY FiniteParts DEF IndInv
  <2>4. r \in Int
    BY GeometryAssumption DEF ReservedPages, IndInv, TypeOK
  <2>5. F + a = (R - r) + S /\ total_usable_size = (R - r) * PageBytes /\ PageBytes \in Nat
    BY <2>1, <2>2, <2>3, <2>4, GeometryAssumption DEF CountInv
  <2> HIDE DEF F, R, r, S
  <2>6. (F + a) * PageBytes = F * PageBytes + a * PageBytes
    BY <2>3, <2>5
  <2>7. ((R - r) + S) * PageBytes = (R - r) * PageBytes + S * PageBytes
    BY <2>3, <2>4, <2>5
  <2>8. F * PageBytes + total_allocated = total_usable_size + S * PageBytes
    BY <2>2, <2>5, <2>6, <2>7
  <2> QED BY <2>8 DEF F, S
<1> QED BY <1>1, Invariance, CountsHold, PTL

=============================================================================
