---------------------------- MODULE Paging_proofs ----------------------------
(* Proofs about page maps, page faults and the locks around them, for any      *)
(* number of tasks and any sizes that keep the program in the lower half.      *)
EXTENDS Paging, WellFoundedInduction, TLAPS

-----------------------------------------------------------------------------
(* The calls in progress. *)

Functions == {"heap", "printf", "access", "alloc_pages", "handle_page_fault", "map_page",
              "map_kernel", "mmap", "new_user_task"}
Points == {"lock", "body", "table", "fill", "unlock", "unlock_failed", "iret", "exception",
           "end", "add", "pml4", "pages"}
Frames == [fn : Functions, at : Points, lock : Locks \cup {NoLock}, virt : Int, got : Nat,
           phy : Nat, writable : BOOLEAN, user_mode : BOOLEAN, flag : BOOLEAN]

Low(virt) == virt \in Nat /\ virt < first_byte(DevicePage)
High(virt) == virt \in HeapBytes \/ virt = first_byte(DevicePage)
PageAligned(virt) == \E k \in 0 .. ProgramPages : virt = first_byte(k)

(* What a call of each function can look like. *)
FrameOk(f) ==
    /\ f.fn = "heap" =>
         f.lock = "alloc_lock" /\ f.at \in {"lock", "body", "unlock"} /\ f.virt \in HeapBytes
    /\ f.fn = "printf" =>
         /\ f.lock = "print_lock" /\ f.at \in {"lock", "body", "unlock"}
         /\ f.virt = NoAddress \/ Low(f.virt)
    /\ f.fn = "access" =>
         /\ f.lock = NoLock /\ f.at = "body"
         /\ f.virt = first_byte(DevicePage) \/ Low(f.virt)
    /\ f.fn = "alloc_pages" =>
         /\ f.lock = "pmm_lock" /\ f.at \in {"lock", "body", "unlock"}
         /\ f.at = "unlock" <=> f.got # 0
    /\ f.fn = "handle_page_fault" =>
         /\ f.at \in {"lock", "body", "table", "fill", "unlock", "unlock_failed", "iret",
                      "exception", "end"}
         /\ f.at \in {"lock", "body"} => f.got = 0
         /\ f.user_mode =>
              /\ f.lock = "user_pagemap"
              /\ Low(f.virt) \/ (f.virt \in KernelBytes /\ f.at # "fill")
         /\ ~ f.user_mode => f.lock = "kernel_pagemap" /\ (Low(f.virt) \/ High(f.virt))
    /\ f.fn = "map_page" =>
         /\ f.lock = "user_pagemap" /\ f.at \in {"lock", "body", "table", "unlock"}
         /\ f.at \in {"lock", "body"} => f.got = 0
         /\ PageAligned(f.virt) /\ f.virt \in ProgramBytes /\ f.phy # 0
    /\ f.fn = "map_kernel" =>
         f.lock = "user_pagemap" /\ f.at \in {"lock", "body", "unlock"}
    /\ f.fn = "mmap" =>
         f.lock = NoLock /\ f.at = "add" /\ f.virt \in MmapLengths
    /\ f.fn = "new_user_task" =>
         /\ f.lock = NoLock /\ f.at \in {"pml4", "pages"} /\ PageAligned(f.virt)
         /\ f.at = "pml4" => f.virt = 0

(* What can be called from where. *)
CallOk(f, g) ==
    \/ /\ g.fn = "alloc_pages" /\ f.got = 0
       /\ f.at \in {"table", "fill"} \/ f.fn = "new_user_task"
    \/ g.fn = "map_kernel" /\ f.fn = "new_user_task" /\ f.at = "pages" /\ f.virt = 0 /\ f.got = 0
    \/ /\ g.fn = "map_page" /\ f.fn = "new_user_task" /\ f.at = "pages" /\ f.got = 0
       /\ f.virt = g.virt + PageSize
    \/ /\ g.fn = "handle_page_fault" /\ ~ g.user_mode
       /\ f.fn \in {"heap", "printf", "access"} /\ f.at = "body" /\ g.virt = f.virt
    \/ g.fn = "heap" /\ (f.fn = "mmap" \/ (f.fn = "new_user_task" /\ f.at = "pml4" /\ f.got = 0))
    \/ g.fn = "printf" /\ f.fn = "handle_page_fault" /\ f.at = "end" /\ g.virt = NoAddress

(* Where a task's calls begin, and what has become of the user task by then: l *)
(* is `life`.                                                                  *)
BottomOk(t, f, l) ==
    /\ f.fn \in {"heap", "printf", "access", "handle_page_fault", "mmap", "new_user_task"}
    /\ f.fn = "handle_page_fault" => f.user_mode
    /\ f.fn \in {"handle_page_fault", "mmap"} => t = user
    /\ f.fn = "new_user_task" => t = kernel_thread /\ l = "none"
    /\ t = user => l # "none"

MmapRanges == [base : Int, length : Int, writable : BOOLEAN, type : {"ANONYMOUS"}]

TypeOK ==
    /\ pml4 \in [Maps -> [Slots -> Nat]]
    /\ granted \in Nat /\ granted >= 2
    /\ ranges \in Seq(MmapRanges)
    /\ mmap_anon_base \in Nat
    /\ keeper \in [Locks -> Tasks \cup {NoTask}]
    /\ intr \in BOOLEAN /\ cur \in Tasks
    /\ calls \in [Tasks -> Seq(Frames)]
    /\ life \in {"none", "alive", "dead"}
    /\ status \in {"ok", "spun too much", "cannot recover"}

StackOk(t) ==
    \A i \in 1 .. Len(calls[t]) :
        /\ FrameOk(calls[t][i])
        /\ i = 1 => BottomOk(t, calls[t][i], life)
        /\ i > 1 => CallOk(calls[t][i - 1], calls[t][i])
        /\ i = Len(calls[t]) /\ calls[t][i].at \in {"table", "fill"} => calls[t][i].got # 0

(* The program's ranges end before mmap_anon_base, and there are none before   *)
(* there is a user task.                                                       *)
RangesBelow(list, base) == \A i \in DOMAIN list : list[i].base + list[i].length <= base
RangesLater == life = "none" => ranges = << >>

RangesOk ==
    /\ RangesBelow(ranges, mmap_anon_base) /\ RangesLater
    /\ Len(ranges) <= MaxRanges
    /\ mmap_anon_base <= first_byte(ProgramPages) + Len(ranges) * LongestMmap
    /\ Len(calls[user]) >= 1 /\ calls[user][1].fn = "mmap" => Len(ranges) < MaxRanges

ShapeInv == TypeOK /\ (\A t \in Tasks : StackOk(t)) /\ RangesOk

-----------------------------------------------------------------------------
(* Who keeps the locks. *)

Keeps(f) == f.lock # NoLock /\ f.at \in {"body", "table", "fill", "unlock", "unlock_failed"}

LockInv ==
    \A t \in Tasks : \A i \in 1 .. Len(calls[t]) :
        Keeps(calls[t][i]) =>
            /\ keeper[calls[t][i].lock] = t
            /\ \A j \in 1 .. Len(calls[t]) :
                 Keeps(calls[t][j]) /\ calls[t][j].lock = calls[t][i].lock => j = i

(* A task in alloc_pages or in a printf that touches no buffer of the program  *)
(* is not interrupted while it keeps the lock.                                 *)
Undisturbed(fn) == ~ intr /\ calls[cur] # << >> /\ Top.fn = fn /\ Top.at \in {"body", "unlock"}

PmmInv == keeper["pmm_lock"] # NoTask => keeper["pmm_lock"] = cur /\ Undisturbed("alloc_pages")

PrintInv ==
    keeper["print_lock"] # NoTask =>
        \/ keeper["print_lock"] = cur /\ Undisturbed("printf")
        \/ \E i \in 1 .. Len(calls[keeper["print_lock"]]) :
             LET f == calls[keeper["print_lock"]][i]
             IN  f.fn = "printf" /\ f.virt # NoAddress /\ f.at \in {"body", "unlock"}

-----------------------------------------------------------------------------
(* Addresses. *)

(* A set of numbers has a least one. *)
LEMMA Least ==
    ASSUME NEW S \in SUBSET Nat, S # {}
    PROVE  \E x \in S : \A y \in S : x <= y
<1> DEFINE R == OpToRel(<, Nat)
<1>1. IsWellFoundedOn(R, Nat)
  BY NatLessThanWellFounded
<1>2. \A x, y \in Nat : <<x, y>> \in R <=> x < y
  BY DEF OpToRel
<1> HIDE DEF R
<1>3. PICK x \in S : \A y \in S : ~ (<<y, x>> \in R)
  BY <1>1, WFMin
<1>4. x \in Nat /\ \A y \in S : y \in Nat
  OBVIOUS
<1>5. \A y \in S : ~ (y < x)
  BY <1>2, <1>3, <1>4
<1>6. \A y \in S : x <= y
  BY <1>4, <1>5
<1> QED
  BY <1>6

(* The page of an address is the one whose bytes hold it. *)
LEMMA PageBounds ==
    ASSUME NEW virt \in Nat, NEW p \in Nat
    PROVE  /\ page(virt) \in Nat
           /\ virt < first_byte(p) <=> page(virt) < p
           /\ page(first_byte(p)) = p
<1>1. PageSize \in Nat /\ PageSize > 0
  BY SizesAssumption
<1>2. page(virt) \in Nat /\ page(virt) * PageSize <= virt /\ virt < (page(virt) + 1) * PageSize
  BY <1>1 DEF page
<1>3. \A q \in Nat, r \in Nat : q <= r => q * PageSize <= r * PageSize
  BY <1>1
<1>4. virt < p * PageSize => page(virt) < p
  <2> SUFFICES ASSUME virt < p * PageSize, p <= page(virt) PROVE FALSE
    BY <1>2
  <2>1. p * PageSize <= page(virt) * PageSize
    BY <1>2, <1>3
  <2> QED BY <1>1, <1>2, <2>1
<1>5. page(virt) < p => virt < p * PageSize
  <2> SUFFICES ASSUME page(virt) < p PROVE virt < p * PageSize
    OBVIOUS
  <2>1. (page(virt) + 1) * PageSize <= p * PageSize
    BY <1>2, <1>3
  <2> QED BY <1>1, <1>2, <2>1
<1>6. (p * PageSize) \div PageSize = p
  BY <1>1
<1> QED BY <1>1, <1>2, <1>4, <1>5, <1>6 DEF first_byte, page

LEMMA Sizes ==
    /\ PageSize \in Nat /\ PageSize >= 1 /\ HeapPages \in Nat /\ HeapPages >= 1
    /\ ProgramPages \in Nat /\ MaxRanges \in Nat
    /\ \A p \in Nat : first_byte(p) \in Nat
    /\ \A p, q \in Nat : p <= q => first_byte(p) <= first_byte(q)
    /\ \A p \in Nat : first_byte(p + 1) = first_byte(p) + PageSize
<1>1. PageSize \in Nat /\ PageSize >= 1
  BY SizesAssumption
<1>2. \A p \in Nat : p * PageSize \in Nat
  BY <1>1
<1>3. \A p, q \in Nat : p <= q => p * PageSize <= q * PageSize
  BY <1>1
<1>4. \A p \in Nat : (p + 1) * PageSize = p * PageSize + PageSize
  BY <1>1
<1> QED BY <1>1, <1>2, <1>3, <1>4, SizesAssumption DEF first_byte

LEMMA LowFacts ==
    ASSUME NEW virt, Low(virt)
    PROVE  slot(virt) = "low" /\ page(virt) \in Nat /\ page(virt) < DevicePage /\ virt \in Nat
BY PageBounds DEF Low, slot, DevicePage, ImagePage

LEMMA HighFacts ==
    ASSUME NEW virt, High(virt)
    PROVE  /\ virt \in Nat /\ ~ Low(virt) /\ page(virt) \in Nat
           /\ slot(virt) \in KernelSlots
           /\ virt = first_byte(DevicePage) => slot(virt) = "hhdm" /\ page(virt) = DevicePage
           /\ virt \in HeapBytes => slot(virt) = "top" /\ page(virt) > ImagePage
<1>1. CASE virt = first_byte(DevicePage)
  <2>1. virt \in Nat /\ page(virt) = DevicePage /\ ~ Low(virt)
    BY <1>1, PageBounds, Sizes DEF DevicePage, Low
  <2>2. slot(virt) = "hhdm"
    BY <2>1 DEF slot, DevicePage, ImagePage
  <2>3. virt \notin HeapBytes
    <3>1. DevicePage < HeapPage /\ DevicePage \in Nat /\ HeapPage \in Nat
      BY DEF DevicePage, HeapPage
    <3>2. virt < first_byte(HeapPage)
      BY <2>1, <3>1, PageBounds
    <3> QED BY <2>1, <3>2, Sizes, <3>1 DEF HeapBytes
  <2> QED BY <2>1, <2>2, <2>3, <1>1 DEF KernelSlots, DevicePage
<1>2. CASE virt \in HeapBytes
  <2>1. HeapPage \in Nat /\ ImagePage \in Nat /\ DevicePage \in Nat /\ ImagePage < HeapPage
        /\ DevicePage < HeapPage
    BY DEF DevicePage, HeapPage, ImagePage
  <2>2. first_byte(HeapPage) \in Nat /\ first_byte(HeapPage + HeapPages) \in Nat
    BY <2>1, Sizes
  <2>3. virt \in Nat /\ virt >= first_byte(HeapPage)
    BY <1>2, <2>2 DEF HeapBytes
  <2>4. page(virt) \in Nat /\ page(virt) >= HeapPage
    BY <2>1, <2>2, <2>3, PageBounds
  <2>5. ~ Low(virt) /\ virt # first_byte(DevicePage)
    BY <2>1, <2>3, <2>4, PageBounds DEF Low
  <2> QED BY <2>1, <2>3, <2>4, <2>5 DEF slot, KernelSlots
<1> QED BY <1>1, <1>2 DEF High

-----------------------------------------------------------------------------
(* What an operation on the call stack of the running task does. *)

(* The first k calls stay and there are m afterwards; other tasks' calls stay. *)
Kept(k, m) ==
    /\ k \in 0 .. Len(calls[cur]) /\ m \in Nat /\ k <= m
    /\ calls' \in [Tasks -> Seq(Frames)]
    /\ Len(calls'[cur]) = m
    /\ \A i \in 1 .. k : calls'[cur][i] = calls[cur][i]
    /\ \A t \in Tasks : t # cur => calls'[t] = calls[t]

Depth == Len(calls[cur])

LEMMA SeqPrefix ==
    ASSUME NEW F, NEW s \in Seq(F), NEW k \in 0 .. Len(s)
    PROVE  /\ SubSeq(s, 1, k) \in Seq(F) /\ Len(SubSeq(s, 1, k)) = k
           /\ \A i \in 1 .. k : SubSeq(s, 1, k)[i] = s[i]
OBVIOUS

LEMMA SeqElement ==
    ASSUME NEW F, NEW s \in Seq(F), NEW i \in DOMAIN s
    PROVE  s[i] \in F
OBVIOUS

LEMMA AppendIsConcat ==
    ASSUME NEW F, NEW s \in Seq(F), NEW f \in F
    PROVE  Append(s, f) = s \o <<f>>
OBVIOUS

LEMMA DepthFacts ==
    ASSUME TypeOK
    PROVE  /\ calls[cur] \in Seq(Frames) /\ Depth \in Nat /\ Depth = Len(calls[cur]) /\ cur \in Tasks
           /\ \A t \in Tasks : calls[t] \in Seq(Frames) /\ Len(calls[t]) \in Nat
                /\ \A i \in 1 .. Len(calls[t]) : calls[t][i] \in Frames
           /\ calls[cur] # << >> <=> Depth >= 1
           /\ calls[cur] # << >> => Top \in Frames /\ Top = calls[cur][Depth]
<1>1. \A t \in Tasks : calls[t] \in Seq(Frames) /\ Len(calls[t]) \in Nat
                /\ \A i \in 1 .. Len(calls[t]) : calls[t][i] \in Frames
  <2> TAKE t \in Tasks
  <2>1. calls[t] \in Seq(Frames)
    BY DEF TypeOK
  <2> QED BY <2>1
<1>2. cur \in Tasks
  BY DEF TypeOK
<1>3. calls[cur] # << >> <=> Depth >= 1
  BY <1>1, <1>2 DEF Depth
<1> QED BY <1>1, <1>2, <1>3 DEF Depth, Top

LEMMA TopOk ==
    ASSUME TypeOK, \A t \in Tasks : StackOk(t), calls[cur] # << >>
    PROVE  /\ FrameOk(Top) /\ Top \in Frames
           /\ Top.at \in {"table", "fill"} => Top.got # 0
           /\ Depth = 1 => BottomOk(cur, Top, life)
           /\ Depth > 1 => CallOk(calls[cur][Depth - 1], Top) /\ Depth - 1 \in 1 .. Depth
<1>1. cur \in Tasks /\ Depth = Len(calls[cur]) /\ Depth \in Nat /\ Depth >= 1
      /\ Top = calls[cur][Depth] /\ Top \in Frames
  BY DepthFacts
<1>2. Depth \in 1 .. Depth
  BY <1>1
<1>3. StackOk(cur)
  BY <1>1
<1>4. /\ FrameOk(calls[cur][Depth])
      /\ Depth = 1 => BottomOk(cur, calls[cur][Depth], life)
      /\ Depth > 1 => CallOk(calls[cur][Depth - 1], calls[cur][Depth])
      /\ calls[cur][Depth].at \in {"table", "fill"} => calls[cur][Depth].got # 0
  BY <1>1, <1>2, <1>3 DEF StackOk
<1> QED BY <1>1, <1>4

LEMMA BeginKept ==
    ASSUME TypeOK, NEW f \in Frames, Begin(f)
    PROVE  Kept(Depth, Depth + 1) /\ calls'[cur][Depth + 1] = f
<1>1. calls[cur] \in Seq(Frames) /\ Depth = Len(calls[cur]) /\ cur \in Tasks
      /\ calls \in [Tasks -> Seq(Frames)]
  BY DEF Depth, TypeOK
<1>2. calls'[cur] = Append(calls[cur], f) /\ \A t \in Tasks : t # cur => calls'[t] = calls[t]
  BY <1>1 DEF Begin
<1>3. calls' \in [Tasks -> Seq(Frames)]
  BY <1>1 DEF Begin
<1> QED BY <1>1, <1>2, <1>3 DEF Kept

(* The stack made of the first k calls and the calls in `new`. *)
LEMMA ReplaceKept ==
    ASSUME TypeOK, NEW k \in 0 .. Depth, NEW new \in Seq(Frames),
           calls' = [calls EXCEPT ![cur] = SubSeq(calls[cur], 1, k) \o new]
    PROVE  /\ Kept(k, k + Len(new))
           /\ \A i \in 1 .. Len(new) : calls'[cur][k + i] = new[i]
<1>1. calls[cur] \in Seq(Frames) /\ Depth = Len(calls[cur]) /\ cur \in Tasks
      /\ calls \in [Tasks -> Seq(Frames)]
  BY DEF Depth, TypeOK
<1> DEFINE kept == SubSeq(calls[cur], 1, k)
<1>2. kept \in Seq(Frames) /\ Len(kept) = k /\ \A i \in 1 .. k : kept[i] = calls[cur][i]
  BY <1>1, SeqPrefix
<1>3. calls'[cur] = kept \o new /\ \A t \in Tasks : t # cur => calls'[t] = calls[t]
  BY <1>1
<1> HIDE DEF kept
<1>4. kept \o new \in Seq(Frames) /\ Len(kept \o new) = k + Len(new) /\ Len(new) \in Nat
      /\ (\A i \in 1 .. k : (kept \o new)[i] = kept[i])
      /\ (\A i \in 1 .. Len(new) : (kept \o new)[k + i] = new[i])
  BY <1>2
<1>5. calls' \in [Tasks -> Seq(Frames)]
  BY <1>1, <1>3, <1>4 DEF kept
<1> QED BY <1>1, <1>2, <1>3, <1>4, <1>5 DEF Kept, Depth

LEMMA ContinueKept ==
    ASSUME TypeOK, calls[cur] # << >>, NEW f \in Frames, Continue(f)
    PROVE  Kept(Depth - 1, Depth) /\ calls'[cur][Depth] = f
<1> DEFINE new == <<f>>
           k == Depth - 1
<1>1. Depth \in Nat /\ Depth >= 1 /\ calls[cur] \in Seq(Frames)
  BY DepthFacts
<1>2. k \in 0 .. Depth /\ k + 1 = Depth
  BY <1>1
<1>3. SubSeq(calls[cur], 1, k) \in Seq(Frames)
  BY <1>1, <1>2, SeqPrefix DEF Depth
<1>4. new \in Seq(Frames) /\ Len(new) = 1 /\ new[1] = f
  OBVIOUS
<1>5. Append(SubSeq(calls[cur], 1, k), f) = SubSeq(calls[cur], 1, k) \o new
  BY <1>3, AppendIsConcat
<1>6. calls' = [calls EXCEPT ![cur] = SubSeq(calls[cur], 1, k) \o new]
  BY <1>5 DEF Continue, Outer, Depth
<1> HIDE DEF new, k
<1>7. Kept(k, k + Len(new)) /\ \A i \in 1 .. Len(new) : calls'[cur][k + i] = new[i]
  BY <1>2, <1>4, <1>6, ReplaceKept
<1>8. Kept(k, Depth) /\ calls'[cur][Depth] = f
  BY <1>2, <1>4, <1>7
<1> QED BY <1>8 DEF k

LEMMA CallFromKept ==
    ASSUME TypeOK, calls[cur] # << >>, NEW f \in Frames, NEW g \in Frames, CallFrom(f, g)
    PROVE  Kept(Depth - 1, Depth + 1) /\ calls'[cur][Depth] = f /\ calls'[cur][Depth + 1] = g
<1> DEFINE new == <<f, g>>
           k == Depth - 1
<1>1. Depth \in Nat /\ Depth >= 1
  BY DepthFacts
<1>2. k \in 0 .. Depth /\ k + 1 = Depth /\ k + 2 = Depth + 1
  BY <1>1
<1>3. new \in Seq(Frames) /\ Len(new) = 2 /\ new[1] = f /\ new[2] = g
  OBVIOUS
<1>4. calls' = [calls EXCEPT ![cur] = SubSeq(calls[cur], 1, k) \o new]
  BY DEF CallFrom, Outer, Depth
<1> HIDE DEF new, k
<1>5. Kept(k, k + Len(new)) /\ \A i \in 1 .. Len(new) : calls'[cur][k + i] = new[i]
  BY <1>2, <1>3, <1>4, ReplaceKept
<1>6. Kept(k, Depth + 1) /\ calls'[cur][Depth] = f /\ calls'[cur][Depth + 1] = g
  BY <1>2, <1>3, <1>5
<1> QED BY <1>6 DEF k

LEMMA ReturnKept ==
    ASSUME TypeOK, calls[cur] # << >>, Return
    PROVE  Kept(Depth - 1, Depth - 1)
<1> DEFINE new == << >>
           k == Depth - 1
<1>1. Depth \in Nat /\ Depth >= 1 /\ calls[cur] \in Seq(Frames)
  BY DepthFacts
<1>2. k \in 0 .. Depth /\ k \in Nat
  BY <1>1
<1>3. SubSeq(calls[cur], 1, k) \in Seq(Frames)
  BY <1>1, <1>2, SeqPrefix DEF Depth
<1>4. new \in Seq(Frames) /\ Len(new) = 0
  OBVIOUS
<1>5. SubSeq(calls[cur], 1, k) = SubSeq(calls[cur], 1, k) \o new
  BY <1>3
<1>6. calls' = [calls EXCEPT ![cur] = SubSeq(calls[cur], 1, k) \o new]
  BY <1>5 DEF Return, Outer, Depth
<1> HIDE DEF new, k
<1>7. Kept(k, k + Len(new))
  BY <1>2, <1>4, <1>6, ReplaceKept
<1>8. Kept(k, k)
  BY <1>2, <1>4, <1>7
<1> QED BY <1>8 DEF k

LEMMA ReturnToKept ==
    ASSUME TypeOK, Depth >= 2, NEW f \in Frames, ReturnTo(f)
    PROVE  Kept(Depth - 2, Depth - 1) /\ calls'[cur][Depth - 1] = f
<1> DEFINE new == <<f>>
           k == Depth - 2
<1>1. Depth \in Nat /\ calls[cur] \in Seq(Frames) /\ cur \in Tasks /\ calls \in [Tasks -> Seq(Frames)]
  BY DepthFacts DEF TypeOK
<1>2. k \in 0 .. Depth /\ k + 1 = Depth - 1
  BY <1>1
<1>3. SubSeq(calls[cur], 1, k) \in Seq(Frames)
  BY <1>1, <1>2, SeqPrefix DEF Depth
<1>4. new \in Seq(Frames) /\ Len(new) = 1 /\ new[1] = f
  OBVIOUS
<1>5. Append(SubSeq(calls[cur], 1, k), f) = SubSeq(calls[cur], 1, k) \o new
  BY <1>3, AppendIsConcat
<1>6. calls' = [calls EXCEPT ![cur] = SubSeq(calls[cur], 1, k) \o new]
  BY <1>1, <1>5 DEF ReturnTo, Depth
<1> HIDE DEF new, k
<1>7. Kept(k, k + Len(new)) /\ \A i \in 1 .. Len(new) : calls'[cur][k + i] = new[i]
  BY <1>2, <1>4, <1>6, ReplaceKept
<1>8. Kept(k, Depth - 1) /\ calls'[cur][Depth - 1] = f
  BY <1>2, <1>4, <1>7
<1> QED BY <1>8 DEF k

LEMMA StartKept ==
    ASSUME TypeOK, calls[cur] = << >>, NEW f \in Frames, NEW g \in Frames,
           calls' = [calls EXCEPT ![cur] = <<f, g>>]
    PROVE  Kept(0, 2) /\ calls'[cur][1] = f /\ calls'[cur][2] = g /\ Depth = 0
<1>1. Depth = 0 /\ cur \in Tasks /\ calls \in [Tasks -> Seq(Frames)]
  BY DEF Depth, TypeOK
<1>2. calls'[cur] = <<f, g>> /\ (\A t \in Tasks : t # cur => calls'[t] = calls[t])
      /\ calls' \in [Tasks -> Seq(Frames)]
  BY <1>1
<1> QED BY <1>1, <1>2 DEF Kept, Depth

-----------------------------------------------------------------------------
(* What each action does to the calls of the running task. *)

(* g is f, at another place and with another page from alloc_pages. *)
Same(f, g) ==
    /\ g.fn = f.fn /\ g.lock = f.lock /\ g.virt = f.virt /\ g.phy = f.phy
    /\ g.user_mode = f.user_mode

LEMMA MovedFacts ==
    ASSUME NEW f \in Frames, NEW a \in Points
    PROVE  /\ [f EXCEPT !.at = a] \in Frames /\ Same(f, [f EXCEPT !.at = a])
           /\ [f EXCEPT !.at = a].at = a /\ [f EXCEPT !.at = a].got = f.got
BY DEF Frames, Same

LEMMA FrameTypes ==
    ASSUME NEW f \in Frames
    PROVE  /\ f.fn \in Functions /\ f.at \in Points /\ f.lock \in Locks \cup {NoLock}
           /\ f.virt \in Int /\ f.got \in Nat /\ f.phy \in Nat
           /\ f.writable \in BOOLEAN /\ f.user_mode \in BOOLEAN /\ f.flag \in BOOLEAN
BY DEF Frames

LEMMA NewCalls ==
    /\ \A fn \in Functions, a \in Points, l \in Locks \cup {NoLock}, virt \in Int :
         /\ Call(fn, a, l, virt) \in Frames
         /\ Call(fn, a, l, virt).fn = fn /\ Call(fn, a, l, virt).at = a
         /\ Call(fn, a, l, virt).lock = l /\ Call(fn, a, l, virt).virt = virt
         /\ Call(fn, a, l, virt).got = 0 /\ Call(fn, a, l, virt).phy = 0
         /\ Call(fn, a, l, virt).user_mode = FALSE
BY DEF Call, Frames

LEMMA lockEffect ==
    ASSUME TypeOK, lock
    PROVE  /\ Depth >= 1 /\ Kept(Depth - 1, Depth)
           /\ Top.at = "lock" /\ keeper[Top.lock] = NoTask
           /\ Same(Top, calls'[cur][Depth])
           /\ calls'[cur][Depth].at = "body" /\ calls'[cur][Depth].got = Top.got
<1> DEFINE f == [Top EXCEPT !.at = "body"]
<1>1. calls[cur] # << >> /\ Top \in Frames /\ Depth >= 1
  BY DepthFacts DEF lock, lockable, Busy
<1>2. f \in Frames /\ Same(Top, f) /\ f.at = "body" /\ f.got = Top.got
  BY <1>1, MovedFacts DEF Points
<1>3. Continue(f) /\ Top.at = "lock" /\ keeper[Top.lock] = NoTask
  BY DEF lock, lockable
<1> HIDE DEF f
<1> QED BY <1>1, <1>2, <1>3, ContinueKept

LEMMA unlockEffect ==
    ASSUME TypeOK, \A t \in Tasks : StackOk(t), unlock
    PROVE  /\ Depth >= 1 /\ Top.at \in {"unlock", "unlock_failed"}
           /\ \/ /\ Top.fn = "alloc_pages" /\ Depth >= 2 /\ Kept(Depth - 2, Depth - 1)
                 /\ Same(calls[cur][Depth - 1], calls'[cur][Depth - 1])
                 /\ calls'[cur][Depth - 1].at = calls[cur][Depth - 1].at
                 /\ calls'[cur][Depth - 1].got = Top.got
                 /\ CallOk(calls[cur][Depth - 1], Top)
              \/ /\ Top.fn = "handle_page_fault" /\ Kept(Depth - 1, Depth)
                 /\ Same(Top, calls'[cur][Depth]) /\ calls'[cur][Depth].got = Top.got
                 /\ calls'[cur][Depth].at = IF Top.at = "unlock" THEN "iret" ELSE "exception"
              \/ Top.fn \notin {"alloc_pages", "handle_page_fault"} /\ Kept(Depth - 1, Depth - 1)
<1>1. calls[cur] # << >> /\ Top \in Frames /\ Depth >= 1 /\ Depth \in Nat /\ cur \in Tasks
      /\ Top = calls[cur][Depth]
  BY DepthFacts DEF unlock, Busy, TypeOK
<1>2. Top.at \in {"unlock", "unlock_failed"}
  BY DEF unlock
<1>3. CASE Top.fn = "alloc_pages"
  <2> DEFINE d == Depth - 1
             f == [calls[cur][d] EXCEPT !.got = Top.got]
  <2>1. Depth # 1
    BY <1>1, <1>3, TopOk DEF BottomOk
  <2>2. d \in Nat /\ d >= 1 /\ Depth - 2 = d - 1 /\ Depth > 1 /\ Depth >= 2
    BY <1>1, <2>1
  <2>3. d \in 1 .. Len(calls[cur])
    BY <1>1, <2>2, DepthFacts
  <2>4. calls[cur][d] \in Frames /\ Top.got \in Nat
    BY <1>1, <2>3, DepthFacts, FrameTypes
  <2>5. ReturnTo(f)
    BY <1>3 DEF unlock, Depth
  <2>6. CallOk(calls[cur][d], Top)
    BY <1>1, <2>2, TopOk
  <2>7. f \in Frames /\ Same(calls[cur][d], f) /\ f.at = calls[cur][d].at /\ f.got = Top.got
    BY <2>4 DEF Frames, Same
  <2> HIDE DEF f
  <2>8. Kept(Depth - 2, Depth - 1) /\ calls'[cur][d] = f
    BY <2>2, <2>5, <2>7, ReturnToKept
  <2>9. Same(calls[cur][d], calls'[cur][d]) /\ calls'[cur][d].at = calls[cur][d].at
        /\ calls'[cur][d].got = Top.got
    BY <2>7, <2>8
  <2> QED BY <1>1, <1>2, <1>3, <2>2, <2>6, <2>8, <2>9
<1>4. CASE Top.fn = "handle_page_fault"
  <2> DEFINE a == IF Top.at = "unlock" THEN "iret" ELSE "exception"
  <2>1. a \in Points
    BY DEF Points
  <2>2. Continue([Top EXCEPT !.at = a])
    BY <1>4 DEF unlock
  <2>3. [Top EXCEPT !.at = a] \in Frames /\ Same(Top, [Top EXCEPT !.at = a])
        /\ [Top EXCEPT !.at = a].at = a /\ [Top EXCEPT !.at = a].got = Top.got
    BY <1>1, <2>1, MovedFacts
  <2> QED BY <1>1, <1>2, <1>4, <2>2, <2>3, ContinueKept
<1>5. CASE Top.fn \notin {"alloc_pages", "handle_page_fault"}
  <2>1. Return
    BY <1>5 DEF unlock
  <2> QED BY <1>1, <1>2, <1>5, <2>1, ReturnKept
<1> QED BY <1>3, <1>4, <1>5

LEMMA FaultIsFrame ==
    ASSUME TypeOK, NEW m \in Maps, NEW virt \in Int, NEW um \in BOOLEAN
    PROVE  /\ Fault(m, virt, um) \in Frames
           /\ Fault(m, virt, um).fn = "handle_page_fault" /\ Fault(m, virt, um).at = "lock"
           /\ Fault(m, virt, um).lock = m /\ Fault(m, virt, um).virt = virt
           /\ Fault(m, virt, um).got = 0 /\ Fault(m, virt, um).user_mode = um
<1>1. m \in Locks \cup {NoLock}
  BY DEF Locks
<1>2. intr \in BOOLEAN
  BY DEF TypeOK
<1> QED BY <1>1, <1>2 DEF Fault, Call, Frames, Functions, Points

LEMMA KernelFault ==
    ASSUME NEW virt
    PROVE  /\ Fault("kernel_pagemap", virt, FALSE).fn = "handle_page_fault"
           /\ Fault("kernel_pagemap", virt, FALSE).at = "lock"
           /\ Fault("kernel_pagemap", virt, FALSE).lock = "kernel_pagemap"
           /\ Fault("kernel_pagemap", virt, FALSE).virt = virt
           /\ Fault("kernel_pagemap", virt, FALSE).got = 0
           /\ ~ Fault("kernel_pagemap", virt, FALSE).user_mode
BY DEF Fault, Call

LEMMA KernelTouchEffect ==
    ASSUME TypeOK, KernelTouch
    PROVE  /\ Depth >= 1 /\ Top.at = "body" /\ Top.fn \in {"heap", "printf", "access"}
           /\ \/ Top.fn = "access" /\ Kept(Depth - 1, Depth - 1) /\ UNCHANGED intr
              \/ /\ Top.fn # "access" /\ Kept(Depth - 1, Depth) /\ UNCHANGED intr
                 /\ Same(Top, calls'[cur][Depth]) /\ calls'[cur][Depth].at = "unlock"
                 /\ calls'[cur][Depth].got = Top.got
              \/ /\ Top.virt # NoAddress /\ ~ Present(pagemap(cur), Top.virt)
                 /\ Kept(Depth, Depth + 1) /\ intr' = FALSE
                 /\ calls'[cur][Depth + 1] = Fault("kernel_pagemap", Top.virt, FALSE)
<1>1. calls[cur] # << >> /\ Top \in Frames /\ Depth >= 1
  BY DepthFacts DEF KernelTouch, Busy
<1>2. Top.at = "body" /\ Top.fn \in {"heap", "printf", "access"}
  BY DEF KernelTouch
<1>3. [Top EXCEPT !.at = "unlock"] \in Frames /\ Same(Top, [Top EXCEPT !.at = "unlock"])
      /\ [Top EXCEPT !.at = "unlock"].at = "unlock" /\ [Top EXCEPT !.at = "unlock"].got = Top.got
  BY <1>1, MovedFacts DEF Points
<1>4. Fault("kernel_pagemap", Top.virt, FALSE) \in Frames
  BY <1>1, FrameTypes, FaultIsFrame DEF Maps
<1>5. CASE Top.virt = NoAddress \/ Present(pagemap(cur), Top.virt)
  <2>1. CASE Top.fn = "access"
    BY <1>1, <1>2, <1>5, <2>1, ReturnKept DEF KernelTouch
  <2>2. CASE Top.fn # "access"
    BY <1>1, <1>2, <1>3, <1>5, <2>2, ContinueKept DEF KernelTouch
  <2> QED BY <2>1, <2>2
<1>6. CASE ~ (Top.virt = NoAddress \/ Present(pagemap(cur), Top.virt))
  BY <1>1, <1>2, <1>4, <1>6, BeginKept DEF KernelTouch
<1> QED BY <1>5, <1>6

LEMMA TakePageEffect ==
    ASSUME TypeOK, TakePage
    PROVE  /\ Depth >= 1 /\ Top.fn = "alloc_pages" /\ Top.at = "body"
           /\ Kept(Depth - 1, Depth) /\ Same(Top, calls'[cur][Depth])
           /\ calls'[cur][Depth].at = "unlock" /\ calls'[cur][Depth].got = granted + 1
<1> DEFINE f == [Top EXCEPT !.at = "unlock", !.got = granted + 1]
<1>1. calls[cur] # << >> /\ Top \in Frames /\ Depth >= 1 /\ granted + 1 \in Nat
  BY DepthFacts DEF TakePage, In, Busy, TypeOK
<1>2. f \in Frames /\ Same(Top, f) /\ f.at = "unlock" /\ f.got = granted + 1
  BY <1>1 DEF Frames, Same, Points
<1>3. Continue(f) /\ Top.fn = "alloc_pages" /\ Top.at = "body"
  BY DEF TakePage, In
<1> HIDE DEF f
<1> QED BY <1>1, <1>2, <1>3, ContinueKept

LEMMA NextLevelEffect ==
    ASSUME TypeOK, page_table_next_level
    PROVE  /\ Depth >= 1 /\ Top.at = "body" /\ Top.fn \in {"handle_page_fault", "map_page"}
           /\ pml4[Top.lock][slot(Top.virt)] = 0
           /\ Kept(Depth - 1, Depth + 1) /\ Same(Top, calls'[cur][Depth])
           /\ calls'[cur][Depth].at = "table" /\ calls'[cur][Depth].got = Top.got
           /\ calls'[cur][Depth + 1] = alloc_pages
<1> DEFINE f == [Top EXCEPT !.at = "table"]
<1>1. calls[cur] # << >> /\ Top \in Frames /\ Depth >= 1
  BY DepthFacts DEF page_table_next_level, Walks, Busy
<1>2. f \in Frames /\ Same(Top, f) /\ f.at = "table" /\ f.got = Top.got
  BY <1>1, MovedFacts DEF Points
<1>3. alloc_pages \in Frames
  BY NewCalls DEF alloc_pages, Functions, Points, Locks, NoAddress
<1>4. CallFrom(f, alloc_pages) /\ Top.at = "body" /\ Top.fn \in {"handle_page_fault", "map_page"}
      /\ pml4[Top.lock][slot(Top.virt)] = 0
  BY DEF page_table_next_level, Walks, NeedsPage
<1> HIDE DEF f
<1> QED BY <1>1, <1>2, <1>3, <1>4, CallFromKept

LEMMA SetTableEffect ==
    ASSUME TypeOK, SetTable
    PROVE  /\ Depth >= 1 /\ Top.at = "table"
           /\ Kept(Depth - 1, Depth) /\ Same(Top, calls'[cur][Depth])
           /\ calls'[cur][Depth].at = "body" /\ calls'[cur][Depth].got = 0
<1> DEFINE f == [Top EXCEPT !.at = "body", !.got = 0]
<1>1. calls[cur] # << >> /\ Top \in Frames /\ Depth >= 1
  BY DepthFacts DEF SetTable, Busy
<1>2. f \in Frames /\ Same(Top, f) /\ f.at = "body" /\ f.got = 0
  BY <1>1 DEF Frames, Same, Points
<1>3. Continue(f) /\ Top.at = "table"
  BY DEF SetTable
<1> HIDE DEF f
<1> QED BY <1>1, <1>2, <1>3, ContinueKept

(* The steps that only move on to the unlock. *)
LEMMA ToUnlockEffect ==
    ASSUME TypeOK, NEW a \in Points, Busy, Continue([Top EXCEPT !.at = a])
    PROVE  /\ Depth >= 1 /\ Kept(Depth - 1, Depth) /\ Same(Top, calls'[cur][Depth])
           /\ calls'[cur][Depth].at = a /\ calls'[cur][Depth].got = Top.got
<1> DEFINE f == [Top EXCEPT !.at = a]
<1>1. calls[cur] # << >> /\ Top \in Frames /\ Depth >= 1
  BY DepthFacts DEF Busy
<1>2. f \in Frames /\ Same(Top, f) /\ f.at = a /\ f.got = Top.got
  BY <1>1, MovedFacts
<1>3. Continue(f)
  OBVIOUS
<1> HIDE DEF f
<1> QED BY <1>1, <1>2, <1>3, ContinueKept

(* The range a fault finds: of the program's list an anonymous one or none, of *)
(* the kernel's list the one that is the heap or the device.                   *)
LEMMA RangeFacts ==
    ASSUME TypeOK, NEW m \in Maps, NEW virt
    PROVE  /\ addr_to_range(m, virt) = NoRange \/ addr_to_range(m, virt).writable \in BOOLEAN
           /\ m = "user_pagemap" => addr_to_range(m, virt) = NoRange
                                    \/ addr_to_range(m, virt).type = "ANONYMOUS"
           /\ m = "kernel_pagemap" /\ Low(virt) => addr_to_range(m, virt) = NoRange
           /\ m = "kernel_pagemap" /\ virt \in HeapBytes =>
                addr_to_range(m, virt) # NoRange /\ addr_to_range(m, virt).type = "ANONYMOUS"
           /\ m = "kernel_pagemap" /\ virt = first_byte(DevicePage) =>
                addr_to_range(m, virt) # NoRange /\ addr_to_range(m, virt).type = "DIRECT"
<1> DEFINE list == range_list(m)
           found == {i \in DOMAIN list : Holds(list[i], virt)}
           first == CHOOSE i \in found : \A j \in found : i <= j
<1>1. addr_to_range(m, virt) = IF found = {} THEN NoRange ELSE list[first]
  BY DEF addr_to_range
<1>2. CASE m = "user_pagemap"
  <2>1. list \in Seq(MmapRanges)
    BY <1>2 DEF range_list, TypeOK
  <2>2. DOMAIN list = 1 .. Len(list) /\ Len(list) \in Nat
    BY <2>1
  <2>3. ASSUME found # {} PROVE first \in DOMAIN list
    <3>1. found \in SUBSET Nat
      BY <2>2
    <3>2. \E i \in found : \A j \in found : i <= j
      BY <2>3, <3>1, Least
    <3>3. first \in found
      BY <3>2
    <3> QED BY <3>3
  <2>4. ASSUME NEW i \in DOMAIN list PROVE list[i].writable \in BOOLEAN /\ list[i].type = "ANONYMOUS"
    <3>0. i \in DOMAIN list
      BY <2>4
    <3> HIDE DEF list
    <3>1. list[i] \in MmapRanges
      BY <2>1, <3>0, SeqElement
    <3> QED BY <3>1 DEF MmapRanges
  <2> HIDE DEF list, found, first
  <2> QED BY <1>1, <1>2, <2>3, <2>4
<1>3. CASE m = "kernel_pagemap"
  <2> DEFINE h == first_byte(HeapPage)
             d == first_byte(DevicePage)
  <2>0. DevicePage \in Nat /\ HeapPage \in Nat /\ DevicePage + 2 <= HeapPage /\ HeapPages \in Nat
        /\ HeapPages >= 1 /\ PageSize \in Nat /\ PageSize >= 1 /\ HeapPages * PageSize \in Nat
    BY Sizes DEF DevicePage, HeapPage
  <2>1. h \in Nat /\ d \in Nat /\ d + PageSize + PageSize <= h
        /\ first_byte(HeapPage + HeapPages) = h + HeapPages * PageSize
    <3>1. first_byte(DevicePage + 1) = d + PageSize /\ first_byte(DevicePage + 1 + 1) = d + PageSize + PageSize
      BY <2>0, Sizes
    <3>2. first_byte(DevicePage + 1 + 1) <= h /\ h \in Nat /\ d \in Nat
      BY <2>0, Sizes
    <3>3. first_byte(HeapPage + HeapPages) = h + HeapPages * PageSize
      BY <2>0 DEF first_byte
    <3> QED BY <3>1, <3>2, <3>3
  <2>2. /\ list = KernelRanges /\ DOMAIN list = {1, 2}
        /\ list[1].base = h - 1 /\ list[1].length = HeapPages * PageSize
        /\ list[1].writable = TRUE /\ list[1].type = "ANONYMOUS"
        /\ list[2].base = d /\ list[2].length = PageSize
        /\ list[2].writable = TRUE /\ list[2].type = "DIRECT"
    BY <1>3 DEF range_list, KernelRanges
  <2> HIDE DEF list, h, d
  <2>3. found = {} \/ found = {1} \/ found = {2} \/ found = {1, 2}
    BY <2>2
  <2>4. found # {} => first \in found
    BY <2>3
  <2>5. list[1] # NoRange /\ list[2] # NoRange
    BY <2>2 DEF NoRange
  <2>6. Low(virt) => found = {}
    BY <2>0, <2>1, <2>2 DEF Low, Holds, d
  <2>7. virt \in HeapBytes => found = {1}
    <3> SUFFICES ASSUME virt \in HeapBytes PROVE found = {1}
      OBVIOUS
    <3>1. virt \in Int /\ h <= virt /\ virt <= h + HeapPages * PageSize - 1
      BY <2>0, <2>1 DEF HeapBytes, h
    <3>2. Holds(list[1], virt) /\ ~ Holds(list[2], virt)
      BY <2>0, <2>1, <2>2, <3>1 DEF Holds
    <3> QED BY <2>2, <3>2
  <2>8. virt = first_byte(DevicePage) => found = {2}
    <3> SUFFICES ASSUME virt = d PROVE found = {2}
      BY DEF d
    <3>2. Holds(list[2], virt) /\ ~ Holds(list[1], virt)
      BY <2>0, <2>1, <2>2 DEF Holds
    <3> QED BY <2>2, <3>2
  <2>9. (found = {1} => first = 1) /\ (found = {2} => first = 2)
    BY <2>4
  <2> HIDE DEF found, first
  <2> QED BY <1>1, <1>3, <2>2, <2>3, <2>4, <2>5, <2>6, <2>7, <2>8, <2>9 DEF Maps
<1> QED BY <1>2, <1>3 DEF Maps

LEMMA FaultServedEffect ==
    ASSUME TypeOK, \A t \in Tasks : StackOk(t), FaultServed
    PROVE  /\ Depth >= 1 /\ Top.at = "body" /\ Top.fn = "handle_page_fault"
           /\ pml4[Top.lock][slot(Top.virt)] # 0 /\ ~ Present(Top.lock, Top.virt)
           /\ \/ /\ addr_to_range(Top.lock, Top.virt).type = "ANONYMOUS" /\ UNCHANGED pte
                 /\ Kept(Depth - 1, Depth + 1) /\ Same(Top, calls'[cur][Depth])
                 /\ calls'[cur][Depth].at = "fill" /\ calls'[cur][Depth].got = Top.got
                 /\ calls'[cur][Depth + 1] = alloc_pages
              \/ /\ addr_to_range(Top.lock, Top.virt) # NoRange
                 /\ addr_to_range(Top.lock, Top.virt).type # "ANONYMOUS"
                 /\ SetEntry(Top.lock, Top.virt, -page(Top.virt), addr_to_range(Top.lock, Top.virt).writable)
                 /\ Kept(Depth - 1, Depth) /\ Same(Top, calls'[cur][Depth])
                 /\ calls'[cur][Depth].at = "unlock" /\ calls'[cur][Depth].got = Top.got
<1> DEFINE range == addr_to_range(Top.lock, Top.virt)
           f == [Top EXCEPT !.at = "fill", !.writable = range.writable]
<1>1. calls[cur] # << >> /\ Top \in Frames /\ Depth >= 1
  BY DepthFacts DEF FaultServed, HasTable, Walks, Busy
<1>2. Top.at = "body" /\ Top.fn = "handle_page_fault" /\ Busy
      /\ pml4[Top.lock][slot(Top.virt)] # 0 /\ ~ Present(Top.lock, Top.virt)
  BY DEF FaultServed, HasTable, Walks
<1>3. CASE range.type = "ANONYMOUS"
  <2>1. CallFrom(f, alloc_pages) /\ UNCHANGED pte
    BY <1>3 DEF FaultServed, NeedsPage
  <2>2. f \in Frames /\ Same(Top, f) /\ f.at = "fill" /\ f.got = Top.got
    <3>1. range.writable \in BOOLEAN
      <4>1. Top.lock \in Maps
        BY <1>1, <1>2, TopOk DEF FrameOk, Maps
      <4> QED BY <4>1, RangeFacts DEF FaultServed
    <3> QED BY <1>1, <3>1 DEF Frames, Same, Points
  <2>3. alloc_pages \in Frames
    BY NewCalls DEF alloc_pages, Functions, Points, Locks, NoAddress
  <2> HIDE DEF f, range
  <2>4. Kept(Depth - 1, Depth + 1) /\ calls'[cur][Depth] = f /\ calls'[cur][Depth + 1] = alloc_pages
    BY <1>1, <2>1, <2>2, <2>3, CallFromKept
  <2> QED BY <1>1, <1>2, <1>3, <2>1, <2>2, <2>4 DEF range
<1>4. CASE range.type # "ANONYMOUS"
  <2>1. Continue([Top EXCEPT !.at = "unlock"])
    BY <1>4 DEF FaultServed
  <2> QED BY <1>1, <1>2, <1>4, <2>1, ToUnlockEffect DEF FaultServed, Points
<1> QED BY <1>3, <1>4

LEMMA exception_handlerEffect ==
    ASSUME TypeOK, exception_handler
    PROVE  /\ Depth >= 1 /\ Top.at = "exception" /\ Top.fn = "handle_page_fault"
           /\ Kept(Depth - 1, Depth + 1) /\ Same(Top, calls'[cur][Depth])
           /\ calls'[cur][Depth].at = "end" /\ calls'[cur][Depth].got = Top.got
           /\ calls'[cur][Depth + 1] = printf(NoAddress)
<1> DEFINE f == [Top EXCEPT !.at = "end"]
<1>1. calls[cur] # << >> /\ Top \in Frames /\ Depth >= 1
  BY DepthFacts DEF exception_handler, In, Busy
<1>2. f \in Frames /\ Same(Top, f) /\ f.at = "end" /\ f.got = Top.got
  BY <1>1, MovedFacts DEF Points
<1>3. printf(NoAddress) \in Frames
  BY NewCalls DEF printf, Functions, Points, Locks, NoAddress
<1>4. CallFrom(f, printf(NoAddress)) /\ Top.at = "exception" /\ Top.fn = "handle_page_fault"
  BY DEF exception_handler, In
<1> HIDE DEF f
<1> QED BY <1>1, <1>2, <1>3, <1>4, CallFromKept


LEMMA FaultFailsEffect ==
    ASSUME TypeOK, FaultFails
    PROVE  /\ Depth >= 1 /\ Top.at = "body" /\ Top.fn = "handle_page_fault"
           /\ Present(Top.lock, Top.virt) \/ addr_to_range(Top.lock, Top.virt) = NoRange
           /\ Kept(Depth - 1, Depth) /\ Same(Top, calls'[cur][Depth])
           /\ calls'[cur][Depth].at = "unlock_failed" /\ calls'[cur][Depth].got = Top.got
BY ToUnlockEffect DEF FaultFails, HasTable, Walks, Points

LEMMA MapPageEffect ==
    ASSUME TypeOK, MapPage
    PROVE  /\ Depth >= 1 /\ Top.at = "body" /\ Top.fn = "map_page"
           /\ pml4[Top.lock][slot(Top.virt)] # 0
           /\ Kept(Depth - 1, Depth) /\ Same(Top, calls'[cur][Depth])
           /\ calls'[cur][Depth].at = "unlock" /\ calls'[cur][Depth].got = Top.got
BY ToUnlockEffect DEF MapPage, HasTable, Walks, Points

LEMMA MapKernelEffect ==
    ASSUME TypeOK, MapKernel
    PROVE  /\ Depth >= 1 /\ Top.at = "body" /\ Top.fn = "map_kernel"
           /\ Kept(Depth - 1, Depth) /\ Same(Top, calls'[cur][Depth])
           /\ calls'[cur][Depth].at = "unlock" /\ calls'[cur][Depth].got = Top.got
BY ToUnlockEffect DEF MapKernel, In, Points

LEMMA FaultFillsEffect ==
    ASSUME TypeOK, FaultFills
    PROVE  /\ Depth >= 1 /\ Top.at = "fill" /\ Top.fn = "handle_page_fault"
           /\ Kept(Depth - 1, Depth) /\ Same(Top, calls'[cur][Depth])
           /\ calls'[cur][Depth].at = "unlock" /\ calls'[cur][Depth].got = Top.got
BY ToUnlockEffect DEF FaultFills, In, Points

LEMMA ReturnsEffect ==
    ASSUME TypeOK, iret \/ MmapAdds \/ Enqueue
    PROVE  Depth >= 1 /\ Kept(Depth - 1, Depth - 1)
<1>1. calls[cur] # << >> /\ Return
  BY DEF iret, MmapAdds, Enqueue, In, Busy
<1> QED BY <1>1, ReturnKept, DepthFacts

(* The program's buffers and what it touches are in the lower half. *)
LEMMA UserBytesAreLow ==
    ASSUME TypeOK, RangesOk, NEW virt \in UserBytes
    PROVE  Low(virt) /\ virt \in Int
<1> DEFINE n == Len(ranges)
           L == LongestMmap
           b == first_byte(ProgramPages)
           d == first_byte(DevicePage)
<1>0. n \in Nat
  <2>1. ranges \in Seq(MmapRanges)
    BY DEF TypeOK
  <2> QED BY <2>1
<1> HIDE DEF n
<1>1. n <= MaxRanges /\ L \in Nat /\ MaxRanges \in Nat /\ mmap_anon_base \in Nat
      /\ mmap_anon_base <= b + n * L /\ PageSize \in Nat /\ PageSize >= 1
      /\ b + MaxRanges * L + PageSize <= d
  <2>1. n <= MaxRanges /\ mmap_anon_base <= b + n * L
    BY DEF RangesOk, n
  <2>2. mmap_anon_base \in Nat
    BY DEF TypeOK
  <2> QED BY <2>1, <2>2, Sizes, LowerHalfAssumption
<1>2. b \in Nat /\ d \in Nat
  BY Sizes DEF DevicePage
<1>3. virt \in Nat /\ virt < mmap_anon_base + PageSize
  BY <1>1 DEF UserBytes
<1> HIDE DEF L, b, d
<1>4. n * L <= MaxRanges * L /\ n * L \in Nat /\ MaxRanges * L \in Nat
  BY <1>0, <1>1
<1>5. virt < d
  BY <1>0, <1>1, <1>2, <1>3, <1>4
<1> QED BY <1>3, <1>5 DEF Low, d

(* What the program touches of the kernel is in the upper half. *)
LEMMA KernelBytesAreHigh ==
    ASSUME NEW virt \in KernelBytes
    PROVE  virt \in Nat /\ slot(virt) \in KernelSlots
<1>1. CASE virt \in HeapBytes \/ virt = first_byte(DevicePage)
  BY <1>1, HighFacts DEF High
<1>2. CASE virt = first_byte(ImagePage)
  <2>1. virt \in Nat /\ page(virt) = ImagePage
    BY <1>2, PageBounds, Sizes DEF ImagePage
  <2> QED BY <2>1 DEF slot, ImagePage, KernelSlots
<1> QED BY <1>1, <1>2 DEF KernelBytes

(* A fault of the program that finds a range is in the lower half. *)
LEMMA FaultServedLow ==
    ASSUME TypeOK, \A t \in Tasks : StackOk(t), RangesOk, FaultServed, Top.user_mode
    PROVE  Low(Top.virt)
<1> DEFINE virt == Top.virt
           found == {i \in DOMAIN ranges : Holds(ranges[i], virt)}
<1>1. calls[cur] # << >> /\ Top.fn = "handle_page_fault"
      /\ addr_to_range(Top.lock, virt) # NoRange
  BY DEF FaultServed, HasTable, Walks, Busy
<1>2. Top.lock = "user_pagemap" /\ virt \in Nat
  BY <1>1, TopOk, KernelBytesAreHigh DEF FrameOk, Low
<1>3. PICK i \in DOMAIN ranges : Holds(ranges[i], virt)
  <2>1. found # {}
    BY <1>1, <1>2 DEF addr_to_range, range_list
  <2> QED BY <2>1
<1>4. ranges \in Seq(MmapRanges) /\ mmap_anon_base \in Nat
  BY DEF TypeOK
<1>5. ranges[i] \in MmapRanges
  BY <1>3, <1>4, SeqElement
<1> HIDE DEF virt
<1>6. virt <= ranges[i].base + ranges[i].length
  BY <1>3 DEF Holds
<1>7. ranges[i].base + ranges[i].length <= mmap_anon_base /\ ranges[i].base + ranges[i].length \in Int
  BY <1>3, <1>5 DEF RangesOk, RangesBelow, MmapRanges
<1>8. virt <= mmap_anon_base
  BY <1>2, <1>4, <1>6, <1>7
<1>9. virt \in UserBytes
  BY <1>2, <1>4, <1>8, Sizes DEF UserBytes
<1> QED BY <1>9, UserBytesAreLow DEF virt

LEMMA ProgramBytesAreLow ==
    ASSUME NEW virt \in ProgramBytes
    PROVE  Low(virt)
<1>1. LongestMmap \in Nat /\ MaxRanges \in Nat /\ PageSize \in Nat
      /\ first_byte(ProgramPages) \in Nat /\ first_byte(DevicePage) \in Nat
      /\ first_byte(ProgramPages) + MaxRanges * LongestMmap + PageSize <= first_byte(DevicePage)
  BY Sizes, LowerHalfAssumption DEF DevicePage
<1>2. MaxRanges * LongestMmap \in Nat
  BY <1>1
<1> QED BY <1>1, <1>2 DEF Low, ProgramBytes

LEMMA HeapFrame ==
    ASSUME NEW virt \in HeapBytes
    PROVE  /\ Heap(virt) \in Frames /\ Heap(virt).fn = "heap" /\ FrameOk(Heap(virt))
           /\ Heap(virt).at = "lock" /\ Heap(virt).got = 0
<1>1. virt \in Int
  BY HighFacts DEF High
<1>2. "heap" \in Functions /\ "lock" \in Points /\ "alloc_lock" \in Locks
  BY DEF Functions, Points, Locks
<1> QED BY <1>1, <1>2, NewCalls DEF Heap, FrameOk

(* A task that does nothing calls the heap, prints or touches an address. *)
Begins == HeapCall \/ Prints \/ ReadsDevice \/ UsesBuffer

LEMMA BeginsEffect ==
    ASSUME TypeOK, RangesOk, Begins
    PROVE  /\ Depth = 0 /\ Kept(0, 1)
           /\ calls'[cur][1].fn \in {"heap", "printf", "access"}
           /\ FrameOk(calls'[cur][1])
           /\ calls'[cur][1].got = 0
           /\ calls'[cur][1].lock # NoLock => calls'[cur][1].at = "lock"
           /\ cur = user => life = "alive"
           /\ UNCHANGED <<memory, keeper, intr, cur, life, status>>
<1>1. \E f \in Frames : /\ InKernel(f) /\ f.fn \in {"heap", "printf", "access"} /\ FrameOk(f)
                        /\ f.got = 0
                        /\ f.lock # NoLock => f.at = "lock"
  <2>2. ASSUME NEW virt \in Int, virt = NoAddress \/ Low(virt)
        PROVE  /\ printf(virt) \in Frames /\ printf(virt).fn = "printf" /\ FrameOk(printf(virt))
               /\ printf(virt).at = "lock" /\ printf(virt).got = 0
    <3>2. "printf" \in Functions /\ "lock" \in Points /\ "print_lock" \in Locks
      BY DEF Functions, Points, Locks
    <3> QED BY <2>2, <3>2, NewCalls DEF printf, FrameOk
  <2>3. ASSUME NEW virt \in Int, virt = first_byte(DevicePage) \/ Low(virt),
               NEW f, f = Call("access", "body", NoLock, virt)
        PROVE  f \in Frames /\ f.fn = "access" /\ FrameOk(f) /\ f.lock = NoLock /\ f.got = 0
    <3>2. "access" \in Functions /\ "body" \in Points
      BY DEF Functions, Points
    <3> QED BY <2>3, <3>2, NewCalls DEF FrameOk
  <2>4. CASE HeapCall
    BY HeapFrame, <2>4 DEF HeapCall
  <2>5. CASE Prints
    BY <2>2, <2>5 DEF Prints, NoAddress
  <2>6. CASE ReadsDevice
    <3>1. first_byte(DevicePage) \in Int
      BY Sizes DEF DevicePage
    <3> QED BY <2>3, <2>6, <3>1 DEF ReadsDevice
  <2>7. CASE UsesBuffer
    <3>1. PICK virt \in UserBytes : InKernel(Call("access", "body", NoLock, virt)) \/ InKernel(printf(virt))
      BY <2>7 DEF UsesBuffer
    <3>2. Low(virt) /\ virt \in Int
      BY UserBytesAreLow
    <3> QED BY <2>2, <2>3, <3>1, <3>2
  <2> QED BY <2>4, <2>5, <2>6, <2>7 DEF Begins
<1>2. PICK f \in Frames : /\ InKernel(f) /\ f.fn \in {"heap", "printf", "access"} /\ FrameOk(f)
                          /\ f.got = 0
                          /\ f.lock # NoLock => f.at = "lock"
  BY <1>1
<1>3. Begin(f) /\ calls[cur] = << >> /\ (cur = user => life = "alive")
      /\ UNCHANGED <<memory, keeper, intr, cur, life, status>>
  BY <1>2 DEF InKernel, Idle
<1>4. Depth = 0
  BY <1>3, DepthFacts
<1>5. Kept(0, 1) /\ calls'[cur][1] = f
  BY <1>3, <1>4, BeginKept
<1> QED BY <1>2, <1>3, <1>4, <1>5

LEMMA UserTouchEffect ==
    ASSUME TypeOK, RangesOk, NEW virt \in UserBytes \cup KernelBytes, NEW write \in BOOLEAN,
           UserTouch(virt, write)
    PROVE  /\ Depth = 0 /\ Kept(0, 1) /\ cur = user /\ life = "alive"
           /\ Low(virt) \/ virt \in KernelBytes
           /\ calls'[cur][1] = Fault("user_pagemap", virt, TRUE)
           /\ Fault("user_pagemap", virt, TRUE) \in Frames
           /\ calls'[cur][1].fn = "handle_page_fault" /\ calls'[cur][1].at = "lock"
           /\ calls'[cur][1].lock = "user_pagemap" /\ calls'[cur][1].virt = virt
           /\ calls'[cur][1].got = 0 /\ calls'[cur][1].user_mode
<1> DEFINE f == Fault("user_pagemap", virt, TRUE)
<1>1. Begin(f) /\ calls[cur] = << >> /\ cur = user /\ life = "alive"
  BY DEF UserTouch, Idle
<1>2. (Low(virt) \/ virt \in KernelBytes) /\ virt \in Int
  BY UserBytesAreLow, KernelBytesAreHigh
<1>3. f \in Frames /\ f.fn = "handle_page_fault" /\ f.at = "lock" /\ f.lock = "user_pagemap"
      /\ f.virt = virt /\ f.got = 0 /\ f.user_mode
  BY <1>2, FaultIsFrame DEF Maps
<1> HIDE DEF f
<1>4. Depth = 0
  BY <1>1, DepthFacts
<1>5. Kept(0, 1) /\ calls'[cur][1] = f
  BY <1>1, <1>3, <1>4, BeginKept
<1>6. f = Fault("user_pagemap", virt, TRUE)
  BY DEF f
<1> QED BY <1>1, <1>2, <1>3, <1>4, <1>5, <1>6

LEMMA mmapEffect ==
    ASSUME TypeOK, NEW length \in MmapLengths, NEW w \in BOOLEAN, mmap(length, w)
    PROVE  /\ Depth = 0 /\ Kept(0, 2) /\ cur = user /\ life = "alive" /\ Len(ranges) < MaxRanges
           /\ calls'[cur][1].fn = "mmap" /\ calls'[cur][1].at = "add"
           /\ calls'[cur][1].lock = NoLock /\ calls'[cur][1].virt = length
           /\ calls'[cur][1].got = 0
           /\ calls'[cur][2].fn = "heap" /\ FrameOk(calls'[cur][2])
           /\ calls'[cur][2].at = "lock" /\ calls'[cur][2].got = 0
<1> DEFINE f == [Call("mmap", "add", NoLock, length) EXCEPT !.writable = w]
<1>1. PICK virt \in HeapBytes : Idle /\ life = "alive" /\ calls' = [calls EXCEPT ![cur] = <<f, Heap(virt)>>]
  BY DEF mmap
<1>2. cur = user /\ Len(ranges) < MaxRanges
  BY DEF mmap
<1>3. length \in Int /\ virt \in Int
  BY SizesAssumption, HighFacts DEF High
<1>4. f \in Frames /\ f.fn = "mmap" /\ f.at = "add" /\ f.lock = NoLock /\ f.virt = length /\ f.got = 0
  BY <1>3 DEF Call, Frames, Functions, Points
<1>5. Heap(virt) \in Frames /\ Heap(virt).fn = "heap" /\ FrameOk(Heap(virt))
      /\ Heap(virt).at = "lock" /\ Heap(virt).got = 0
  BY HeapFrame
<1>6. calls[cur] = << >>
  BY <1>1 DEF Idle
<1> HIDE DEF f
<1>7. Kept(0, 2) /\ calls'[cur][1] = f /\ calls'[cur][2] = Heap(virt) /\ Depth = 0
  BY <1>1, <1>4, <1>5, <1>6, StartKept
<1> QED BY <1>1, <1>2, <1>4, <1>5, <1>7

LEMMA NewUserTaskEffect ==
    ASSUME TypeOK, NewUserTask
    PROVE  /\ Depth = 0 /\ Kept(0, 2) /\ cur = kernel_thread /\ life = "none"
           /\ calls'[cur][1].fn = "new_user_task" /\ calls'[cur][1].at = "pml4"
           /\ calls'[cur][1].lock = NoLock /\ calls'[cur][1].virt = 0
           /\ calls'[cur][1].got = 0
           /\ calls'[cur][2].fn = "heap" /\ FrameOk(calls'[cur][2])
           /\ calls'[cur][2].at = "lock" /\ calls'[cur][2].got = 0
<1> DEFINE f == Call("new_user_task", "pml4", NoLock, 0)
<1>1. PICK virt \in HeapBytes : calls' = [calls EXCEPT ![cur] = <<f, Heap(virt)>>]
  BY DEF NewUserTask
<1>2. cur = kernel_thread /\ life = "none" /\ calls[cur] = << >>
  BY DEF NewUserTask, Idle
<1>3. virt \in Int
  BY HighFacts DEF High
<1>4. f \in Frames /\ f.fn = "new_user_task" /\ f.at = "pml4" /\ f.lock = NoLock /\ f.virt = 0 /\ f.got = 0
  BY DEF Call, Frames, Functions, Points
<1>5. Heap(virt) \in Frames /\ Heap(virt).fn = "heap" /\ FrameOk(Heap(virt))
      /\ Heap(virt).at = "lock" /\ Heap(virt).got = 0
  BY HeapFrame
<1> HIDE DEF f
<1>7. Kept(0, 2) /\ calls'[cur][1] = f /\ calls'[cur][2] = Heap(virt) /\ Depth = 0
  BY <1>1, <1>2, <1>4, <1>5, StartKept
<1> QED BY <1>2, <1>4, <1>5, <1>7

LEMMA NeedsPageEffect ==
    ASSUME TypeOK, calls[cur] # << >>, NeedsPage(Top)
    PROVE  /\ Depth >= 1 /\ Kept(Depth - 1, Depth + 1) /\ calls'[cur][Depth] = Top
           /\ calls'[cur][Depth + 1] = alloc_pages
<1>1. alloc_pages \in Frames
  BY NewCalls DEF alloc_pages, Functions, Points, Locks, NoAddress
<1>2. Top \in Frames /\ Depth >= 1
  BY DepthFacts
<1> QED BY <1>1, <1>2, CallFromKept DEF NeedsPage

LEMMA NewPml4Effect ==
    ASSUME TypeOK, NewPml4
    PROVE  /\ Depth >= 1 /\ Top.fn = "new_user_task" /\ Top.at = "pml4"
           /\ Kept(Depth - 1, Depth + 1)
           /\ \/ /\ Top.got = 0 /\ calls'[cur][Depth] = Top /\ calls'[cur][Depth + 1] = alloc_pages
              \/ /\ Top.got # 0 /\ Same(Top, calls'[cur][Depth])
                 /\ calls'[cur][Depth].at = "pages" /\ calls'[cur][Depth].got = 0
                 /\ calls'[cur][Depth + 1] = map_kernel
<1> DEFINE f == [Top EXCEPT !.at = "pages", !.got = 0]
<1>1. calls[cur] # << >> /\ Top \in Frames /\ Depth >= 1
  BY DepthFacts DEF NewPml4, In, Busy
<1>2. Top.fn = "new_user_task" /\ Top.at = "pml4"
  BY DEF NewPml4, In
<1>3. CASE Top.got = 0
  BY <1>1, <1>2, <1>3, NeedsPageEffect DEF NewPml4
<1>4. CASE Top.got # 0
  <2>1. CallFrom(f, map_kernel)
    BY <1>4 DEF NewPml4
  <2>2. f \in Frames /\ Same(Top, f) /\ f.at = "pages" /\ f.got = 0
    BY <1>1 DEF Frames, Same, Points
  <2>3. map_kernel \in Frames
    BY NewCalls DEF map_kernel, Functions, Points, Locks, NoAddress, Maps
  <2> HIDE DEF f
  <2> QED BY <1>1, <1>2, <1>4, <2>1, <2>2, <2>3, CallFromKept
<1> QED BY <1>3, <1>4

LEMMA LoadPageEffect ==
    ASSUME TypeOK, LoadPage
    PROVE  /\ Depth >= 1 /\ Top.fn = "new_user_task" /\ Top.at = "pages" /\ Top.virt \in ProgramBytes
           /\ Kept(Depth - 1, Depth + 1)
           /\ \/ /\ Top.got = 0 /\ calls'[cur][Depth] = Top /\ calls'[cur][Depth + 1] = alloc_pages
              \/ /\ Top.got # 0
                 /\ calls'[cur][Depth].fn = "new_user_task" /\ calls'[cur][Depth].at = "pages"
                 /\ calls'[cur][Depth].lock = Top.lock /\ calls'[cur][Depth].got = 0
                 /\ calls'[cur][Depth].virt = Top.virt + PageSize
                 /\ calls'[cur][Depth + 1] = map_page(Top.got, Top.virt, Top.virt # 0)
                 /\ calls'[cur][Depth + 1].fn = "map_page" /\ calls'[cur][Depth + 1].at = "lock"
                 /\ calls'[cur][Depth + 1].lock = "user_pagemap"
                 /\ calls'[cur][Depth + 1].virt = Top.virt
                 /\ calls'[cur][Depth + 1].phy = Top.got /\ calls'[cur][Depth + 1].got = 0
<1> DEFINE f == [Top EXCEPT !.virt = @ + PageSize, !.got = 0]
           g == map_page(Top.got, Top.virt, Top.virt # 0)
<1>1. calls[cur] # << >> /\ Top \in Frames /\ Depth >= 1
  BY DepthFacts DEF LoadPage, In, Busy
<1>2. Top.fn = "new_user_task" /\ Top.at = "pages" /\ Top.virt \in ProgramBytes
  BY DEF LoadPage, In
<1>3. CASE Top.got = 0
  BY <1>1, <1>2, <1>3, NeedsPageEffect DEF LoadPage
<1>4. CASE Top.got # 0
  <2>1. CallFrom(f, g)
    BY <1>4 DEF LoadPage
  <2>2. f \in Frames /\ f.fn = Top.fn /\ f.at = Top.at /\ f.lock = Top.lock
        /\ f.virt = Top.virt + PageSize /\ f.got = 0
    <3>1. Top.virt \in Int /\ PageSize \in Int
      BY <1>1, Sizes, FrameTypes
    <3>2. Top.virt + PageSize \in Int
      BY <3>1
    <3> QED BY <1>1, <3>2 DEF Frames
  <2>3. g \in Frames /\ g.fn = "map_page" /\ g.at = "lock" /\ g.lock = "user_pagemap"
        /\ g.virt = Top.virt /\ g.phy = Top.got /\ g.got = 0
    <3>1. (Top.virt # 0) \in BOOLEAN /\ Top.virt \in Int /\ Top.got \in Nat
      BY <1>1, FrameTypes
    <3> QED BY <3>1 DEF map_page, Call, Frames, Functions, Points, Locks, Maps
  <2> HIDE DEF f, g
  <2>4. Kept(Depth - 1, Depth + 1) /\ calls'[cur][Depth] = f /\ calls'[cur][Depth + 1] = g
    BY <1>1, <2>1, <2>2, <2>3, CallFromKept
  <2>5. g = map_page(Top.got, Top.virt, Top.virt # 0)
    BY DEF g
  <2> QED BY <1>1, <1>2, <1>4, <2>2, <2>3, <2>4, <2>5
<1> QED BY <1>3, <1>4

-----------------------------------------------------------------------------
(* The shape of the stacks is kept. *)

LEMMA KeptFrames ==
    ASSUME TypeOK, NEW k, NEW m, Kept(k, m), NEW i \in 1 .. m
    PROVE  calls'[cur][i] \in Frames
<1>1. calls'[cur] \in Seq(Frames) /\ Len(calls'[cur]) = m
  BY DEF Kept, TypeOK
<1>2. i \in DOMAIN calls'[cur]
  BY <1>1
<1> QED BY <1>1, <1>2, SeqElement

(* It is enough to look at the new calls. *)
LEMMA StackStep ==
    ASSUME TypeOK, \A t \in Tasks : StackOk(t), NEW k, NEW m, Kept(k, m),
           \A t \in Tasks, f \in Frames :
             BottomOk(t, f, life) /\ (t = cur => k >= 1) => BottomOk(t, f, life'),
           \A i \in (k + 1) .. m :
             /\ FrameOk(calls'[cur][i])
             /\ i = 1 => BottomOk(cur, calls'[cur][i], life')
             /\ i > 1 => CallOk(calls'[cur][i - 1], calls'[cur][i]),
           m >= 1 /\ calls'[cur][m].at \in {"table", "fill"} => calls'[cur][m].got # 0
    PROVE  \A t \in Tasks : StackOk(t)'
<1> TAKE t \in Tasks
<1>0. cur \in Tasks /\ calls[t] \in Seq(Frames) /\ Len(calls[t]) \in Nat
  BY DepthFacts
<1>1. CASE t # cur
  <2>1. calls'[t] = calls[t]
    BY <1>1 DEF Kept
  <2>2. \A i \in 1 .. Len(calls[t]) :
          /\ FrameOk(calls[t][i])
          /\ i = 1 => BottomOk(t, calls[t][i], life)
          /\ i > 1 => CallOk(calls[t][i - 1], calls[t][i])
          /\ i = Len(calls[t]) /\ calls[t][i].at \in {"table", "fill"} => calls[t][i].got # 0
    BY DEF StackOk
  <2>3. \A i \in 1 .. Len(calls[t]) : calls[t][i] \in Frames
    BY DepthFacts
  <2>4. \A i \in 1 .. Len(calls[t]) : i = 1 => BottomOk(t, calls[t][i], life')
    BY <1>1, <2>2, <2>3
  <2> QED BY <2>1, <2>2, <2>4 DEF StackOk
<1>2. CASE t = cur
  <2>1. Len(calls'[t]) = m /\ k \in Nat /\ m \in Nat /\ k <= m /\ k <= Len(calls[t])
    BY <1>0, <1>2 DEF Kept
  <2>2. ASSUME NEW i \in 1 .. k
        PROVE  /\ FrameOk(calls'[t][i])
               /\ i = 1 => BottomOk(t, calls'[t][i], life')
               /\ i > 1 => CallOk(calls'[t][i - 1], calls'[t][i])
    <3>1. i \in 1 .. Len(calls[t]) /\ i \in Nat /\ k >= 1
      BY <2>1, <2>2, <1>0
    <3>2. calls'[t][i] = calls[t][i] /\ calls[t][i] \in Frames
      BY <1>2, <2>2, <3>1, DepthFacts DEF Kept
    <3>3. i > 1 => calls'[t][i - 1] = calls[t][i - 1]
      <4> SUFFICES ASSUME i > 1 PROVE calls'[t][i - 1] = calls[t][i - 1]
        OBVIOUS
      <4>1. i - 1 \in 1 .. k
        BY <2>1, <2>2, <3>1
      <4> QED BY <1>2, <4>1 DEF Kept
    <3>4. /\ FrameOk(calls[t][i])
          /\ i = 1 => BottomOk(t, calls[t][i], life)
          /\ i > 1 => CallOk(calls[t][i - 1], calls[t][i])
      BY <3>1 DEF StackOk
    <3> QED BY <1>2, <3>1, <3>2, <3>3, <3>4
  <2>3. \A i \in 1 .. m : i \in 1 .. k \/ i \in (k + 1) .. m
    BY <2>1
  <2>4. \A i \in 1 .. m :
          /\ FrameOk(calls'[t][i])
          /\ i = 1 => BottomOk(t, calls'[t][i], life')
          /\ i > 1 => CallOk(calls'[t][i - 1], calls'[t][i])
    BY <1>2, <2>2, <2>3
  <2>5. \A i \in 1 .. m : i = m /\ calls'[t][i].at \in {"table", "fill"} => calls'[t][i].got # 0
    BY <1>2, <2>1
  <2> QED BY <2>1, <2>4, <2>5 DEF StackOk
<1> QED BY <1>1, <1>2

(* What became of the user task is not forgotten. *)
LifeGoesOn == life' = life \/ (life # "none" /\ life' # "none")

LEMMA BottomsStay ==
    ASSUME LifeGoesOn
    PROVE  \A t, f : BottomOk(t, f, life) => BottomOk(t, f, life')
BY DEF LifeGoesOn, BottomOk

(* g stands in for f as a callee. *)
StandsFor(f, g) == g.fn = f.fn /\ (Same(f, g) \/ f.fn = "new_user_task")

LEMMA TopReplaced ==
    ASSUME TypeOK, \A t \in Tasks : StackOk(t), Depth >= 1, LifeGoesOn,
           NEW m, Kept(Depth - 1, m), m >= Depth, StandsFor(Top, calls'[cur][Depth])
    PROVE  /\ Depth = 1 => BottomOk(cur, calls'[cur][Depth], life')
           /\ Depth > 1 => CallOk(calls'[cur][Depth - 1], calls'[cur][Depth])
<1>1. Depth \in Nat /\ calls[cur] # << >>
  BY DepthFacts
<1>2. CASE Depth = 1
  <2>1. BottomOk(cur, Top, life')
    BY <1>1, <1>2, TopOk, BottomsStay
  <2> QED BY <1>2, <2>1 DEF BottomOk, StandsFor, Same
<1>3. CASE Depth > 1
  <2>1. CallOk(calls[cur][Depth - 1], Top)
    BY <1>1, <1>3, TopOk
  <2>2. Depth - 1 \in 1 .. (Depth - 1)
    BY <1>1, <1>3
  <2>3. calls'[cur][Depth - 1] = calls[cur][Depth - 1]
    BY <2>2 DEF Kept
  <2>4. Top.fn # "new_user_task"
    BY <2>1 DEF CallOk
  <2> QED BY <1>3, <2>1, <2>3, <2>4 DEF CallOk, StandsFor, Same
<1> QED BY <1>1, <1>2, <1>3

(* A call goes on. *)
LEMMA StackMoves ==
    ASSUME TypeOK, \A t \in Tasks : StackOk(t), Depth >= 1, LifeGoesOn,
           Kept(Depth - 1, Depth), Same(Top, calls'[cur][Depth]), FrameOk(calls'[cur][Depth]),
           calls'[cur][Depth].at \notin {"table", "fill"}
    PROVE  \A t \in Tasks : StackOk(t)'
<1>1. Depth \in Nat
  BY DepthFacts
<1> DEFINE k == Depth - 1
<1>2. k + 1 = Depth /\ \A i \in (k + 1) .. Depth : i = Depth
  BY <1>1
<1>3. /\ Depth = 1 => BottomOk(cur, calls'[cur][Depth], life')
      /\ Depth > 1 => CallOk(calls'[cur][Depth - 1], calls'[cur][Depth])
  BY <1>1, TopReplaced DEF StandsFor, Same
<1>4. Kept(k, Depth)
  OBVIOUS
<1> HIDE DEF k
<1> QED BY <1>1, <1>2, <1>3, <1>4, StackStep, BottomsStay

(* A call makes another. *)
LEMMA StackCalls ==
    ASSUME TypeOK, \A t \in Tasks : StackOk(t), Depth >= 1, LifeGoesOn,
           Kept(Depth - 1, Depth + 1), StandsFor(Top, calls'[cur][Depth]),
           FrameOk(calls'[cur][Depth]), FrameOk(calls'[cur][Depth + 1]),
           CallOk(calls'[cur][Depth], calls'[cur][Depth + 1]),
           calls'[cur][Depth + 1].at \notin {"table", "fill"}
    PROVE  \A t \in Tasks : StackOk(t)'
<1>1. Depth \in Nat
  BY DepthFacts
<1> DEFINE k == Depth - 1
           m == Depth + 1
<1>2. k + 1 = Depth /\ m - 1 = Depth /\ m >= Depth /\ m > 1 /\ \A i \in (k + 1) .. m : i = Depth \/ i = m
  BY <1>1
<1>3. /\ Depth = 1 => BottomOk(cur, calls'[cur][Depth], life')
      /\ Depth > 1 => CallOk(calls'[cur][Depth - 1], calls'[cur][Depth])
  BY <1>1, <1>2, TopReplaced
<1>4. Kept(k, m)
  OBVIOUS
<1>5. FrameOk(calls'[cur][m]) /\ CallOk(calls'[cur][m - 1], calls'[cur][m])
      /\ calls'[cur][m].at \notin {"table", "fill"}
  BY <1>2
<1> HIDE DEF k, m
<1> QED BY <1>1, <1>2, <1>3, <1>4, <1>5, StackStep, BottomsStay

(* A call returns. *)
LEMMA StackReturns ==
    ASSUME TypeOK, \A t \in Tasks : StackOk(t), Depth >= 1, Kept(Depth - 1, Depth - 1),
           Top.fn # "alloc_pages",
           \A t \in Tasks, f \in Frames :
             BottomOk(t, f, life) /\ (t = cur => Depth > 1) => BottomOk(t, f, life')
    PROVE  \A t \in Tasks : StackOk(t)'
<1>1. Depth \in Nat /\ calls[cur] # << >> /\ Depth = Len(calls[cur]) /\ cur \in Tasks
  BY DepthFacts
<1> DEFINE k == Depth - 1
<1>2. (k >= 1 <=> Depth > 1) /\ k \in Nat /\ \A i \in (k + 1) .. k : FALSE
  BY <1>1
<1>3. ASSUME k >= 1 PROVE calls'[cur][k].at \notin {"table", "fill"}
  <2>1. CallOk(calls[cur][k], Top) /\ k \in 1 .. Depth /\ k \in 1 .. k
    BY <1>1, <1>2, <1>3, TopOk
  <2>2. FrameOk(calls[cur][k])
    BY <1>1, <2>1 DEF StackOk
  <2>3. calls'[cur][k] = calls[cur][k]
    BY <2>1 DEF Kept
  <2> QED BY <2>1, <2>2, <2>3 DEF CallOk, FrameOk
<1>4. Kept(k, k)
  OBVIOUS
<1> HIDE DEF k
<1> QED BY <1>2, <1>3, <1>4, StackStep

LEMMA RangesKept ==
    ASSUME TypeOK, RangesOk, LifeGoesOn, UNCHANGED <<ranges, mmap_anon_base>>, NEW k, NEW m, Kept(k, m),
           cur = user /\ k = 0 /\ m >= 1 /\ calls'[cur][1].fn = "mmap" => Len(ranges) < MaxRanges
    PROVE  RangesOk'
<1>1. user \in Tasks /\ k \in Nat /\ k <= Len(calls[cur]) /\ m \in Nat /\ Len(calls[cur]) \in Nat
  BY TasksAssumption, DepthFacts DEF Kept
<1>2. ASSUME Len(calls'[user]) >= 1, calls'[user][1].fn = "mmap" PROVE Len(ranges) < MaxRanges
  <2>1. CASE user # cur
    BY <1>1, <1>2, <2>1 DEF Kept, RangesOk
  <2>2. CASE user = cur /\ k = 0
    BY <1>2, <2>2 DEF Kept
  <2>3. CASE user = cur /\ k # 0
    <3>1. 1 \in 1 .. k /\ Len(calls[user]) >= 1
      BY <1>1, <2>3
    <3>2. calls'[user][1] = calls[user][1]
      BY <2>3, <3>1 DEF Kept
    <3> QED BY <1>2, <3>1, <3>2 DEF RangesOk
  <2> QED BY <2>1, <2>2, <2>3
<1>3. RangesBelow(ranges', mmap_anon_base') /\ RangesLater'
  BY DEF RangesOk, RangesLater, LifeGoesOn
<1> QED BY <1>2, <1>3 DEF RangesOk, RangesBelow

(* An action on pml4 gives a slot another table. *)
LEMMA Pml4Types ==
    ASSUME TypeOK, NEW m \in Maps, NEW s \in Slots, NEW n \in Nat,
           pml4' = [pml4 EXCEPT ![m][s] = n]
    PROVE  pml4' \in [Maps -> [Slots -> Nat]]
<1>1. pml4 \in [Maps -> [Slots -> Nat]]
  BY DEF TypeOK
<1>2. pml4[m] \in [Slots -> Nat]
  BY <1>1
<1> QED BY <1>1, <1>2

LEMMA SlotType ==
    ASSUME NEW virt
    PROVE  slot(virt) \in Slots
BY DEF slot, Slots

LEMMA MapKernelTypes ==
    ASSUME TypeOK, MapKernel
    PROVE  /\ pml4' \in [Maps -> [Slots -> Nat]]
           /\ pml4'["kernel_pagemap"] = pml4["kernel_pagemap"]
           /\ pml4'["user_pagemap"]["low"] = pml4["user_pagemap"]["low"]
           /\ \A s \in KernelSlots : pml4'["user_pagemap"][s] = pml4["kernel_pagemap"][s]
<1> DEFINE u == [s \in Slots |-> IF s \in KernelSlots THEN pml4["kernel_pagemap"][s]
                                 ELSE pml4["user_pagemap"][s]]
<1>1. pml4 \in [Maps -> [Slots -> Nat]] /\ "user_pagemap" \in Maps /\ "kernel_pagemap" \in Maps
  BY DEF TypeOK, Maps
<1>2. pml4["kernel_pagemap"] \in [Slots -> Nat] /\ pml4["user_pagemap"] \in [Slots -> Nat]
  BY <1>1
<1>3. u \in [Slots -> Nat]
  BY <1>2
<1>4. pml4' = [pml4 EXCEPT !["user_pagemap"] = u]
  BY DEF MapKernel
<1>5. u["low"] = pml4["user_pagemap"]["low"] /\ \A s \in KernelSlots : u[s] = pml4["kernel_pagemap"][s]
  BY DEF KernelSlots, Slots
<1> HIDE DEF u
<1> QED BY <1>1, <1>3, <1>4, <1>5 DEF Maps

(* Who can wait for the lock of a page map or set a table of it. *)
LEMMA WalkerLock ==
    ASSUME NEW f \in Frames, FrameOk(f), f.fn \in {"handle_page_fault", "map_page"}
    PROVE  f.lock \in Maps /\ f.lock \in Locks
BY FrameTypes DEF FrameOk, Maps, Locks

LEMMA TableFrames ==
    ASSUME NEW f \in Frames, FrameOk(f), f.at = "table"
    PROVE  f.fn \in {"handle_page_fault", "map_page"}
BY FrameTypes DEF FrameOk, Functions

LEMMA LockFrames ==
    ASSUME NEW f \in Frames, FrameOk(f), f.at \in {"lock", "unlock", "unlock_failed"}
    PROVE  f.lock \in Locks
BY FrameTypes DEF FrameOk, Maps, Locks, Functions

LEMMA AlignedLength ==
    ASSUME NEW n \in Nat
    PROVE  align_up(n) \in Nat
<1>1. PageSize \in Nat /\ PageSize > 0 /\ n + PageSize - 1 \in Nat
  BY Sizes
<1>2. (n + PageSize - 1) \div PageSize \in Nat
  BY <1>1
<1> QED BY <1>1, <1>2 DEF align_up

(* The types, but for those of the calls. *)
LEMMA TypesStep ==
    ASSUME ShapeInv, Next, calls' \in [Tasks -> Seq(Frames)]
    PROVE  TypeOK'
<1> USE DEF ShapeInv
<1>1. CASE lock
  <2>1. keeper' \in [Locks -> Tasks \cup {NoTask}]
    <3>1. keeper' = [keeper EXCEPT ![Top.lock] = cur]
      BY <1>1 DEF lock
    <3> QED BY <3>1 DEF TypeOK
  <2> QED BY <1>1, <2>1 DEF lock, TypeOK, memory
<1>2. CASE SpinTooMuch
  BY <1>2 DEF SpinTooMuch, TypeOK, memory
<1>3. CASE unlock
  <2>1. keeper' \in [Locks -> Tasks \cup {NoTask}]
    <3>1. keeper' = [keeper EXCEPT ![Top.lock] = NoTask]
      BY <1>3 DEF unlock
    <3> QED BY <3>1 DEF TypeOK
  <2>2. intr' = TRUE /\ UNCHANGED <<memory, cur, life, status>>
    BY <1>3 DEF unlock
  <2> QED BY <2>1, <2>2 DEF TypeOK, memory
<1>4. CASE \E t \in Tasks : Tick(t)
  BY <1>4 DEF Tick, TypeOK, memory
<1>5. CASE KernelTouch
  <2>1. intr' \in BOOLEAN /\ UNCHANGED <<memory, keeper, cur, life, status>>
    <3>1. intr' = intr \/ intr' = FALSE
      BY <1>5 DEF KernelTouch
    <3> QED BY <1>5, <3>1 DEF KernelTouch, TypeOK
  <2> QED BY <2>1 DEF TypeOK, memory
<1>6. CASE TakePage
  <2>1. granted' \in Nat /\ granted' >= 2
    <3>1. granted \in Nat /\ granted >= 2 /\ granted' = granted + 1
      BY <1>6 DEF TakePage, TypeOK
    <3> QED BY <3>1
  <2>2. UNCHANGED <<pml4, pte, ranges, mmap_anon_base, keeper, intr, cur, life, status>>
    BY <1>6 DEF TakePage
  <2> QED BY <2>1, <2>2 DEF TypeOK
<1>7. CASE page_table_next_level
  BY <1>7 DEF page_table_next_level, TypeOK, memory
<1>8. CASE SetTable
  <2>1. Busy /\ Top.at = "table" /\ pml4' = [pml4 EXCEPT ![Top.lock][slot(Top.virt)] = Top.got]
    BY <1>8 DEF SetTable
  <2>2. Top \in Frames /\ FrameOk(Top)
    BY <2>1, TopOk DEF Busy
  <2>3. Top.lock \in Maps /\ Top.got \in Nat
    BY <2>1, <2>2, WalkerLock, TableFrames, FrameTypes
  <2>4. pml4' \in [Maps -> [Slots -> Nat]]
    BY <2>1, <2>3, SlotType, Pml4Types
  <2> QED BY <1>8, <2>4 DEF SetTable, TypeOK
<1>9. CASE MapPage
  BY <1>9 DEF MapPage, TypeOK
<1>10. CASE MapKernel
  <2>1. pml4' \in [Maps -> [Slots -> Nat]]
    BY <1>10, MapKernelTypes
  <2> QED BY <1>10, <2>1 DEF MapKernel, TypeOK
<1>11. CASE FaultFails
  BY <1>11 DEF FaultFails, TypeOK, memory
<1>12. CASE FaultServed
  <2>1. UNCHANGED <<pml4, granted, ranges, mmap_anon_base, keeper, intr, cur, life, status>>
    BY <1>12 DEF FaultServed
  <2> QED BY <2>1 DEF TypeOK
<1>13. CASE FaultFills
  BY <1>13 DEF FaultFills, TypeOK
<1>14. CASE iret
  <2>1. Top.flag \in BOOLEAN
    <3>1. Top \in Frames
      BY <1>14, TopOk DEF iret, In, Busy
    <3> QED BY <3>1, FrameTypes
  <2> QED BY <1>14, <2>1 DEF iret, TypeOK, memory
<1>15. CASE exception_handler
  BY <1>15 DEF exception_handler, TypeOK, memory
<1>16. CASE ExceptionEnds
  <2>1. (life' = "dead" \/ life' = life) /\ (intr' = TRUE \/ intr' = intr)
        /\ (status' = status \/ status' = "cannot recover")
        /\ UNCHANGED <<memory, keeper, cur, calls>>
    BY <1>16 DEF ExceptionEnds
  <2>2. life' \in {"none", "alive", "dead"} /\ status' \in {"ok", "spun too much", "cannot recover"}
    BY <2>1 DEF TypeOK
  <2>3. intr' \in BOOLEAN
    BY <2>1 DEF TypeOK
  <2> QED BY <2>1, <2>2, <2>3 DEF TypeOK, memory
<1>17. CASE Begins
  <2>1. UNCHANGED <<memory, keeper, intr, cur, life, status>>
    BY <1>17, BeginsEffect
  <2> QED BY <2>1 DEF TypeOK, memory
<1>18. CASE \E virt \in UserBytes \cup KernelBytes, write \in BOOLEAN : UserTouch(virt, write)
  BY <1>18 DEF UserTouch, TypeOK, memory
<1>19. CASE \E length \in MmapLengths, w \in BOOLEAN : mmap(length, w)
  <2>1. UNCHANGED <<memory, keeper, intr, cur, life, status>>
    BY <1>19 DEF mmap
  <2> QED BY <2>1 DEF TypeOK, memory
<1>20. CASE MmapAdds
  <2> DEFINE n == align_up(Top.virt)
             r == [base |-> mmap_anon_base, length |-> n, writable |-> Top.writable, type |-> "ANONYMOUS"]
  <2>1. ranges' = << r >> \o ranges /\ mmap_anon_base' = mmap_anon_base + n
        /\ UNCHANGED <<pml4, pte, granted, keeper, intr, cur, life, status>>
        /\ Busy /\ Top.fn = "mmap"
    BY <1>20 DEF MmapAdds, In
  <2>2. Top \in Frames /\ FrameOk(Top)
    BY <2>1, TopOk DEF Busy
  <2>3. Top.virt \in Nat /\ Top.writable \in BOOLEAN
    BY <2>1, <2>2, SizesAssumption, FrameTypes DEF FrameOk
  <2>4. n \in Nat
    BY <2>3, AlignedLength
  <2>5. mmap_anon_base \in Nat /\ ranges \in Seq(MmapRanges)
    BY DEF TypeOK
  <2> HIDE DEF n
  <2>6. r \in MmapRanges
    BY <2>3, <2>4, <2>5 DEF MmapRanges
  <2> HIDE DEF r
  <2>7. << r >> \o ranges \in Seq(MmapRanges) /\ mmap_anon_base + n \in Nat
    BY <2>4, <2>5, <2>6
  <2> QED BY <2>1, <2>7 DEF TypeOK
<1>21. CASE NewUserTask
  BY <1>21 DEF NewUserTask, TypeOK, memory
<1>22. CASE NewPml4
  <2>1. UNCHANGED <<memory, keeper, intr, cur, life, status>>
    BY <1>22 DEF NewPml4
  <2> QED BY <2>1 DEF TypeOK, memory
<1>23. CASE LoadPage
  <2>1. UNCHANGED <<memory, keeper, intr, cur, life, status>>
    BY <1>23 DEF LoadPage
  <2> QED BY <2>1 DEF TypeOK, memory
<1>24. CASE Enqueue
  <2>1. Top.virt \in Nat
    <3>1. Busy /\ Top.fn = "new_user_task"
      BY <1>24 DEF Enqueue, In
    <3>2. PageAligned(Top.virt)
      BY <3>1, TopOk DEF Busy, FrameOk
    <3> QED BY <3>2, Sizes DEF PageAligned
  <2> QED BY <1>24, <2>1 DEF Enqueue, TypeOK
<1> QED
  BY <1>1, <1>2, <1>3, <1>4, <1>5, <1>6, <1>7, <1>8, <1>9, <1>10, <1>11, <1>12, <1>13, <1>14,
     <1>15, <1>16, <1>17, <1>18, <1>19, <1>20, <1>21, <1>22, <1>23, <1>24 DEF Next, Begins

(* Steps that change no stack and no range. *)
LEMMA ShapeStutters ==
    ASSUME ShapeInv, UNCHANGED <<calls, ranges, mmap_anon_base>>, LifeGoesOn
    PROVE  (\A t \in Tasks : StackOk(t)') /\ RangesOk'
<1>1. ASSUME NEW t \in Tasks PROVE StackOk(t)'
  <2>1. \A i \in 1 .. Len(calls[t]) : BottomOk(t, calls[t][i], life) => BottomOk(t, calls[t][i], life')
    BY BottomsStay
  <2>2. StackOk(t)
    BY DEF ShapeInv
  <2> QED BY <2>1, <2>2 DEF StackOk
<1>2. RangesOk'
  BY DEF RangesOk, RangesBelow, RangesLater, LifeGoesOn, ShapeInv
<1> QED BY <1>1, <1>2

LEMMA ShapeMoves ==
    ASSUME ShapeInv, Depth >= 1, LifeGoesOn, UNCHANGED <<ranges, mmap_anon_base>>,
           Kept(Depth - 1, Depth), Same(Top, calls'[cur][Depth]), FrameOk(calls'[cur][Depth]),
           calls'[cur][Depth].at \notin {"table", "fill"}
    PROVE  (\A t \in Tasks : StackOk(t)') /\ RangesOk' /\ calls' \in [Tasks -> Seq(Frames)]
<1> USE DEF ShapeInv
<1>1. \A t \in Tasks : StackOk(t)'
  BY StackMoves
<1>2. cur = user /\ Depth - 1 = 0 /\ calls'[cur][1].fn = "mmap" => Len(ranges) < MaxRanges
  <2>1. Depth \in Nat /\ Depth = Len(calls[cur]) /\ Top = calls[cur][Depth]
    BY DepthFacts
  <2> QED BY <2>1 DEF RangesOk, Same
<1> QED BY <1>1, <1>2, RangesKept DEF Kept

LEMMA ShapeCalls ==
    ASSUME ShapeInv, Depth >= 1, LifeGoesOn, UNCHANGED <<ranges, mmap_anon_base>>,
           Kept(Depth - 1, Depth + 1), StandsFor(Top, calls'[cur][Depth]),
           FrameOk(calls'[cur][Depth]), FrameOk(calls'[cur][Depth + 1]),
           CallOk(calls'[cur][Depth], calls'[cur][Depth + 1]),
           calls'[cur][Depth + 1].at \notin {"table", "fill"}
    PROVE  (\A t \in Tasks : StackOk(t)') /\ RangesOk' /\ calls' \in [Tasks -> Seq(Frames)]
<1> USE DEF ShapeInv
<1>1. \A t \in Tasks : StackOk(t)'
  BY StackCalls
<1>2. cur = user /\ Depth - 1 = 0 /\ calls'[cur][1].fn = "mmap" => Len(ranges) < MaxRanges
  <2>1. Depth \in Nat /\ Depth = Len(calls[cur]) /\ Top = calls[cur][Depth]
    BY DepthFacts
  <2> QED BY <2>1 DEF RangesOk, StandsFor
<1> QED BY <1>1, <1>2, RangesKept DEF Kept

LEMMA ShapeReturns ==
    ASSUME ShapeInv, Depth >= 1, LifeGoesOn, UNCHANGED <<ranges, mmap_anon_base>>,
           Kept(Depth - 1, Depth - 1), Top.fn # "alloc_pages"
    PROVE  (\A t \in Tasks : StackOk(t)') /\ RangesOk' /\ calls' \in [Tasks -> Seq(Frames)]
<1> USE DEF ShapeInv
<1>1. \A t \in Tasks : StackOk(t)'
  BY StackReturns, BottomsStay
<1>2. ~ (Depth - 1 = 0 /\ Depth - 1 >= 1)
  OBVIOUS
<1> QED BY <1>1, <1>2, RangesKept DEF Kept

(* A frame moved on. *)
LEMMA FrameMoves ==
    ASSUME NEW f, FrameOk(f), NEW g, Same(f, g),
           \/ f.fn \in {"heap", "printf", "map_kernel"} /\ g.at \in {"lock", "body", "unlock"}
           \/ f.fn = "alloc_pages" /\ g.at \in {"lock", "body", "unlock"} /\ (g.at = "unlock" <=> g.got # 0)
           \/ f.fn = "handle_page_fault" /\ (g.at \in {"lock", "body"} => g.got = 0)
              /\ (g.at = "fill" => f.at = "fill" \/ ~ f.user_mode \/ Low(f.virt))
              /\ g.at \in {"lock", "body", "table", "fill", "unlock", "unlock_failed", "iret",
                           "exception", "end"}
           \/ f.fn = "map_page" /\ (g.at \in {"lock", "body"} => g.got = 0)
              /\ g.at \in {"lock", "body", "table", "unlock"}
           \/ f.fn = "new_user_task" /\ g.at \in {"pml4", "pages"} /\ (g.at = "pml4" => f.at = "pml4")
    PROVE  FrameOk(g)
<1>1. CASE f.fn \in {"heap", "printf", "map_kernel"}
  BY <1>1 DEF FrameOk, Same
<1>2. CASE f.fn = "alloc_pages"
  BY <1>2 DEF FrameOk, Same
<1>3. CASE f.fn = "handle_page_fault"
  BY <1>3 DEF FrameOk, Same
<1>4. CASE f.fn = "map_page"
  BY <1>4 DEF FrameOk, Same
<1>5. CASE f.fn = "new_user_task"
  BY <1>5 DEF FrameOk, Same
<1> QED BY <1>1, <1>2, <1>3, <1>4, <1>5

LEMMA NewFrames ==
    /\ alloc_pages.fn = "alloc_pages" /\ alloc_pages.at = "lock" /\ FrameOk(alloc_pages)
    /\ printf(NoAddress).fn = "printf" /\ printf(NoAddress).at = "lock" /\ FrameOk(printf(NoAddress))
    /\ printf(NoAddress).virt = NoAddress
    /\ map_kernel.fn = "map_kernel" /\ map_kernel.at = "lock" /\ FrameOk(map_kernel)
    /\ map_kernel.lock = "user_pagemap" /\ alloc_pages.lock = "pmm_lock"
    /\ printf(NoAddress).lock = "print_lock" /\ alloc_pages.got = 0 /\ map_kernel.got = 0
    /\ printf(NoAddress).got = 0
<1>1. "alloc_pages" \in Functions /\ "printf" \in Functions /\ "map_kernel" \in Functions
      /\ "lock" \in Points /\ {"pmm_lock", "print_lock", "user_pagemap"} \subseteq Locks
      /\ NoAddress \in Int
  BY DEF Functions, Points, Locks, Maps, NoAddress
<1>2. alloc_pages.fn = "alloc_pages" /\ alloc_pages.at = "lock" /\ alloc_pages.lock = "pmm_lock"
      /\ alloc_pages.got = 0
  BY <1>1, NewCalls DEF alloc_pages
<1>3. printf(NoAddress).fn = "printf" /\ printf(NoAddress).at = "lock" /\ printf(NoAddress).got = 0
      /\ printf(NoAddress).lock = "print_lock" /\ printf(NoAddress).virt = NoAddress
  BY <1>1, NewCalls DEF printf
<1>4. map_kernel.fn = "map_kernel" /\ map_kernel.at = "lock" /\ map_kernel.lock = "user_pagemap"
      /\ map_kernel.got = 0
  BY <1>1, NewCalls DEF map_kernel
<1>5. FrameOk(alloc_pages)
  BY <1>2 DEF FrameOk
<1>6. FrameOk(printf(NoAddress))
  BY <1>3 DEF FrameOk
<1>7. FrameOk(map_kernel)
  BY <1>4 DEF FrameOk
<1> QED BY <1>2, <1>3, <1>4, <1>5, <1>6, <1>7

(* alloc_pages returns with a page. *)
LEMMA PageReturned ==
    ASSUME ShapeInv, Depth >= 2, Kept(Depth - 2, Depth - 1), LifeGoesOn,
           UNCHANGED <<ranges, mmap_anon_base>>,
           Top.fn = "alloc_pages", Top.got # 0,
           Same(calls[cur][Depth - 1], calls'[cur][Depth - 1]),
           calls'[cur][Depth - 1].at = calls[cur][Depth - 1].at,
           calls'[cur][Depth - 1].got = Top.got
    PROVE  (\A t \in Tasks : StackOk(t)') /\ RangesOk' /\ calls' \in [Tasks -> Seq(Frames)]
<1> USE DEF ShapeInv
<1> DEFINE k == Depth - 2
           m == Depth - 1
           p == calls[cur][m]
           g == calls'[cur][m]
<1>1. Depth \in Nat /\ Depth = Len(calls[cur]) /\ cur \in Tasks /\ calls[cur] # << >>
  BY DepthFacts
<1>2. k \in Nat /\ m = k + 1 /\ m \in 1 .. Len(calls[cur]) /\ m \in Nat /\ m >= 1 /\ Depth > 1
      /\ (\A i \in (k + 1) .. m : i = m) /\ Depth - 1 = m /\ Depth - 2 = k
  BY <1>1
<1>3. CallOk(p, Top)
  BY <1>1, <1>2, TopOk
<1>4. p \in Frames
  BY <1>1, <1>2, DepthFacts
<1>5. FrameOk(p) /\ (m = 1 => BottomOk(cur, p, life)) /\ (m > 1 => CallOk(calls[cur][m - 1], p))
  BY <1>1, <1>2 DEF StackOk
<1>6. Same(p, g) /\ g.at = p.at /\ g.got # 0
  BY <1>2
<1>7. Kept(k, m)
  BY <1>2
<1> HIDE DEF k, m, p, g
<1>8. FrameOk(g)
  <2>1. p.at \in {"table", "fill"} \/ p.fn = "new_user_task"
    BY <1>3 DEF CallOk
  <2>2. CASE p.fn = "new_user_task"
    BY <1>5, <1>6, <2>2, FrameMoves DEF FrameOk
  <2>3. CASE p.at = "table"
    <3>1. p.fn \in {"handle_page_fault", "map_page"}
      BY <1>4, <1>5, <2>3, TableFrames
    <3> QED BY <1>5, <1>6, <2>3, <3>1, FrameMoves
  <2>4. CASE p.at = "fill"
    <3>1. p.fn = "handle_page_fault"
      BY <1>4, <1>5, <2>4, FrameTypes DEF FrameOk, Functions
    <3> QED BY <1>5, <1>6, <2>4, <3>1, FrameMoves
  <2> QED BY <2>1, <2>2, <2>3, <2>4
<1>9. m = 1 => BottomOk(cur, g, life')
  <2>1. m = 1 => BottomOk(cur, p, life')
    BY <1>5, BottomsStay
  <2> QED BY <1>6, <2>1 DEF BottomOk, Same
<1>10. m > 1 => CallOk(calls'[cur][m - 1], g)
  <2> SUFFICES ASSUME m > 1 PROVE CallOk(calls'[cur][m - 1], g)
    OBVIOUS
  <2>1. m - 1 \in 1 .. k
    BY <1>2
  <2>2. calls'[cur][m - 1] = calls[cur][m - 1]
    BY <1>7, <2>1 DEF Kept
  <2> QED BY <1>5, <1>6, <2>2 DEF CallOk, Same
<1>11. \A t \in Tasks : StackOk(t)'
  BY <1>2, <1>6, <1>7, <1>8, <1>9, <1>10, StackStep, BottomsStay DEF g
<1>12. cur = user /\ k = 0 /\ g.fn = "mmap" => Len(ranges) < MaxRanges
  BY <1>1, <1>2, <1>6 DEF RangesOk, Same, p
<1>13. k = 0 => m = 1
  BY <1>2
<1>14. RangesOk'
  BY <1>7, <1>12, <1>13, RangesKept DEF g
<1> QED BY <1>7, <1>11, <1>14 DEF Kept

LEMMA Aligned ==
    ASSUME NEW virt, PageAligned(virt)
    PROVE  /\ virt \in Nat /\ virt <= first_byte(ProgramPages)
           /\ virt \in ProgramBytes => PageAligned(virt + PageSize) /\ page(virt + PageSize) = page(virt) + 1
<1>1. PICK k \in 0 .. ProgramPages : virt = first_byte(k)
  BY DEF PageAligned
<1>2. k \in Nat /\ k <= ProgramPages /\ ProgramPages \in Nat /\ k + 1 \in Nat
  BY Sizes
<1>3. virt \in Nat /\ virt <= first_byte(ProgramPages) /\ first_byte(ProgramPages) \in Nat
      /\ first_byte(k + 1) = virt + PageSize
  BY <1>1, <1>2, Sizes
<1>4. page(virt) = k /\ page(virt + PageSize) = k + 1
  BY <1>1, <1>2, <1>3, PageBounds
<1>5. ASSUME virt \in ProgramBytes PROVE k < ProgramPages
  <2>1. virt < first_byte(ProgramPages)
    BY <1>3, <1>5 DEF ProgramBytes
  <2>2. page(virt) < ProgramPages
    BY <1>2, <1>3, <2>1, PageBounds
  <2> QED BY <1>4, <2>2
<1>6. ASSUME virt \in ProgramBytes PROVE k + 1 \in 0 .. ProgramPages
  BY <1>2, <1>5, <1>6
<1> QED BY <1>2, <1>3, <1>4, <1>6 DEF PageAligned

LEMMA MmapAddsShape ==
    ASSUME ShapeInv, MmapAdds
    PROVE  (\A t \in Tasks : StackOk(t)') /\ RangesOk' /\ calls' \in [Tasks -> Seq(Frames)]
<1> USE DEF ShapeInv
<1>1. Depth >= 1 /\ Kept(Depth - 1, Depth - 1) /\ calls[cur] # << >> /\ Top.fn = "mmap"
      /\ Depth \in Nat /\ Depth = Len(calls[cur]) /\ UNCHANGED life
  BY ReturnsEffect, DepthFacts DEF MmapAdds, In, Busy
<1>2. \A t \in Tasks : StackOk(t)'
  BY <1>1, StackReturns, BottomsStay DEF LifeGoesOn
<1>3. Depth = 1
  <2>1. ~ (Depth > 1)
    BY <1>1, TopOk DEF CallOk
  <2>2. Depth \in Nat /\ Depth >= 1
    BY <1>1
  <2> QED BY <2>1, <2>2
<1>4. cur = user /\ Top.virt \in MmapLengths
  BY <1>1, <1>3, TopOk DEF BottomOk, FrameOk
<1> DEFINE n == Len(ranges)
           l == align_up(Top.virt)
<1>5. n < MaxRanges
  BY <1>1, <1>3, <1>4, DepthFacts DEF RangesOk
<1>6. ranges \in Seq(MmapRanges) /\ mmap_anon_base \in Nat /\ MaxRanges \in Nat
  BY Sizes DEF TypeOK
<1> DEFINE r == [base |-> mmap_anon_base, length |-> l, writable |-> Top.writable, type |-> "ANONYMOUS"]
<1>7. ranges' = <<r>> \o ranges /\ r.base = mmap_anon_base /\ r.length = l
  BY DEF MmapAdds
<1> HIDE DEF r
<1>8. Len(ranges') = n + 1 /\ n \in Nat
  BY <1>6, <1>7
<1>9. mmap_anon_base' = mmap_anon_base + l
  BY DEF MmapAdds
<1>10. l \in Nat /\ l <= LongestMmap /\ LongestMmap \in Nat
  BY <1>4, SizesAssumption, LowerHalfAssumption, AlignedLength
<1>11. mmap_anon_base <= first_byte(ProgramPages) + n * LongestMmap /\ first_byte(ProgramPages) \in Nat
  BY Sizes DEF RangesOk
<1> HIDE DEF n, l
<1>12. (n + 1) * LongestMmap = n * LongestMmap + LongestMmap /\ n * LongestMmap \in Nat
  BY <1>8, <1>10
<1>13. mmap_anon_base' <= first_byte(ProgramPages) + (n + 1) * LongestMmap
  BY <1>6, <1>9, <1>10, <1>11, <1>12
<1>14. Len(calls'[user]) = 0
  BY <1>1, <1>3, <1>4 DEF Kept
<1>15. n + 1 <= MaxRanges
  BY <1>5, <1>6, <1>8
<1>16. RangesBelow(ranges', mmap_anon_base')
  <2> SUFFICES ASSUME NEW i \in DOMAIN ranges'
               PROVE  ranges'[i].base + ranges'[i].length <= mmap_anon_base'
    BY DEF RangesBelow
  <2>1. i \in 1 .. n + 1 /\ ranges'[i] = IF i = 1 THEN r ELSE ranges[i - 1]
    BY <1>6, <1>7, <1>8 DEF n
  <2>2. CASE i = 1
    BY <1>6, <1>7, <1>9, <1>10, <2>1, <2>2
  <2>3. CASE i # 1
    <3>1. i - 1 \in DOMAIN ranges
      BY <1>6, <1>8, <2>1, <2>3 DEF n
    <3>2. ranges[i - 1].base + ranges[i - 1].length <= mmap_anon_base
      BY <3>1 DEF RangesOk, RangesBelow
    <3>3. ranges[i - 1].base \in Int /\ ranges[i - 1].length \in Int
      <4> DEFINE j == i - 1
      <4>1. j \in DOMAIN ranges
        BY <3>1
      <4> HIDE DEF j
      <4>2. ranges[j] \in MmapRanges
        BY <1>6, <4>1, SeqElement
      <4>3. ranges[j].base \in Int /\ ranges[j].length \in Int
        BY <4>2 DEF MmapRanges
      <4> QED BY <4>3 DEF j
    <3> QED BY <1>6, <1>9, <1>10, <2>1, <2>3, <3>2, <3>3
  <2> QED BY <2>2, <2>3
<1>17. RangesLater'
  BY <1>1, <1>3, <1>4, TopOk DEF BottomOk, RangesLater
<1>18. RangesOk'
  BY <1>8, <1>13, <1>14, <1>15, <1>16, <1>17 DEF RangesOk, RangesBelow
<1> QED BY <1>1, <1>2, <1>18 DEF Kept

LEMMA EnqueueFacts ==
    ASSUME ShapeInv, Enqueue
    PROVE  /\ Depth = 1 /\ Kept(0, 0) /\ cur = kernel_thread /\ life = "none" /\ life' = "alive"
           /\ Top.fn = "new_user_task" /\ Top.at = "pages" /\ FrameOk(Top) /\ Top = calls[cur][1]
<1> USE DEF ShapeInv
<1>1. Depth >= 1 /\ Kept(Depth - 1, Depth - 1) /\ calls[cur] # << >> /\ Top.fn = "new_user_task"
      /\ Depth \in Nat /\ Top = calls[cur][Depth] /\ life' = "alive" /\ Top.at = "pages"
  BY ReturnsEffect, DepthFacts DEF Enqueue, In, Busy
<1>2. Depth = 1
  <2>1. ~ (Depth > 1)
    BY <1>1, TopOk DEF CallOk
  <2> QED BY <1>1, <2>1
<1>3. cur = kernel_thread /\ life = "none" /\ FrameOk(Top)
  BY <1>1, <1>2, TopOk DEF BottomOk
<1> QED BY <1>1, <1>2, <1>3

LEMMA EnqueueShape ==
    ASSUME ShapeInv, Enqueue
    PROVE  (\A t \in Tasks : StackOk(t)') /\ RangesOk' /\ calls' \in [Tasks -> Seq(Frames)]
<1> USE DEF ShapeInv
<1>1. Depth = 1 /\ Kept(0, 0) /\ cur = kernel_thread /\ life = "none" /\ life' = "alive"
      /\ Top.fn = "new_user_task" /\ FrameOk(Top)
  BY EnqueueFacts
<1>2. \A t \in Tasks, f \in Frames :
        BottomOk(t, f, life) /\ (t = cur => Depth > 1) => BottomOk(t, f, life')
  BY <1>1 DEF BottomOk
<1>3. \A t \in Tasks : StackOk(t)'
  BY <1>1, <1>2, StackReturns
<1>4. Top.virt \in Nat /\ Top.virt <= first_byte(ProgramPages)
  BY <1>1, Aligned DEF FrameOk
<1>5. mmap_anon_base' = Top.virt /\ UNCHANGED ranges
  BY DEF Enqueue
<1> DEFINE n == Len(ranges)
<1>6. n \in Nat
  <2>1. ranges \in Seq(MmapRanges)
    BY DEF TypeOK
  <2> QED BY <2>1
<1>7. n * LongestMmap \in Nat /\ first_byte(ProgramPages) \in Nat
  BY <1>6, LowerHalfAssumption, Sizes
<1>8. mmap_anon_base' <= first_byte(ProgramPages) + n * LongestMmap
  BY <1>4, <1>5, <1>7
<1>9. calls'[user] = calls[user]
  BY <1>1, TasksAssumption DEF Kept
<1>10. RangesBelow(ranges', mmap_anon_base') /\ RangesLater'
  BY <1>1, <1>5 DEF RangesOk, RangesBelow, RangesLater
<1>11. RangesOk'
  BY <1>5, <1>8, <1>9, <1>10 DEF RangesOk, RangesBelow
<1> QED BY <1>1, <1>3, <1>11 DEF Kept

LEMMA unlockShape ==
    ASSUME ShapeInv, unlock
    PROVE  (\A t \in Tasks : StackOk(t)') /\ RangesOk' /\ calls' \in [Tasks -> Seq(Frames)]
<1> USE DEF ShapeInv
<1> DEFINE g == calls'[cur][Depth]
<1>1. LifeGoesOn /\ UNCHANGED <<ranges, mmap_anon_base>> /\ Depth >= 1 /\ calls[cur] # << >>
      /\ Top.at \in {"unlock", "unlock_failed"}
  BY unlockEffect DEF unlock, LifeGoesOn, memory, Busy
<1>2. FrameOk(Top) /\ Top \in Frames
  BY <1>1, TopOk
<1>3. CASE Top.fn = "alloc_pages"
  <2>1. Top.got # 0
    BY <1>1, <1>2, <1>3 DEF FrameOk
  <2> QED BY <1>1, <1>3, <2>1, unlockEffect, PageReturned
<1>4. CASE Top.fn = "handle_page_fault"
  <2>1. Kept(Depth - 1, Depth) /\ Same(Top, g) /\ g.at \in {"iret", "exception"}
    BY <1>4, unlockEffect
  <2>2. FrameOk(g)
    BY <1>2, <1>4, <2>1, FrameMoves
  <2> QED BY <1>1, <2>1, <2>2, ShapeMoves
<1>5. CASE Top.fn \notin {"alloc_pages", "handle_page_fault"}
  BY <1>1, <1>5, unlockEffect, ShapeReturns
<1> QED BY <1>3, <1>4, <1>5

LEMMA KernelTouchShape ==
    ASSUME ShapeInv, KernelTouch
    PROVE  (\A t \in Tasks : StackOk(t)') /\ RangesOk' /\ calls' \in [Tasks -> Seq(Frames)]
<1> USE DEF ShapeInv
<1>1. LifeGoesOn /\ UNCHANGED <<ranges, mmap_anon_base>> /\ calls[cur] # << >> /\ Top.at = "body"
  BY DEF KernelTouch, LifeGoesOn, memory, Busy
<1>2. FrameOk(Top) /\ Top \in Frames /\ Depth >= 1 /\ Depth \in Nat
      /\ Top.fn \in {"heap", "printf", "access"} /\ Top = calls[cur][Depth]
  BY <1>1, TopOk, DepthFacts, KernelTouchEffect
<1>3. CASE Kept(Depth - 1, Depth - 1)
  BY <1>1, <1>2, <1>3, ShapeReturns
<1>4. CASE /\ Top.fn # "access" /\ Kept(Depth - 1, Depth)
           /\ Same(Top, calls'[cur][Depth]) /\ calls'[cur][Depth].at = "unlock"
  <2>1. FrameOk(calls'[cur][Depth])
    BY <1>2, <1>4, FrameMoves
  <2> QED BY <1>1, <1>2, <1>4, <2>1, ShapeMoves
<1>5. CASE /\ Top.virt # NoAddress /\ Kept(Depth, Depth + 1)
           /\ calls'[cur][Depth + 1] = Fault("kernel_pagemap", Top.virt, FALSE)
  <2> DEFINE g == Fault("kernel_pagemap", Top.virt, FALSE)
             m == Depth + 1
  <2>1. g.fn = "handle_page_fault" /\ g.at = "lock" /\ g.lock = "kernel_pagemap"
        /\ g.virt = Top.virt /\ g.got = 0 /\ ~ g.user_mode
    BY KernelFault
  <2>2. Low(Top.virt) \/ High(Top.virt)
    BY <1>2, <1>5 DEF FrameOk, High
  <2>3. calls'[cur][m] = g /\ Kept(Depth, m)
    BY <1>5
  <2>4. m \in Nat /\ m > 1 /\ m - 1 = Depth /\ Depth \in 1 .. Depth /\ \A i \in (Depth + 1) .. m : i = m
    BY <1>2
  <2>5. calls'[cur][m - 1] = Top
    BY <1>2, <2>3, <2>4 DEF Kept
  <2> HIDE DEF g, m
  <2>6. FrameOk(g)
    BY <2>1, <2>2 DEF FrameOk
  <2>7. CallOk(Top, g)
    BY <1>1, <1>2, <2>1 DEF CallOk
  <2>8. \A t \in Tasks : StackOk(t)'
    BY <1>1, <2>1, <2>3, <2>4, <2>5, <2>6, <2>7, StackStep, BottomsStay
  <2>9. RangesOk'
    BY <1>1, <1>2, <2>3, RangesKept
  <2> QED BY <2>3, <2>8, <2>9 DEF Kept
<1> QED BY <1>3, <1>4, <1>5, KernelTouchEffect

(* A task that did nothing makes a call, or one that makes another. *)
LEMMA ShapeStarts ==
    ASSUME ShapeInv, LifeGoesOn, UNCHANGED <<ranges, mmap_anon_base>>, Depth = 0, Kept(0, 1),
           FrameOk(calls'[cur][1]), BottomOk(cur, calls'[cur][1], life'),
           calls'[cur][1].at \notin {"table", "fill"}, calls'[cur][1].fn # "mmap"
    PROVE  (\A t \in Tasks : StackOk(t)') /\ RangesOk' /\ calls' \in [Tasks -> Seq(Frames)]
<1> USE DEF ShapeInv
<1>1. \A i \in (0 + 1) .. 1 : i = 1
  OBVIOUS
<1>2. \A t \in Tasks : StackOk(t)'
  BY <1>1, StackStep, BottomsStay
<1>3. RangesOk'
  BY RangesKept
<1> QED BY <1>2, <1>3 DEF Kept

LEMMA ShapeStartsTwo ==
    ASSUME ShapeInv, LifeGoesOn, UNCHANGED <<ranges, mmap_anon_base>>, Depth = 0, Kept(0, 2),
           FrameOk(calls'[cur][1]), BottomOk(cur, calls'[cur][1], life'),
           FrameOk(calls'[cur][2]), CallOk(calls'[cur][1], calls'[cur][2]),
           calls'[cur][2].at \notin {"table", "fill"},
           calls'[cur][1].fn = "mmap" => Len(ranges) < MaxRanges
    PROVE  (\A t \in Tasks : StackOk(t)') /\ RangesOk' /\ calls' \in [Tasks -> Seq(Frames)]
<1> USE DEF ShapeInv
<1>1. (\A i \in (0 + 1) .. 2 : i = 1 \/ i = 2) /\ 2 - 1 = 1
  OBVIOUS
<1>2. \A t \in Tasks : StackOk(t)'
  BY <1>1, StackStep, BottomsStay
<1>3. RangesOk'
  BY RangesKept
<1> QED BY <1>2, <1>3 DEF Kept

LEMMA ShapeStep ==
    ASSUME ShapeInv, [Next]_vars
    PROVE  ShapeInv'
<1> USE DEF ShapeInv
<1> DEFINE Done == (\A t \in Tasks : StackOk(t)') /\ RangesOk' /\ calls' \in [Tasks -> Seq(Frames)]
           g == calls'[cur][Depth]
           h == calls'[cur][Depth + 1]
<1>0. calls[cur] # << >> => Top \in Frames /\ FrameOk(Top) /\ Depth >= 1
  BY TopOk, DepthFacts
<1>1. CASE lock
  <2>1. Depth >= 1 /\ Kept(Depth - 1, Depth) /\ Top.at = "lock" /\ Same(Top, g) /\ g.at = "body"
        /\ g.got = Top.got
    BY <1>1, lockEffect
  <2>2. LifeGoesOn /\ UNCHANGED <<ranges, mmap_anon_base>> /\ calls[cur] # << >>
    BY <1>1 DEF lock, LifeGoesOn, memory, lockable, Busy
  <2>3. FrameOk(g)
    <3>1. Top.fn \in Functions /\ Top.fn \notin {"access", "mmap", "new_user_task"}
      BY <1>0, <2>1, <2>2, FrameTypes DEF FrameOk
    <3>2. Top.fn \in {"handle_page_fault", "map_page", "alloc_pages"} => g.got = 0
      BY <1>0, <2>1, <2>2 DEF FrameOk
    <3> QED BY <1>0, <2>1, <2>2, <3>1, <3>2, FrameMoves DEF Functions
  <2>4. Done
    BY <2>1, <2>2, <2>3, ShapeMoves
  <2> QED BY <1>1, <2>4, TypesStep DEF Next
<1>2. CASE SpinTooMuch
  <2>1. UNCHANGED <<calls, ranges, mmap_anon_base>> /\ LifeGoesOn
    BY <1>2 DEF SpinTooMuch, memory, LifeGoesOn
  <2>2. Done
    BY <2>1, ShapeStutters DEF TypeOK
  <2> QED BY <1>2, <2>2, TypesStep DEF Next
<1>3. CASE unlock
  BY <1>3, unlockShape, TypesStep DEF Next
<1>4. CASE \E t \in Tasks : Tick(t)
  <2>1. UNCHANGED <<calls, ranges, mmap_anon_base>> /\ LifeGoesOn
    BY <1>4 DEF Tick, memory, LifeGoesOn
  <2>2. Done
    BY <2>1, ShapeStutters DEF TypeOK
  <2> QED BY <1>4, <2>2, TypesStep DEF Next
<1>5. CASE KernelTouch
  BY <1>5, KernelTouchShape, TypesStep DEF Next
<1>6. CASE TakePage
  <2>1. Depth >= 1 /\ Kept(Depth - 1, Depth) /\ Top.fn = "alloc_pages" /\ Same(Top, g)
        /\ g.at = "unlock" /\ g.got = granted + 1
    BY <1>6, TakePageEffect
  <2>2. LifeGoesOn /\ UNCHANGED <<ranges, mmap_anon_base>> /\ calls[cur] # << >>
    BY <1>6 DEF TakePage, LifeGoesOn, In, Busy
  <2>3. g.got # 0
    <3>1. granted \in Nat
      BY DEF TypeOK
    <3> QED BY <2>1, <3>1
  <2>4. FrameOk(g)
    BY <1>0, <2>1, <2>2, <2>3, FrameMoves
  <2>5. Done
    BY <2>1, <2>2, <2>4, ShapeMoves
  <2> QED BY <1>6, <2>5, TypesStep DEF Next
<1>7. CASE page_table_next_level
  <2>1. Depth >= 1 /\ Kept(Depth - 1, Depth + 1) /\ Top.fn \in {"handle_page_fault", "map_page"}
        /\ Same(Top, g) /\ g.at = "table" /\ g.got = Top.got /\ h = alloc_pages /\ Top.at = "body"
    BY <1>7, NextLevelEffect
  <2>2. LifeGoesOn /\ UNCHANGED <<ranges, mmap_anon_base>> /\ calls[cur] # << >>
    BY <1>7 DEF page_table_next_level, LifeGoesOn, Walks, Busy, memory
  <2>3. FrameOk(g) /\ g.got = 0
    BY <1>0, <2>1, <2>2, FrameMoves DEF FrameOk
  <2>4. CallOk(g, h) /\ FrameOk(h) /\ h.at = "lock" /\ StandsFor(Top, g)
    BY <2>1, <2>3, NewFrames DEF CallOk, StandsFor, Same
  <2>5. Done
    BY <2>1, <2>2, <2>3, <2>4, ShapeCalls
  <2> QED BY <1>7, <2>5, TypesStep DEF Next
<1>8. CASE SetTable
  <2>1. Depth >= 1 /\ Kept(Depth - 1, Depth) /\ Top.at = "table" /\ Same(Top, g)
        /\ g.at = "body" /\ g.got = 0
    BY <1>8, SetTableEffect
  <2>2. LifeGoesOn /\ UNCHANGED <<ranges, mmap_anon_base>> /\ calls[cur] # << >>
    BY <1>8 DEF SetTable, LifeGoesOn, Busy
  <2>3. FrameOk(g)
    BY <1>0, <2>1, <2>2, TableFrames, FrameMoves
  <2>4. Done
    BY <2>1, <2>2, <2>3, ShapeMoves
  <2> QED BY <1>8, <2>4, TypesStep DEF Next
<1>9. CASE MapPage
  <2>1. Depth >= 1 /\ Kept(Depth - 1, Depth) /\ Top.fn = "map_page" /\ Same(Top, g) /\ g.at = "unlock"
    BY <1>9, MapPageEffect
  <2>2. LifeGoesOn /\ UNCHANGED <<ranges, mmap_anon_base>> /\ calls[cur] # << >>
    BY <1>9 DEF MapPage, LifeGoesOn, HasTable, Walks, Busy
  <2>3. FrameOk(g)
    BY <1>0, <2>1, <2>2, FrameMoves
  <2>4. Done
    BY <2>1, <2>2, <2>3, ShapeMoves
  <2> QED BY <1>9, <2>4, TypesStep DEF Next
<1>10. CASE MapKernel
  <2>1. Depth >= 1 /\ Kept(Depth - 1, Depth) /\ Top.fn = "map_kernel" /\ Same(Top, g) /\ g.at = "unlock"
    BY <1>10, MapKernelEffect
  <2>2. LifeGoesOn /\ UNCHANGED <<ranges, mmap_anon_base>> /\ calls[cur] # << >>
    BY <1>10 DEF MapKernel, LifeGoesOn, In, Busy
  <2>3. FrameOk(g)
    BY <1>0, <2>1, <2>2, FrameMoves
  <2>4. Done
    BY <2>1, <2>2, <2>3, ShapeMoves
  <2> QED BY <1>10, <2>4, TypesStep DEF Next
<1>11. CASE FaultFails
  <2>1. Depth >= 1 /\ Kept(Depth - 1, Depth) /\ Top.fn = "handle_page_fault" /\ Same(Top, g)
        /\ g.at = "unlock_failed"
    BY <1>11, FaultFailsEffect
  <2>2. LifeGoesOn /\ UNCHANGED <<ranges, mmap_anon_base>> /\ calls[cur] # << >>
    BY <1>11 DEF FaultFails, LifeGoesOn, HasTable, Walks, Busy, memory
  <2>3. FrameOk(g)
    BY <1>0, <2>1, <2>2, FrameMoves
  <2>4. Done
    BY <2>1, <2>2, <2>3, ShapeMoves
  <2> QED BY <1>11, <2>4, TypesStep DEF Next
<1>12. CASE FaultServed
  <2>1. Depth >= 1 /\ Top.fn = "handle_page_fault" /\ Top.at = "body"
    BY <1>12, FaultServedEffect
  <2>2. LifeGoesOn /\ UNCHANGED <<ranges, mmap_anon_base>> /\ calls[cur] # << >>
    BY <1>12 DEF FaultServed, LifeGoesOn, HasTable, Walks, Busy
  <2>3. CASE /\ Kept(Depth - 1, Depth + 1) /\ Same(Top, g)
             /\ g.at = "fill" /\ g.got = Top.got /\ h = alloc_pages
    <3>0. Top.user_mode => Low(Top.virt)
      BY <1>12, FaultServedLow
    <3>1. FrameOk(g) /\ g.got = 0
      BY <1>0, <2>1, <2>2, <2>3, <3>0, FrameMoves DEF FrameOk
    <3>2. CallOk(g, h) /\ FrameOk(h) /\ h.at = "lock" /\ StandsFor(Top, g)
      BY <2>3, <3>1, NewFrames DEF CallOk, StandsFor, Same
    <3>3. Done
      BY <2>1, <2>2, <2>3, <3>1, <3>2, ShapeCalls
    <3> QED BY <1>12, <3>3, TypesStep DEF Next
  <2>4. CASE Kept(Depth - 1, Depth) /\ Same(Top, g) /\ g.at = "unlock"
    <3>1. FrameOk(g)
      BY <1>0, <2>1, <2>2, <2>4, FrameMoves
    <3>2. Done
      BY <2>1, <2>2, <2>4, <3>1, ShapeMoves
    <3> QED BY <1>12, <3>2, TypesStep DEF Next
  <2> QED BY <1>12, <2>3, <2>4, FaultServedEffect
<1>13. CASE FaultFills
  <2>1. Depth >= 1 /\ Kept(Depth - 1, Depth) /\ Top.fn = "handle_page_fault" /\ Same(Top, g)
        /\ g.at = "unlock"
    BY <1>13, FaultFillsEffect
  <2>2. LifeGoesOn /\ UNCHANGED <<ranges, mmap_anon_base>> /\ calls[cur] # << >>
    BY <1>13 DEF FaultFills, LifeGoesOn, In, Busy
  <2>3. FrameOk(g)
    BY <1>0, <2>1, <2>2, FrameMoves
  <2>4. Done
    BY <2>1, <2>2, <2>3, ShapeMoves
  <2> QED BY <1>13, <2>4, TypesStep DEF Next
<1>14. CASE iret
  <2>1. Depth >= 1 /\ Kept(Depth - 1, Depth - 1)
    BY <1>14, ReturnsEffect
  <2>2. LifeGoesOn /\ UNCHANGED <<ranges, mmap_anon_base>> /\ Top.fn = "handle_page_fault"
    BY <1>14 DEF iret, LifeGoesOn, In, memory
  <2>3. Done
    BY <2>1, <2>2, ShapeReturns
  <2> QED BY <1>14, <2>3, TypesStep DEF Next
<1>15. CASE exception_handler
  <2>1. Depth >= 1 /\ Kept(Depth - 1, Depth + 1) /\ Top.fn = "handle_page_fault"
        /\ Same(Top, g) /\ g.at = "end" /\ h = printf(NoAddress)
    BY <1>15, exception_handlerEffect
  <2>2. LifeGoesOn /\ UNCHANGED <<ranges, mmap_anon_base>> /\ calls[cur] # << >>
    BY <1>15 DEF exception_handler, LifeGoesOn, In, Busy, memory
  <2>3. FrameOk(g)
    BY <1>0, <2>1, <2>2, FrameMoves
  <2>4. CallOk(g, h) /\ FrameOk(h) /\ h.at = "lock" /\ StandsFor(Top, g)
    BY <2>1, <2>3, NewFrames DEF CallOk, StandsFor, Same
  <2>5. Done
    BY <2>1, <2>2, <2>3, <2>4, ShapeCalls
  <2> QED BY <1>15, <2>5, TypesStep DEF Next
<1>16. CASE ExceptionEnds
  <2>1. UNCHANGED <<calls, ranges, mmap_anon_base>> /\ calls[cur] # << >> /\ Top.fn = "handle_page_fault"
    BY <1>16 DEF ExceptionEnds, memory, In, Busy
  <2>2. LifeGoesOn
    <3>1. CASE Top.user_mode
      <4>1. Depth = 1
        <5>1. ~ (Depth > 1)
          BY <2>1, <3>1, TopOk DEF CallOk
        <5>2. Depth \in Nat /\ Depth >= 1
          BY <2>1, DepthFacts
        <5> QED BY <5>1, <5>2
      <4>2. life # "none"
        BY <2>1, <4>1, TopOk DEF BottomOk
      <4> QED BY <1>16, <3>1, <4>2 DEF ExceptionEnds, LifeGoesOn
    <3>2. CASE ~ Top.user_mode
      BY <1>16, <3>2 DEF ExceptionEnds, LifeGoesOn
    <3> QED BY <3>1, <3>2
  <2>3. Done
    BY <2>1, <2>2, ShapeStutters DEF TypeOK
  <2> QED BY <1>16, <2>3, TypesStep DEF Next
<1>17. CASE Begins
  <2> DEFINE f == calls'[cur][1]
  <2>1. /\ Depth = 0 /\ Kept(0, 1) /\ f.fn \in {"heap", "printf", "access"} /\ FrameOk(f)
        /\ cur = user => life = "alive"
        /\ UNCHANGED <<memory, keeper, intr, cur, life, status>>
    BY <1>17, BeginsEffect
  <2>2. LifeGoesOn /\ UNCHANGED <<ranges, mmap_anon_base>>
    BY <2>1 DEF LifeGoesOn, memory
  <2>3. BottomOk(cur, f, life') /\ f.at \notin {"table", "fill"}
    BY <2>1 DEF BottomOk, FrameOk
  <2>4. Done
    BY <2>1, <2>2, <2>3, ShapeStarts
  <2> QED BY <1>17, <2>4, TypesStep DEF Next, Begins
<1>18. CASE \E virt \in UserBytes \cup KernelBytes, write \in BOOLEAN : UserTouch(virt, write)
  <2> DEFINE f == calls'[cur][1]
  <2>1. PICK virt \in UserBytes \cup KernelBytes, write \in BOOLEAN : UserTouch(virt, write)
    BY <1>18
  <2>2. /\ Depth = 0 /\ Kept(0, 1) /\ cur = user /\ life = "alive"
        /\ Low(virt) \/ virt \in KernelBytes
        /\ f.fn = "handle_page_fault" /\ f.at = "lock"
        /\ f.lock = "user_pagemap" /\ f.virt = virt /\ f.got = 0 /\ f.user_mode
    BY <2>1, UserTouchEffect
  <2>3. LifeGoesOn /\ UNCHANGED <<ranges, mmap_anon_base, life>>
    BY <2>1 DEF UserTouch, LifeGoesOn, memory
  <2>4. BottomOk(cur, f, life') /\ FrameOk(f)
    BY <2>2, <2>3 DEF BottomOk, FrameOk
  <2>5. Done
    BY <2>2, <2>3, <2>4, ShapeStarts
  <2> QED BY <1>18, <2>5, TypesStep DEF Next
<1>19. CASE \E length \in MmapLengths, w \in BOOLEAN : mmap(length, w)
  <2> DEFINE f == calls'[cur][1]
             k == calls'[cur][2]
  <2>1. PICK length \in MmapLengths, w \in BOOLEAN : mmap(length, w)
    BY <1>19
  <2>2. /\ Depth = 0 /\ Kept(0, 2) /\ cur = user /\ life = "alive" /\ Len(ranges) < MaxRanges
        /\ f.fn = "mmap" /\ f.at = "add" /\ f.lock = NoLock /\ f.virt = length
        /\ k.fn = "heap" /\ FrameOk(k) /\ k.at = "lock"
    BY <2>1, mmapEffect
  <2>3. LifeGoesOn /\ UNCHANGED <<ranges, mmap_anon_base, life>>
    BY <2>1 DEF mmap, LifeGoesOn, memory
  <2>4. BottomOk(cur, f, life') /\ FrameOk(f) /\ CallOk(f, k)
    BY <2>2, <2>3 DEF BottomOk, FrameOk, CallOk
  <2>5. Done
    BY <2>2, <2>3, <2>4, ShapeStartsTwo
  <2> QED BY <1>19, <2>5, TypesStep DEF Next
<1>20. CASE MmapAdds
  BY <1>20, MmapAddsShape, TypesStep DEF Next
<1>21. CASE NewUserTask
  <2> DEFINE f == calls'[cur][1]
             k == calls'[cur][2]
  <2>1. /\ Depth = 0 /\ Kept(0, 2) /\ cur = kernel_thread /\ life = "none"
        /\ f.fn = "new_user_task" /\ f.at = "pml4" /\ f.lock = NoLock /\ f.virt = 0 /\ f.got = 0
        /\ k.fn = "heap" /\ FrameOk(k) /\ k.at = "lock"
    BY <1>21, NewUserTaskEffect
  <2>2. LifeGoesOn /\ UNCHANGED <<ranges, mmap_anon_base, life>>
    BY <1>21 DEF NewUserTask, LifeGoesOn, memory
  <2>3. PageAligned(0)
    <3>1. 0 \in 0 .. ProgramPages /\ first_byte(0) = 0
      BY Sizes DEF first_byte
    <3> QED BY <3>1 DEF PageAligned
  <2>4. BottomOk(cur, f, life') /\ FrameOk(f) /\ CallOk(f, k)
    BY <2>1, <2>2, <2>3, TasksAssumption DEF BottomOk, FrameOk, CallOk
  <2>5. Done
    BY <2>1, <2>2, <2>4, ShapeStartsTwo
  <2> QED BY <1>21, <2>5, TypesStep DEF Next
<1>22. CASE NewPml4
  <2>1. Depth >= 1 /\ Top.fn = "new_user_task" /\ Top.at = "pml4" /\ Kept(Depth - 1, Depth + 1)
    BY <1>22, NewPml4Effect
  <2>2. LifeGoesOn /\ UNCHANGED <<ranges, mmap_anon_base>> /\ calls[cur] # << >>
    BY <1>22 DEF NewPml4, LifeGoesOn, In, Busy, memory
  <2>3. CASE Top.got = 0 /\ g = Top /\ h = alloc_pages
    <3>1. FrameOk(g) /\ FrameOk(h) /\ CallOk(g, h) /\ h.at = "lock" /\ StandsFor(Top, g)
      BY <1>0, <2>1, <2>2, <2>3, NewFrames DEF CallOk, StandsFor
    <3>2. Done
      BY <2>1, <2>2, <3>1, ShapeCalls
    <3> QED BY <1>22, <3>2, TypesStep DEF Next
  <2>4. CASE Same(Top, g) /\ g.at = "pages" /\ g.got = 0 /\ h = map_kernel
    <3>1. FrameOk(g) /\ StandsFor(Top, g)
      BY <1>0, <2>1, <2>2, <2>4, FrameMoves DEF StandsFor, Same
    <3>2. g.virt = 0 /\ g.fn = "new_user_task"
      BY <1>0, <2>1, <2>2, <2>4 DEF FrameOk, Same
    <3>3. FrameOk(h) /\ CallOk(g, h) /\ h.at = "lock"
      BY <2>4, <3>2, NewFrames DEF CallOk
    <3>4. Done
      BY <2>1, <2>2, <3>1, <3>3, ShapeCalls
    <3> QED BY <1>22, <3>4, TypesStep DEF Next
  <2> QED BY <1>22, <2>3, <2>4, NewPml4Effect
<1>23. CASE LoadPage
  <2>1. Depth >= 1 /\ Top.fn = "new_user_task" /\ Top.at = "pages" /\ Top.virt \in ProgramBytes
        /\ Kept(Depth - 1, Depth + 1)
    BY <1>23, LoadPageEffect
  <2>2. LifeGoesOn /\ UNCHANGED <<ranges, mmap_anon_base>> /\ calls[cur] # << >>
    BY <1>23 DEF LoadPage, LifeGoesOn, In, Busy, memory
  <2>3. CASE Top.got = 0 /\ g = Top /\ h = alloc_pages
    <3>1. FrameOk(g) /\ FrameOk(h) /\ CallOk(g, h) /\ h.at = "lock" /\ StandsFor(Top, g)
      BY <1>0, <2>1, <2>2, <2>3, NewFrames DEF CallOk, StandsFor
    <3>2. Done
      BY <2>1, <2>2, <3>1, ShapeCalls
    <3> QED BY <1>23, <3>2, TypesStep DEF Next
  <2>4. CASE /\ Top.got # 0 /\ g.fn = "new_user_task" /\ g.at = "pages" /\ g.lock = Top.lock
             /\ g.got = 0 /\ g.virt = Top.virt + PageSize
             /\ h.fn = "map_page" /\ h.at = "lock" /\ h.lock = "user_pagemap"
             /\ h.virt = Top.virt /\ h.phy = Top.got /\ h.got = 0
    <3>1. PageAligned(Top.virt) /\ PageAligned(Top.virt + PageSize) /\ Top.lock = NoLock
      BY <1>0, <2>1, <2>2, Aligned DEF FrameOk
    <3>2. FrameOk(g)
      BY <2>4, <3>1 DEF FrameOk
    <3>3. FrameOk(h)
      BY <2>1, <2>4, <3>1 DEF FrameOk
    <3>4. CallOk(g, h) /\ StandsFor(Top, g)
      BY <2>1, <2>4 DEF CallOk, StandsFor
    <3>5. Done
      BY <2>1, <2>2, <2>4, <3>2, <3>3, <3>4, ShapeCalls
    <3> QED BY <1>23, <3>5, TypesStep DEF Next
  <2> QED BY <1>23, <2>3, <2>4, LoadPageEffect
<1>24. CASE Enqueue
  BY <1>24, EnqueueShape, TypesStep DEF Next
<1>25. CASE UNCHANGED vars
  <2>1. UNCHANGED <<calls, ranges, mmap_anon_base>> /\ LifeGoesOn
    BY <1>25 DEF vars, LifeGoesOn
  <2>2. TypeOK'
    BY <1>25 DEF vars, TypeOK
  <2> QED BY <2>1, <2>2, ShapeStutters
<1> QED
  BY <1>1, <1>2, <1>3, <1>4, <1>5, <1>6, <1>7, <1>8, <1>9, <1>10, <1>11, <1>12, <1>13, <1>14,
     <1>15, <1>16, <1>17, <1>18, <1>19, <1>20, <1>21, <1>22, <1>23, <1>24, <1>25 DEF Next, Begins

LEMMA ShapeInit ==
    ASSUME Init
    PROVE  ShapeInv
<1>1. kernel_thread \in Tasks /\ user \in Tasks /\ NoTask \notin Tasks
  BY TasksAssumption
<1>2. printf(NoAddress) \in Frames
  BY NewCalls DEF printf, Functions, Points, Locks, NoAddress
<1>3. calls \in [Tasks -> Seq(Frames)]
  <2>1. << >> \in Seq(Frames) /\ <<printf(NoAddress)>> \in Seq(Frames)
    BY <1>2
  <2> QED BY <2>1 DEF Init
<1>4. pml4 \in [Maps -> [Slots -> Nat]]
  BY DEF Init
<1>5. keeper \in [Locks -> Tasks \cup {NoTask}] /\ cur \in Tasks /\ intr \in BOOLEAN
  BY <1>1 DEF Init
<1>6. ranges \in Seq(MmapRanges) /\ Len(ranges) = 0
  BY DEF Init
<1>7. TypeOK
  BY <1>3, <1>4, <1>5, <1>6 DEF Init, TypeOK
<1>8. ASSUME NEW t \in Tasks PROVE StackOk(t)
  <2>1. CASE t \in {kernel_thread, user}
    <3>1. calls[t] = << >>
      BY <2>1 DEF Init
    <3> QED BY <3>1 DEF StackOk
  <2>2. CASE t \notin {kernel_thread, user}
    <3>1. calls[t] = <<printf(NoAddress)>>
      BY <2>2 DEF Init
    <3>2. Len(calls[t]) = 1 /\ calls[t][1] = printf(NoAddress)
      BY <3>1
    <3>3. BottomOk(t, printf(NoAddress), life)
      BY <2>2, NewFrames DEF BottomOk
    <3> QED BY <3>2, <3>3, NewFrames DEF StackOk
  <2> QED BY <2>1, <2>2
<1>9. RangesOk
  <2>1. calls[user] = << >>
    BY <1>1 DEF Init
  <2>2. mmap_anon_base = 0 /\ 0 <= first_byte(ProgramPages) + 0 * LongestMmap /\ 0 <= MaxRanges
    BY Sizes, LowerHalfAssumption DEF Init
  <2>3. RangesBelow(ranges, mmap_anon_base) /\ RangesLater
    BY DEF Init, RangesBelow, RangesLater
  <2> QED BY <1>6, <2>1, <2>2, <2>3 DEF RangesOk
<1> QED BY <1>7, <1>8, <1>9 DEF ShapeInv

(* Every task's calls are nested as the code nests them, and everything the    *)
(* kernel touches is in the heap, in the device or in the lower half.          *)
THEOREM ShapeInvariance == Spec => []ShapeInv
BY ShapeInit, ShapeStep, PTL DEF Spec

-----------------------------------------------------------------------------
(* The locks. *)

(* Every call that keeps a lock did so before. *)
Inherits ==
    \A t \in Tasks : \A i \in 1 .. Len(calls'[t]) :
        Keeps(calls'[t][i]) =>
            i \in 1 .. Len(calls[t]) /\ Keeps(calls[t][i]) /\ calls'[t][i].lock = calls[t][i].lock

LEMMA Inheritance ==
    ASSUME ShapeInv, NEW k, NEW m, Kept(k, m),
           \A i \in (k + 1) .. m :
             Keeps(calls'[cur][i]) =>
               i \in 1 .. Depth /\ Keeps(calls[cur][i]) /\ calls'[cur][i].lock = calls[cur][i].lock
    PROVE  Inherits
<1> SUFFICES ASSUME NEW t \in Tasks, NEW i \in 1 .. Len(calls'[t]), Keeps(calls'[t][i])
             PROVE  i \in 1 .. Len(calls[t]) /\ Keeps(calls[t][i]) /\ calls'[t][i].lock = calls[t][i].lock
  BY DEF Inherits
<1>0. Depth \in Nat /\ Depth = Len(calls[cur])
  BY DepthFacts DEF ShapeInv
<1>1. CASE t # cur
  BY <1>1 DEF Kept
<1>2. CASE t = cur
  <2>1. Len(calls'[t]) = m /\ k \in 0 .. Depth /\ m \in Nat
    BY <1>0, <1>2 DEF Kept
  <2>2. CASE i \in 1 .. k
    <3>1. calls'[t][i] = calls[t][i] /\ i \in 1 .. Len(calls[t])
      BY <1>0, <1>2, <2>1, <2>2 DEF Kept
    <3> QED BY <3>1
  <2>3. CASE i \in (k + 1) .. m
    BY <1>0, <1>2, <2>3
  <2> QED BY <2>1, <2>2, <2>3
<1> QED BY <1>1, <1>2

LEMMA LocksInherited ==
    ASSUME LockInv, Inherits, NEW l, 
           \A x \in Locks : x # l => keeper'[x] = keeper[x],
           \A t \in Tasks : \A i \in 1 .. Len(calls'[t]) : Keeps(calls'[t][i]) => calls'[t][i].lock # l,
           \A t \in Tasks : \A i \in 1 .. Len(calls'[t]) : Keeps(calls'[t][i]) => calls'[t][i].lock \in Locks
    PROVE  LockInv'
<1> SUFFICES ASSUME NEW t \in Tasks, NEW i \in 1 .. Len(calls'[t]), Keeps(calls'[t][i])
             PROVE  /\ keeper'[calls'[t][i].lock] = t
                    /\ \A j \in 1 .. Len(calls'[t]) :
                         Keeps(calls'[t][j]) /\ calls'[t][j].lock = calls'[t][i].lock => j = i
  BY DEF LockInv, Keeps
<1>1. i \in 1 .. Len(calls[t]) /\ Keeps(calls[t][i]) /\ calls'[t][i].lock = calls[t][i].lock
  BY DEF Inherits
<1>2. keeper[calls[t][i].lock] = t
      /\ \A j \in 1 .. Len(calls[t]) :
           Keeps(calls[t][j]) /\ calls[t][j].lock = calls[t][i].lock => j = i
  BY <1>1 DEF LockInv
<1>3. keeper'[calls'[t][i].lock] = keeper[calls'[t][i].lock]
  OBVIOUS
<1>4. ASSUME NEW j \in 1 .. Len(calls'[t]), Keeps(calls'[t][j]), calls'[t][j].lock = calls'[t][i].lock
      PROVE  j = i
  <2>1. j \in 1 .. Len(calls[t]) /\ Keeps(calls[t][j]) /\ calls'[t][j].lock = calls[t][j].lock
    BY <1>4 DEF Inherits
  <2> QED BY <1>1, <1>2, <1>4, <2>1
<1> QED BY <1>1, <1>2, <1>3, <1>4

InnerInv == LockInv /\ PmmInv /\ PrintInv

LEMMA KeptLocks ==
    ASSUME calls' \in [Tasks -> Seq(Frames)]
    PROVE  \A t \in Tasks : \A i \in 1 .. Len(calls'[t]) : Keeps(calls'[t][i]) => calls'[t][i].lock \in Locks
<1> SUFFICES ASSUME NEW t \in Tasks, NEW i \in 1 .. Len(calls'[t]), Keeps(calls'[t][i])
             PROVE  calls'[t][i].lock \in Locks
  OBVIOUS
<1>1. calls'[t] \in Seq(Frames)
  OBVIOUS
<1>2. calls'[t][i] \in Frames
  BY <1>1
<1> QED BY <1>2, FrameTypes DEF Keeps

(* The printf that keeps print_lock, if it touches a buffer. *)
BufferAt(t, i) ==
    i \in 1 .. Len(calls[t]) /\ calls[t][i].fn = "printf" /\ calls[t][i].virt # NoAddress
      /\ calls[t][i].at \in {"body", "unlock"}

LEMMA PrintForms ==
    PrintInv <=> \/ keeper["print_lock"] = NoTask
                 \/ keeper["print_lock"] = cur /\ Undisturbed("printf")
                 \/ \E i : BufferAt(keeper["print_lock"], i)
BY DEF PrintInv, BufferAt

LEMMA PrintQuiet ==
    ASSUME ShapeInv, PrintInv, keeper'["print_lock"] = keeper["print_lock"], UNCHANGED cur,
           NEW k, NEW m, Kept(k, m), ~ Undisturbed("printf"),
           \A i \in (k + 1) .. Depth : ~ BufferAt(cur, i)
    PROVE  PrintInv'
<1> USE DEF ShapeInv
<1>0. Depth \in Nat /\ Depth = Len(calls[cur]) /\ k \in 0 .. Depth /\ m \in Nat /\ k <= m
  BY DepthFacts DEF Kept
<1>1. CASE keeper["print_lock"] = NoTask
  BY <1>1 DEF PrintInv
<1>2. CASE keeper["print_lock"] # NoTask /\ \E i : BufferAt(keeper["print_lock"], i)
  <2> DEFINE t == keeper["print_lock"]
  <2>1. PICK i : BufferAt(t, i)
    BY <1>2
  <2>2. i \in 1 .. Len(calls'[t]) /\ calls'[t][i] = calls[t][i]
    <3>1. CASE t # cur
      <4>1. t \in Tasks
        BY <1>2 DEF TypeOK, Locks
      <4> QED BY <2>1, <3>1, <4>1 DEF Kept, BufferAt
    <3>2. CASE t = cur
      <4>1. i \in 1 .. Depth /\ i \notin (k + 1) .. Depth
        BY <1>0, <2>1, <3>2 DEF BufferAt
      <4>2. i \in 1 .. k
        BY <1>0, <4>1
      <4> QED BY <1>0, <3>2, <4>2 DEF Kept
    <3> QED BY <3>1, <3>2
  <2>3. BufferAt(t, i) /\ keeper'["print_lock"] = t
    BY <2>1
  <2> HIDE DEF t
  <2>4. i \in 1 .. Len(calls'[t]) /\ calls'[t][i].fn = "printf" /\ calls'[t][i].virt # NoAddress
        /\ calls'[t][i].at \in {"body", "unlock"}
    BY <2>2, <2>3 DEF BufferAt
  <2> QED BY <2>3, <2>4 DEF PrintInv
<1> QED BY <1>1, <1>2, PrintForms

(* Steps of a call that is neither in alloc_pages nor in printf with the lock. *)
LEMMA InnerQuiet ==
    ASSUME ShapeInv, InnerInv, UNCHANGED <<keeper, cur>>, NEW k, NEW m, Kept(k, m), k >= Depth - 1,
           Depth >= 1 => ~ (Top.fn \in {"printf", "alloc_pages"} /\ Top.at \in {"body", "unlock"}),
           \A i \in (k + 1) .. m :
             Keeps(calls'[cur][i]) => i = Depth /\ Keeps(Top) /\ calls'[cur][i].lock = Top.lock
    PROVE  InnerInv'
<1> USE DEF ShapeInv, InnerInv
<1>1. Depth \in Nat /\ Depth = Len(calls[cur]) /\ (calls[cur] # << >> <=> Depth >= 1)
      /\ (calls[cur] # << >> => Top = calls[cur][Depth])
  BY DepthFacts
<1>2. k \in 0 .. Depth /\ m \in Nat
  BY <1>1 DEF Kept
<1>3. ASSUME NEW i \in (k + 1) .. m, Keeps(calls'[cur][i])
      PROVE  i \in 1 .. Depth /\ Keeps(calls[cur][i]) /\ calls'[cur][i].lock = calls[cur][i].lock
  <2>1. i = Depth /\ Keeps(Top) /\ calls'[cur][i].lock = Top.lock /\ i \in Nat /\ i >= 1
    BY <1>2, <1>3
  <2> QED BY <1>1, <2>1
<1>4. Inherits
  BY <1>3, Inheritance
<1>5. LockInv'
  <2>1. calls' \in [Tasks -> Seq(Frames)]
    BY DEF Kept
  <2>2. NoLock \notin Locks
    BY DEF NoLock, Locks, Maps
  <2>3. \A t \in Tasks : \A i \in 1 .. Len(calls'[t]) : Keeps(calls'[t][i]) => calls'[t][i].lock \in Locks
    BY <2>1, KeptLocks
  <2>4. \A t \in Tasks : \A i \in 1 .. Len(calls'[t]) : Keeps(calls'[t][i]) => calls'[t][i].lock # NoLock
    BY <2>2, <2>3
  <2>5. \A x \in Locks : x # NoLock => keeper'[x] = keeper[x]
    OBVIOUS
  <2> QED BY <1>4, <2>3, <2>4, <2>5, LocksInherited
<1>6. PmmInv'
  <2>1. keeper["pmm_lock"] = NoTask
    BY <1>1 DEF PmmInv, Undisturbed
  <2> QED BY <2>1 DEF PmmInv
<1>7. PrintInv'
  <2>1. ~ Undisturbed("printf")
    BY <1>1 DEF Undisturbed
  <2>2. ASSUME NEW i \in (k + 1) .. Depth PROVE ~ BufferAt(cur, i)
    <3>1. i = Depth /\ Depth >= 1
      BY <1>1, <1>2, <2>2
    <3> QED BY <1>1, <3>1 DEF BufferAt
  <2> QED BY <2>1, <2>2, PrintQuiet
<1> QED BY <1>5, <1>6, <1>7

LEMMA WhoseLock ==
    ASSUME NEW f \in Frames, FrameOk(f)
    PROVE  /\ f.lock = "pmm_lock" <=> f.fn = "alloc_pages"
           /\ f.lock = "print_lock" <=> f.fn = "printf"
<1>1. f.fn \in Functions
  BY FrameTypes
<1>2. f.fn \in {"handle_page_fault", "map_page", "map_kernel", "heap", "mmap", "new_user_task", "access"}
        => f.lock \in {"user_pagemap", "kernel_pagemap", "alloc_lock", NoLock}
  BY DEF FrameOk
<1> QED BY <1>1, <1>2 DEF FrameOk, Functions, NoLock

LEMMA lockInner ==
    ASSUME ShapeInv, InnerInv, lock
    PROVE  InnerInv'
<1> USE DEF ShapeInv, InnerInv
<1> DEFINE l == Top.lock
           g == calls'[cur][Depth]
<1>1. Kept(Depth - 1, Depth) /\ Top.at = "lock" /\ keeper[l] = NoTask /\ Same(Top, g) /\ g.at = "body"
  BY lockEffect
<1>2. keeper' = [keeper EXCEPT ![l] = cur] /\ intr' = FALSE /\ cur' = cur /\ calls[cur] # << >>
  BY DEF lock, lockable, Busy
<1>3. Depth \in Nat /\ Depth = Len(calls[cur]) /\ Depth >= 1 /\ Top = calls[cur][Depth] /\ cur \in Tasks
      /\ Top \in Frames /\ FrameOk(Top)
  BY <1>2, DepthFacts, TopOk
<1>4. l \in Locks /\ keeper \in [Locks -> Tasks \cup {NoTask}]
  BY <1>1, <1>3, LockFrames DEF TypeOK
<1>5. keeper'[l] = cur /\ \A x \in Locks : x # l => keeper'[x] = keeper[x]
  BY <1>2, <1>4
<1>6. Len(calls'[cur]) = Depth /\ Depth \in 1 .. Depth /\ g.lock = l /\ g.fn = Top.fn
      /\ calls' \in [Tasks -> Seq(Frames)]
  BY <1>1, <1>3 DEF Kept, Same
<1> HIDE DEF l, g
<1>7. \A t \in Tasks : \A i \in 1 .. Len(calls[t]) : Keeps(calls[t][i]) => calls[t][i].lock # l
  BY <1>1, TasksAssumption DEF LockInv
<1>8. ASSUME NEW t \in Tasks, NEW i \in 1 .. Len(calls'[t]), <<t, i>> # <<cur, Depth>>
      PROVE  i \in 1 .. Len(calls[t]) /\ calls'[t][i] = calls[t][i]
  <2>1. CASE t # cur
    BY <1>1, <1>8, <2>1 DEF Kept
  <2>2. CASE t = cur
    <3>1. i \in 1 .. (Depth - 1) /\ i \in 1 .. Depth
      BY <1>3, <1>6, <1>8, <2>2
    <3> QED BY <1>1, <1>3, <2>2, <3>1 DEF Kept
  <2> QED BY <2>1, <2>2
<1>9. LockInv'
  <2> SUFFICES ASSUME NEW t \in Tasks, NEW i \in 1 .. Len(calls'[t]), Keeps(calls'[t][i])
               PROVE  /\ keeper'[calls'[t][i].lock] = t
                      /\ \A j \in 1 .. Len(calls'[t]) :
                           Keeps(calls'[t][j]) /\ calls'[t][j].lock = calls'[t][i].lock => j = i
    BY DEF LockInv, Keeps
  <2>1. CASE t = cur /\ i = Depth
    <3>1. calls'[t][i].lock = l
      BY <1>6, <2>1 DEF g
    <3>2. ASSUME NEW j \in 1 .. Len(calls'[t]), Keeps(calls'[t][j]), calls'[t][j].lock = l
          PROVE  j = i
      <4>1. CASE <<t, j>> # <<cur, Depth>>
        <5>1. j \in 1 .. Len(calls[t]) /\ calls'[t][j] = calls[t][j]
          BY <1>8, <3>2, <4>1
        <5> QED BY <1>7, <3>2, <5>1
      <4> QED BY <2>1, <4>1
    <3> QED BY <1>5, <2>1, <3>1, <3>2
  <2>2. CASE ~ (t = cur /\ i = Depth)
    <3>1. i \in 1 .. Len(calls[t]) /\ calls'[t][i] = calls[t][i]
      BY <1>8, <2>2
    <3>2. calls[t][i].lock # l /\ keeper[calls[t][i].lock] = t
          /\ \A j \in 1 .. Len(calls[t]) :
               Keeps(calls[t][j]) /\ calls[t][j].lock = calls[t][i].lock => j = i
      BY <1>7, <3>1 DEF LockInv
    <3>3. calls'[t][i].lock \in Locks
      BY <1>6, KeptLocks
    <3>4. ASSUME NEW j \in 1 .. Len(calls'[t]), Keeps(calls'[t][j]), calls'[t][j].lock = calls'[t][i].lock
          PROVE  j = i
      <4>1. <<t, j>> # <<cur, Depth>>
        BY <1>6, <3>1, <3>2, <3>4 DEF g
      <4>2. j \in 1 .. Len(calls[t]) /\ calls'[t][j] = calls[t][j]
        BY <1>8, <3>4, <4>1
      <4> QED BY <3>1, <3>2, <3>4, <4>2
    <3> QED BY <1>5, <3>1, <3>2, <3>3, <3>4
  <2> QED BY <2>1, <2>2
<1>10. Top' = g /\ calls'[cur] # << >>
  <2>1. Top' = calls'[cur'][Len(calls'[cur'])]
    BY DEF Top
  <2> QED BY <1>2, <1>3, <1>6, <2>1 DEF g
<1>11. PmmInv'
  <2>1. CASE l = "pmm_lock"
    <3>1. Top.fn = "alloc_pages"
      BY <1>3, <2>1, WhoseLock DEF l
    <3> QED BY <1>1, <1>2, <1>5, <1>6, <1>10, <2>1, <3>1 DEF PmmInv, Undisturbed
  <2>2. CASE l # "pmm_lock"
    <3>1. keeper["pmm_lock"] = NoTask
      BY <1>1 DEF PmmInv, Undisturbed
    <3> QED BY <1>5, <2>2, <3>1 DEF PmmInv, Locks
  <2> QED BY <2>1, <2>2
<1>12. PrintInv'
  <2>1. CASE l = "print_lock"
    <3>1. Top.fn = "printf"
      BY <1>3, <2>1, WhoseLock DEF l
    <3> QED BY <1>1, <1>2, <1>5, <1>6, <1>10, <2>1, <3>1 DEF PrintInv, Undisturbed
  <2>2. CASE l # "print_lock"
    <3>1. ~ Undisturbed("printf") /\ keeper'["print_lock"] = keeper["print_lock"]
      BY <1>1, <1>5, <2>2 DEF Undisturbed, Locks
    <3>2. ~ BufferAt(cur, Depth) /\ \A i \in ((Depth - 1) + 1) .. Depth : i = Depth
      BY <1>1, <1>3 DEF BufferAt
    <3> QED BY <1>1, <1>2, <3>1, <3>2, PrintQuiet
  <2> QED BY <2>1, <2>2
<1> QED BY <1>9, <1>11, <1>12

LEMMA unlockInner ==
    ASSUME ShapeInv, InnerInv, unlock
    PROVE  InnerInv'
<1> USE DEF ShapeInv, InnerInv
<1> DEFINE l == Top.lock
           d == Depth
<1>1. keeper' = [keeper EXCEPT ![l] = NoTask] /\ cur' = cur /\ calls[cur] # << >>
      /\ Top.at \in {"unlock", "unlock_failed"}
  BY DEF unlock, Busy
<1>2. d \in Nat /\ d = Len(calls[cur]) /\ d >= 1 /\ Top = calls[cur][d] /\ cur \in Tasks
      /\ Top \in Frames /\ FrameOk(Top) /\ d = Depth
  BY <1>1, DepthFacts, TopOk
<1>3. l \in Locks /\ keeper \in [Locks -> Tasks \cup {NoTask}] /\ l # NoLock
  BY <1>1, <1>2, LockFrames DEF TypeOK, Locks, Maps, NoLock
<1>4. keeper'[l] = NoTask /\ \A x \in Locks : x # l => keeper'[x] = keeper[x]
  BY <1>1, <1>3
<1>5. Keeps(Top)
  BY <1>1, <1>3 DEF Keeps
<1> DEFINE Left(k, m) ==
      /\ Kept(k, m)
      /\ \A i \in (k + 1) .. m :
           Keeps(calls'[cur][i]) => /\ i \in 1 .. d /\ i # d /\ Keeps(calls[cur][i])
                                    /\ calls'[cur][i].lock = calls[cur][i].lock
      /\ k < d
      /\ \A i \in (k + 1) .. d : i # d => ~ BufferAt(cur, i)
<1>6. \E k, m : Left(k, m)
  <2>1. CASE Top.fn = "alloc_pages"
    <3>1. d >= 2 /\ Kept(d - 2, d - 1) /\ Same(calls[cur][d - 1], calls'[cur][d - 1])
          /\ calls'[cur][d - 1].at = calls[cur][d - 1].at /\ CallOk(calls[cur][d - 1], Top)
      BY <1>2, <2>1, unlockEffect
    <3>2. d - 1 \in 1 .. d /\ d - 1 # d /\ d - 1 \in 1 .. Len(calls[cur])
          /\ (\A i \in ((d - 2) + 1) .. (d - 1) : i = d - 1)
          /\ (\A i \in ((d - 2) + 1) .. d : i # d => i = d - 1) /\ d - 2 < d
      BY <1>2, <3>1
    <3>3. FrameOk(calls[cur][d - 1])
      BY <1>2, <3>2 DEF StackOk
    <3>4. ~ BufferAt(cur, d - 1)
      BY <3>1, <3>3, <2>1 DEF BufferAt, CallOk, FrameOk
    <3>5. Keeps(calls'[cur][d - 1]) => Keeps(calls[cur][d - 1])
          /\ calls'[cur][d - 1].lock = calls[cur][d - 1].lock
      BY <3>1 DEF Keeps, Same
    <3> HIDE DEF d
    <3>6. Left(d - 2, d - 1)
      BY <3>1, <3>2, <3>4, <3>5
    <3> QED BY <3>6
  <2>2. CASE Top.fn = "handle_page_fault"
    <3>1. Kept(d - 1, d) /\ calls'[cur][d].at \in {"iret", "exception"}
      BY <1>2, <2>2, unlockEffect
    <3>2. (\A i \in ((d - 1) + 1) .. d : i = d) /\ d - 1 < d
      BY <1>2
    <3>3. ~ Keeps(calls'[cur][d])
      BY <3>1 DEF Keeps
    <3> HIDE DEF d
    <3>4. Left(d - 1, d)
      BY <3>1, <3>2, <3>3
    <3> QED BY <3>4
  <2>3. CASE Top.fn \notin {"alloc_pages", "handle_page_fault"}
    <3>1. Kept(d - 1, d - 1)
      BY <1>2, <2>3, unlockEffect
    <3>2. (\A i \in ((d - 1) + 1) .. d : i = d) /\ (\A i \in ((d - 1) + 1) .. (d - 1) : FALSE)
          /\ d - 1 < d
      BY <1>2
    <3> HIDE DEF d
    <3>3. Left(d - 1, d - 1)
      BY <3>1, <3>2
    <3> QED BY <3>3
  <2> QED BY <2>1, <2>2, <2>3
<1>7. PICK k, m : Left(k, m)
  BY <1>6
<1> HIDE DEF l
<1>8. Inherits
  BY <1>2, <1>7, Inheritance
<1>9. ASSUME NEW t \in Tasks, NEW i \in 1 .. Len(calls'[t]), Keeps(calls'[t][i])
      PROVE  calls'[t][i].lock # l
  <2> SUFFICES ASSUME calls'[t][i].lock = l PROVE FALSE
    OBVIOUS
  <2>1. i \in 1 .. Len(calls[t]) /\ Keeps(calls[t][i]) /\ calls[t][i].lock = l
    BY <1>8, <1>9 DEF Inherits
  <2>2. d \in 1 .. Len(calls[cur]) /\ Keeps(calls[cur][d]) /\ calls[cur][d].lock = l
    BY <1>2, <1>5 DEF l
  <2>3. t = cur /\ i = d
    BY <1>2, <2>1, <2>2 DEF LockInv
  <2>4. i \in (k + 1) .. m
    <3>1. Len(calls'[cur]) = m /\ k \in 0 .. d /\ m \in Nat
      BY <1>2, <1>7 DEF Kept
    <3>2. k < d
      BY <1>7
    <3> QED BY <1>2, <1>9, <2>3, <3>1, <3>2
  <2> QED BY <1>7, <1>9, <2>3, <2>4
<1>10. LockInv'
  <2>1. \A t \in Tasks : \A i \in 1 .. Len(calls'[t]) : Keeps(calls'[t][i]) => calls'[t][i].lock \in Locks
    BY <1>7, KeptLocks DEF Kept
  <2> QED BY <1>4, <1>8, <1>9, <2>1, LocksInherited
<1>11. PmmInv'
  <2>1. CASE l = "pmm_lock"
    BY <1>4, <2>1 DEF PmmInv
  <2>2. CASE l # "pmm_lock"
    <3>1. Top.fn # "alloc_pages"
      BY <1>2, <2>2, WhoseLock DEF l
    <3>2. keeper["pmm_lock"] = NoTask
      BY <3>1 DEF PmmInv, Undisturbed
    <3> QED BY <1>4, <2>2, <3>2 DEF PmmInv, Locks
  <2> QED BY <2>1, <2>2
<1>12. PrintInv'
  <2>1. CASE l = "print_lock"
    BY <1>4, <2>1 DEF PrintInv
  <2>2. CASE l # "print_lock"
    <3>1. Top.fn # "printf"
      BY <1>2, <2>2, WhoseLock DEF l
    <3>2. ~ Undisturbed("printf") /\ keeper'["print_lock"] = keeper["print_lock"]
      BY <1>4, <2>2, <3>1 DEF Undisturbed, Locks
    <3>3. ~ BufferAt(cur, d)
      BY <1>2, <3>1 DEF BufferAt
    <3>4. \A i \in (k + 1) .. Depth : ~ BufferAt(cur, i)
      BY <1>2, <1>7, <3>3
    <3> QED BY <1>1, <1>7, <3>2, <3>4, PrintQuiet
  <2> QED BY <2>1, <2>2
<1> QED BY <1>10, <1>11, <1>12

LEMMA TickInner ==
    ASSUME ShapeInv, InnerInv, NEW t \in Tasks, Tick(t)
    PROVE  InnerInv'
<1> USE DEF InnerInv
<1>1. intr /\ UNCHANGED <<keeper, calls>>
  BY DEF Tick
<1>2. LockInv'
  BY <1>1 DEF LockInv, Keeps
<1>3. ~ Undisturbed("alloc_pages") /\ ~ Undisturbed("printf")
  BY <1>1 DEF Undisturbed
<1>4. PmmInv'
  BY <1>1, <1>3 DEF PmmInv
<1>5. PrintInv'
  BY <1>1, <1>3 DEF PrintInv
<1> QED BY <1>2, <1>4, <1>5

LEMMA TakePageInner ==
    ASSUME ShapeInv, InnerInv, TakePage
    PROVE  InnerInv'
<1> USE DEF InnerInv, ShapeInv
<1> DEFINE d == Depth
           g == calls'[cur][d]
<1>1. Kept(d - 1, d) /\ Top.fn = "alloc_pages" /\ Top.at = "body" /\ Same(Top, g) /\ g.at = "unlock"
  BY TakePageEffect
<1>2. UNCHANGED <<keeper, cur, intr>> /\ calls[cur] # << >>
  BY DEF TakePage, In, Busy
<1>3. d \in Nat /\ d = Len(calls[cur]) /\ d >= 1 /\ Top = calls[cur][d] /\ cur \in Tasks /\ d = Depth
      /\ FrameOk(Top)
  BY <1>2, DepthFacts, TopOk
<1>4. \A i \in ((d - 1) + 1) .. d : i = d /\ i \in 1 .. d
  BY <1>3
<1>5. Keeps(Top) /\ g.lock = Top.lock /\ g.fn = Top.fn
  BY <1>1, <1>3 DEF Keeps, FrameOk, NoLock, Same
<1> HIDE DEF d
<1>6. Inherits
  BY <1>1, <1>3, <1>4, <1>5, Inheritance
<1>7. LockInv'
  <2>1. \A t \in Tasks : \A i \in 1 .. Len(calls'[t]) : Keeps(calls'[t][i]) => calls'[t][i].lock \in Locks
    BY <1>1, KeptLocks DEF Kept
  <2>2. NoLock \notin Locks
    BY DEF NoLock, Locks, Maps
  <2>3. \A t \in Tasks : \A i \in 1 .. Len(calls'[t]) : Keeps(calls'[t][i]) => calls'[t][i].lock # NoLock
    BY <2>1, <2>2
  <2>4. \A x \in Locks : x # NoLock => keeper'[x] = keeper[x]
    BY <1>2
  <2> QED BY <1>6, <2>1, <2>3, <2>4, LocksInherited
<1>8. Top' = g /\ calls'[cur] # << >>
  <2>1. Top' = calls'[cur'][Len(calls'[cur'])]
    BY DEF Top
  <2>2. Len(calls'[cur]) = d
    BY <1>1 DEF Kept
  <2> QED BY <1>2, <1>3, <2>1, <2>2
<1> HIDE DEF g
<1>9. PmmInv'
  BY <1>1, <1>2, <1>5, <1>8 DEF PmmInv, Undisturbed
<1>10. PrintInv'
  <2>1. ~ Undisturbed("printf") /\ keeper'["print_lock"] = keeper["print_lock"]
    BY <1>1, <1>2 DEF Undisturbed
  <2>2. \A i \in ((d - 1) + 1) .. Depth : ~ BufferAt(cur, i)
    BY <1>1, <1>3, <1>4 DEF BufferAt
  <2> QED BY <1>1, <1>2, <2>1, <2>2, PrintQuiet
<1> QED BY <1>7, <1>9, <1>10

(* A printf with the lock moves on, or faults on a buffer. *)
LEMMA PrintfTouchInner ==
    ASSUME ShapeInv, InnerInv, KernelTouch, Top.fn = "printf"
    PROVE  InnerInv'
<1> USE DEF InnerInv, ShapeInv
<1> DEFINE d == Depth
<1>1. UNCHANGED <<keeper, cur>> /\ calls[cur] # << >> /\ Top.at = "body"
  BY DEF KernelTouch, Busy
<1>2. d \in Nat /\ d = Len(calls[cur]) /\ d >= 1 /\ Top = calls[cur][d] /\ cur \in Tasks /\ d = Depth
      /\ FrameOk(Top)
  BY <1>1, DepthFacts, TopOk
<1>3. Keeps(Top)
  BY <1>1, <1>2 DEF Keeps, FrameOk, NoLock
<1>4. keeper["pmm_lock"] = NoTask
  BY DEF PmmInv, Undisturbed
<1>5. PmmInv'
  BY <1>1, <1>4 DEF PmmInv
<1>6. keeper["print_lock"] = cur
  BY <1>2, <1>3 DEF LockInv, FrameOk
<1>7. ASSUME Inherits, calls' \in [Tasks -> Seq(Frames)] PROVE LockInv'
  <2>1. \A t \in Tasks : \A i \in 1 .. Len(calls'[t]) : Keeps(calls'[t][i]) => calls'[t][i].lock \in Locks
    BY <1>7, KeptLocks
  <2>2. NoLock \notin Locks
    BY DEF NoLock, Locks, Maps
  <2>3. \A t \in Tasks : \A i \in 1 .. Len(calls'[t]) : Keeps(calls'[t][i]) => calls'[t][i].lock # NoLock
    BY <2>1, <2>2
  <2>4. \A x \in Locks : x # NoLock => keeper'[x] = keeper[x]
    BY <1>1
  <2> QED BY <1>7, <2>1, <2>3, <2>4, LocksInherited
<1>8. CASE /\ Kept(d - 1, d) /\ UNCHANGED intr
           /\ Same(Top, calls'[cur][d]) /\ calls'[cur][d].at = "unlock"
  <2> DEFINE g == calls'[cur][d]
  <2>1. (\A i \in ((d - 1) + 1) .. d : i = d /\ i \in 1 .. d) /\ d \in 1 .. d
    BY <1>2
  <2>2. g.lock = Top.lock /\ g.fn = "printf" /\ g.virt = Top.virt /\ g.at = "unlock"
    BY <1>8 DEF Same
  <2>3. Len(calls'[cur]) = d /\ calls' \in [Tasks -> Seq(Frames)]
    BY <1>8 DEF Kept
  <2>4. Top' = g /\ calls'[cur] # << >>
    <3>1. Top' = calls'[cur'][Len(calls'[cur'])]
      BY DEF Top
    <3> QED BY <1>1, <1>2, <2>3, <3>1
  <2> HIDE DEF d
  <2>5. Inherits
    BY <1>2, <1>3, <1>8, <2>1, <2>2, Inheritance
  <2>6. LockInv'
    BY <1>7, <2>3, <2>5
  <2>7. PrintInv'
    <3>1. CASE Undisturbed("printf")
      <4>1. Undisturbed("printf")'
        BY <1>1, <1>8, <2>2, <2>4, <3>1 DEF Undisturbed
      <4> QED BY <1>1, <1>6, <4>1 DEF PrintInv
    <3>2. CASE \E i : BufferAt(cur, i)
      <4>1. PICK i : BufferAt(cur, i)
        BY <3>2
      <4>2. i \in 1 .. d
        BY <1>2, <4>1 DEF BufferAt
      <4>3. i \in 1 .. Len(calls'[cur]) /\ calls'[cur][i].fn = "printf" /\ calls'[cur][i].virt # NoAddress
            /\ calls'[cur][i].at \in {"body", "unlock"}
        <5>1. CASE i = d
          BY <1>2, <2>2, <2>3, <4>1, <4>2, <5>1 DEF BufferAt
        <5>2. CASE i # d
          <6>1. i \in 1 .. (d - 1)
            BY <1>2, <4>2, <5>2
          <6>2. calls'[cur][i] = calls[cur][i]
            BY <1>8, <6>1 DEF Kept
          <6> QED BY <2>3, <4>1, <4>2, <6>2 DEF BufferAt
        <5> QED BY <5>1, <5>2
      <4> QED BY <1>1, <1>6, <4>3 DEF PrintInv
    <3> QED BY <1>2, <1>6, <3>1, <3>2, PrintForms, TasksAssumption
  <2> QED BY <1>5, <2>6, <2>7
<1>9. CASE /\ Top.virt # NoAddress /\ Kept(d, d + 1)
           /\ calls'[cur][d + 1] = Fault("kernel_pagemap", Top.virt, FALSE)
  <2>1. ~ Keeps(calls'[cur][d + 1])
    BY <1>9, KernelFault DEF Keeps
  <2>2. (\A i \in (d + 1) .. (d + 1) : i = d + 1) /\ d \in 1 .. d /\ d \in 1 .. (d + 1)
    BY <1>2
  <2>3. Len(calls'[cur]) = d + 1 /\ calls'[cur][d] = Top /\ calls' \in [Tasks -> Seq(Frames)]
    BY <1>2, <1>9, <2>2 DEF Kept
  <2> HIDE DEF d
  <2>4. Inherits
    BY <1>9, <2>1, <2>2, Inheritance
  <2>5. LockInv'
    BY <1>7, <2>3, <2>4
  <2>6. d \in 1 .. Len(calls'[cur]) /\ calls'[cur][d].fn = "printf" /\ calls'[cur][d].virt # NoAddress
        /\ calls'[cur][d].at \in {"body", "unlock"}
    BY <1>1, <1>9, <2>2, <2>3
  <2>7. PrintInv'
    BY <1>1, <1>6, <2>6 DEF PrintInv
  <2> QED BY <1>5, <2>5, <2>7
<1> QED BY <1>8, <1>9, KernelTouchEffect

LEMMA StutterKept ==
    ASSUME ShapeInv, UNCHANGED calls
    PROVE  Kept(Depth, Depth) /\ Depth \in Nat /\ \A i \in (Depth + 1) .. Depth : FALSE
<1>1. Depth \in Nat /\ Depth = Len(calls[cur]) /\ calls \in [Tasks -> Seq(Frames)]
  BY DepthFacts DEF ShapeInv, TypeOK
<1> QED BY <1>1 DEF Kept

QuietTop == Depth >= 1 => ~ (Top.fn \in {"printf", "alloc_pages"} /\ Top.at \in {"body", "unlock"})

LEMMA InnerMoves ==
    ASSUME ShapeInv, InnerInv, UNCHANGED <<keeper, cur>>, Depth >= 1, Kept(Depth - 1, Depth), QuietTop,
           Keeps(calls'[cur][Depth]) => Keeps(Top), calls'[cur][Depth].lock = Top.lock
    PROVE  InnerInv'
<1>1. Depth \in Nat
  BY DepthFacts DEF ShapeInv
<1>2. (\A i \in ((Depth - 1) + 1) .. Depth : i = Depth) /\ Depth - 1 >= Depth - 1
  BY <1>1
<1> QED BY <1>2, InnerQuiet DEF QuietTop

LEMMA InnerCalls ==
    ASSUME ShapeInv, InnerInv, UNCHANGED <<keeper, cur>>, Depth >= 1, Kept(Depth - 1, Depth + 1), QuietTop,
           Keeps(calls'[cur][Depth]) => Keeps(Top), calls'[cur][Depth].lock = Top.lock,
           calls'[cur][Depth + 1].at = "lock"
    PROVE  InnerInv'
<1>1. Depth \in Nat
  BY DepthFacts DEF ShapeInv
<1>2. (\A i \in ((Depth - 1) + 1) .. (Depth + 1) : i = Depth \/ i = Depth + 1) /\ Depth - 1 >= Depth - 1
  BY <1>1
<1>3. ~ Keeps(calls'[cur][Depth + 1])
  BY DEF Keeps
<1> QED BY <1>2, <1>3, InnerQuiet DEF QuietTop

LEMMA InnerReturns ==
    ASSUME ShapeInv, InnerInv, UNCHANGED <<keeper, cur>>, Depth >= 1, Kept(Depth - 1, Depth - 1), QuietTop
    PROVE  InnerInv'
<1>1. Depth \in Nat
  BY DepthFacts DEF ShapeInv
<1>2. (\A i \in ((Depth - 1) + 1) .. (Depth - 1) : FALSE) /\ Depth - 1 >= Depth - 1
  BY <1>1
<1> QED BY <1>2, InnerQuiet DEF QuietTop

LEMMA InnerStarts ==
    ASSUME ShapeInv, InnerInv, UNCHANGED <<keeper, cur>>, Depth = 0, NEW m, Kept(0, m),
           \A i \in 1 .. m : ~ Keeps(calls'[cur][i])
    PROVE  InnerInv'
<1>1. (0 >= Depth - 1) /\ 0 + 1 = 1
  OBVIOUS
<1> QED BY <1>1, InnerQuiet

LEMMA InnerStutters ==
    ASSUME ShapeInv, InnerInv, UNCHANGED <<keeper, cur, calls>>, QuietTop
    PROVE  InnerInv'
<1>1. Kept(Depth, Depth) /\ Depth \in Nat /\ \A i \in (Depth + 1) .. Depth : FALSE
  BY StutterKept
<1>2. Depth >= Depth - 1
  BY <1>1
<1> QED BY <1>1, <1>2, InnerQuiet DEF QuietTop

LEMMA InnerStep ==
    ASSUME ShapeInv, InnerInv, [Next]_vars
    PROVE  InnerInv'
<1> DEFINE g == calls'[cur][Depth]
           h == calls'[cur][Depth + 1]
<1>1. CASE lock
  BY <1>1, lockInner
<1>2. CASE SpinTooMuch
  <2>1. UNCHANGED <<keeper, cur, calls>> /\ QuietTop
    BY <1>2 DEF SpinTooMuch, QuietTop
  <2> QED BY <2>1, InnerStutters
<1>3. CASE unlock
  BY <1>3, unlockInner
<1>4. CASE \E t \in Tasks : Tick(t)
  BY <1>4, TickInner
<1>5. CASE KernelTouch
  <2>1. CASE Top.fn = "printf"
    BY <1>5, <2>1, PrintfTouchInner
  <2>2. CASE Top.fn # "printf"
    <3>1. UNCHANGED <<keeper, cur>> /\ QuietTop /\ Depth >= 1 /\ calls[cur] # << >>
      BY <1>5, <2>2, KernelTouchEffect DEF KernelTouch, QuietTop, ShapeInv, Busy
    <3>2. CASE Kept(Depth - 1, Depth - 1)
      BY <3>1, <3>2, InnerReturns
    <3>3. CASE Top.fn # "access" /\ Kept(Depth - 1, Depth) /\ Same(Top, g) /\ g.at = "unlock"
      <4>1. Keeps(g) => Keeps(Top)
        <5>1. Top.at = "body"
          BY <1>5 DEF KernelTouch
        <5> QED BY <3>3, <5>1 DEF Keeps, Same
      <4> QED BY <3>1, <3>3, <4>1, InnerMoves DEF Same
    <3>4. CASE Kept(Depth, Depth + 1) /\ h = Fault("kernel_pagemap", Top.virt, FALSE)
      <4>1. ~ Keeps(h)
        BY <3>4, KernelFault DEF Keeps
      <4>2. Depth \in Nat
        BY DepthFacts DEF ShapeInv
      <4>3. (\A i \in (Depth + 1) .. (Depth + 1) : i = Depth + 1) /\ Depth >= Depth - 1
        BY <4>2
      <4> QED BY <3>1, <3>4, <4>1, <4>3, InnerQuiet DEF QuietTop
    <3> QED BY <1>5, <3>2, <3>3, <3>4, KernelTouchEffect DEF ShapeInv
  <2> QED BY <2>1, <2>2
<1>6. CASE TakePage
  BY <1>6, TakePageInner
<1>7. CASE page_table_next_level
  <2>1. Depth >= 1 /\ Kept(Depth - 1, Depth + 1) /\ Top.fn \in {"handle_page_fault", "map_page"}
        /\ Same(Top, g) /\ h = alloc_pages /\ Top.at = "body"
    BY <1>7, NextLevelEffect DEF ShapeInv
  <2>2. UNCHANGED <<keeper, cur>> /\ QuietTop
    BY <1>7, <2>1 DEF page_table_next_level, QuietTop
  <2>3. (Keeps(g) => Keeps(Top)) /\ g.lock = Top.lock /\ h.at = "lock"
    BY <2>1, NewFrames DEF Keeps, Same
  <2> QED BY <2>1, <2>2, <2>3, InnerCalls
<1>8. CASE SetTable
  <2>1. Depth >= 1 /\ Kept(Depth - 1, Depth) /\ Top.at = "table" /\ Same(Top, g)
    BY <1>8, SetTableEffect DEF ShapeInv
  <2>2. UNCHANGED <<keeper, cur>> /\ QuietTop
    BY <1>8, <2>1 DEF SetTable, QuietTop
  <2>3. (Keeps(g) => Keeps(Top)) /\ g.lock = Top.lock
    BY <2>1 DEF Keeps, Same
  <2> QED BY <2>1, <2>2, <2>3, InnerMoves
<1>9. CASE MapPage
  <2>1. Depth >= 1 /\ Kept(Depth - 1, Depth) /\ Top.fn = "map_page" /\ Same(Top, g) /\ Top.at = "body"
    BY <1>9, MapPageEffect DEF ShapeInv
  <2>2. UNCHANGED <<keeper, cur>> /\ QuietTop
    BY <1>9, <2>1 DEF MapPage, QuietTop
  <2>3. (Keeps(g) => Keeps(Top)) /\ g.lock = Top.lock
    BY <2>1 DEF Keeps, Same
  <2> QED BY <2>1, <2>2, <2>3, InnerMoves
<1>10. CASE MapKernel
  <2>1. Depth >= 1 /\ Kept(Depth - 1, Depth) /\ Top.fn = "map_kernel" /\ Same(Top, g) /\ Top.at = "body"
    BY <1>10, MapKernelEffect DEF ShapeInv
  <2>2. UNCHANGED <<keeper, cur>> /\ QuietTop
    BY <1>10, <2>1 DEF MapKernel, QuietTop
  <2>3. (Keeps(g) => Keeps(Top)) /\ g.lock = Top.lock
    BY <2>1 DEF Keeps, Same
  <2> QED BY <2>1, <2>2, <2>3, InnerMoves
<1>11. CASE FaultFails
  <2>1. Depth >= 1 /\ Kept(Depth - 1, Depth) /\ Top.fn = "handle_page_fault" /\ Same(Top, g)
        /\ Top.at = "body"
    BY <1>11, FaultFailsEffect DEF ShapeInv
  <2>2. UNCHANGED <<keeper, cur>> /\ QuietTop
    BY <1>11, <2>1 DEF FaultFails, QuietTop
  <2>3. (Keeps(g) => Keeps(Top)) /\ g.lock = Top.lock
    BY <2>1 DEF Keeps, Same
  <2> QED BY <2>1, <2>2, <2>3, InnerMoves
<1>12. CASE FaultServed
  <2>1. Depth >= 1 /\ Top.fn = "handle_page_fault" /\ Top.at = "body"
    BY <1>12, FaultServedEffect DEF ShapeInv
  <2>2. UNCHANGED <<keeper, cur>> /\ QuietTop
    BY <1>12, <2>1 DEF FaultServed, QuietTop
  <2>3. CASE Kept(Depth - 1, Depth + 1) /\ Same(Top, g) /\ h = alloc_pages
    <3>1. (Keeps(g) => Keeps(Top)) /\ g.lock = Top.lock /\ h.at = "lock"
      BY <2>1, <2>3, NewFrames DEF Keeps, Same
    <3> QED BY <2>1, <2>2, <2>3, <3>1, InnerCalls
  <2>4. CASE Kept(Depth - 1, Depth) /\ Same(Top, g)
    <3>1. (Keeps(g) => Keeps(Top)) /\ g.lock = Top.lock
      BY <2>1, <2>4 DEF Keeps, Same
    <3> QED BY <2>1, <2>2, <2>4, <3>1, InnerMoves
  <2> QED BY <1>12, <2>3, <2>4, FaultServedEffect DEF ShapeInv
<1>13. CASE FaultFills
  <2>1. Depth >= 1 /\ Kept(Depth - 1, Depth) /\ Top.fn = "handle_page_fault" /\ Same(Top, g)
        /\ Top.at = "fill"
    BY <1>13, FaultFillsEffect DEF ShapeInv
  <2>2. UNCHANGED <<keeper, cur>> /\ QuietTop
    BY <1>13, <2>1 DEF FaultFills, QuietTop
  <2>3. (Keeps(g) => Keeps(Top)) /\ g.lock = Top.lock
    BY <2>1 DEF Keeps, Same
  <2> QED BY <2>1, <2>2, <2>3, InnerMoves
<1>14. CASE iret \/ MmapAdds \/ Enqueue
  <2>1. Depth >= 1 /\ Kept(Depth - 1, Depth - 1)
    BY <1>14, ReturnsEffect DEF ShapeInv
  <2>2. UNCHANGED <<keeper, cur>> /\ QuietTop
    BY <1>14 DEF iret, MmapAdds, Enqueue, In, QuietTop
  <2> QED BY <2>1, <2>2, InnerReturns
<1>15. CASE exception_handler
  <2>1. Depth >= 1 /\ Kept(Depth - 1, Depth + 1) /\ Top.fn = "handle_page_fault"
        /\ Same(Top, g) /\ g.at = "end" /\ h = printf(NoAddress)
    BY <1>15, exception_handlerEffect DEF ShapeInv
  <2>2. UNCHANGED <<keeper, cur>> /\ QuietTop
    BY <1>15, <2>1 DEF exception_handler, QuietTop
  <2>3. (Keeps(g) => Keeps(Top)) /\ g.lock = Top.lock /\ h.at = "lock"
    BY <2>1, NewFrames DEF Keeps, Same
  <2> QED BY <2>1, <2>2, <2>3, InnerCalls
<1>16. CASE ExceptionEnds
  <2>1. UNCHANGED <<keeper, cur, calls>> /\ QuietTop
    BY <1>16 DEF ExceptionEnds, QuietTop, In
  <2> QED BY <2>1, InnerStutters
<1>17. CASE Begins
  <2>1. /\ Depth = 0 /\ Kept(0, 1)
        /\ calls'[cur][1].lock # NoLock => calls'[cur][1].at = "lock"
        /\ UNCHANGED <<memory, keeper, intr, cur, life, status>>
    BY <1>17, BeginsEffect DEF ShapeInv
  <2>2. \A i \in 1 .. 1 : i = 1
    OBVIOUS
  <2>3. ~ Keeps(calls'[cur][1])
    BY <2>1 DEF Keeps
  <2> QED BY <2>1, <2>2, <2>3, InnerStarts
<1>18. CASE \E virt \in UserBytes \cup KernelBytes, write \in BOOLEAN : UserTouch(virt, write)
  <2>1. PICK virt \in UserBytes \cup KernelBytes, write \in BOOLEAN : UserTouch(virt, write)
    BY <1>18
  <2>2. Depth = 0 /\ Kept(0, 1) /\ calls'[cur][1].at = "lock"
    BY <2>1, UserTouchEffect DEF ShapeInv
  <2>3. UNCHANGED <<keeper, cur>>
    BY <2>1 DEF UserTouch
  <2>4. (\A i \in 1 .. 1 : i = 1) /\ ~ Keeps(calls'[cur][1])
    BY <2>2 DEF Keeps
  <2> QED BY <2>2, <2>3, <2>4, InnerStarts
<1>19. CASE (\E length \in MmapLengths, w \in BOOLEAN : mmap(length, w)) \/ NewUserTask
  <2>1. Depth = 0 /\ Kept(0, 2) /\ calls'[cur][1].lock = NoLock /\ calls'[cur][2].at = "lock"
    BY <1>19, mmapEffect, NewUserTaskEffect DEF ShapeInv
  <2>2. UNCHANGED <<keeper, cur>>
    BY <1>19 DEF mmap, NewUserTask
  <2>3. \A i \in 1 .. 2 : i = 1 \/ i = 2
    OBVIOUS
  <2>4. ~ Keeps(calls'[cur][1]) /\ ~ Keeps(calls'[cur][2])
    BY <2>1 DEF Keeps
  <2> QED BY <2>1, <2>2, <2>3, <2>4, InnerStarts
<1>22. CASE NewPml4
  <2>1. Depth >= 1 /\ Kept(Depth - 1, Depth + 1) /\ Top.fn = "new_user_task"
        /\ (h = alloc_pages \/ h = map_kernel) /\ g.lock = Top.lock
    BY <1>22, NewPml4Effect DEF Same, ShapeInv
  <2>2. UNCHANGED <<keeper, cur>> /\ QuietTop /\ calls[cur] # << >>
    BY <1>22, <2>1 DEF NewPml4, QuietTop, In, Busy
  <2>3. Top.lock = NoLock
    BY <2>1, <2>2, TopOk DEF FrameOk, ShapeInv
  <2>4. ~ Keeps(g) /\ h.at = "lock"
    BY <2>1, <2>3, NewFrames DEF Keeps
  <2> QED BY <2>1, <2>2, <2>4, InnerCalls
<1>23. CASE LoadPage
  <2>1. Depth >= 1 /\ Kept(Depth - 1, Depth + 1) /\ Top.fn = "new_user_task"
        /\ (h = alloc_pages \/ h.at = "lock") /\ g.lock = Top.lock
    BY <1>23, LoadPageEffect DEF ShapeInv
  <2>2. UNCHANGED <<keeper, cur>> /\ QuietTop /\ calls[cur] # << >>
    BY <1>23, <2>1 DEF LoadPage, QuietTop, In, Busy
  <2>3. Top.lock = NoLock
    BY <2>1, <2>2, TopOk DEF FrameOk, ShapeInv
  <2>4. ~ Keeps(g) /\ h.at = "lock"
    BY <2>1, <2>3, NewFrames DEF Keeps
  <2> QED BY <2>1, <2>2, <2>4, InnerCalls
<1>25. CASE UNCHANGED vars
  BY <1>25 DEF vars, InnerInv, LockInv, PmmInv, PrintInv, Undisturbed, Top, Keeps
<1> QED
  BY <1>1, <1>2, <1>3, <1>4, <1>5, <1>6, <1>7, <1>8, <1>9, <1>10, <1>11, <1>12, <1>13, <1>14,
     <1>15, <1>16, <1>17, <1>18, <1>19, <1>22, <1>23, <1>25 DEF Next, Begins

LEMMA InnerInit ==
    ASSUME Init
    PROVE  InnerInv
<1>1. \A l \in Locks : keeper[l] = NoTask
  BY DEF Init
<1>2. keeper["pmm_lock"] = NoTask /\ keeper["print_lock"] = NoTask
  BY <1>1 DEF Locks
<1>3. ASSUME NEW t \in Tasks, NEW i \in 1 .. Len(calls[t]) PROVE ~ Keeps(calls[t][i])
  <2>1. CASE t \in {kernel_thread, user}
    <3>1. calls[t] = << >>
      BY <2>1 DEF Init
    <3> QED BY <1>3, <3>1
  <2>2. CASE t \notin {kernel_thread, user}
    <3>1. calls[t] = <<printf(NoAddress)>>
      BY <2>2 DEF Init
    <3>2. calls[t][i] = printf(NoAddress)
      BY <1>3, <3>1
    <3> QED BY <3>2, NewFrames DEF Keeps
  <2> QED BY <2>1, <2>2
<1>4. LockInv
  BY <1>3 DEF LockInv
<1> QED BY <1>2, <1>4 DEF InnerInv, PmmInv, PrintInv

(* A call that is past its lock keeps it, alone: each lock that is kept is     *)
(* kept by one call of its keeper.                                             *)
THEOREM LockInvariance == Spec => []InnerInv
<1>1. Init => ShapeInv /\ InnerInv
  BY ShapeInit, InnerInit
<1>2. ShapeInv /\ InnerInv /\ [Next]_vars => ShapeInv' /\ InnerInv'
  BY ShapeStep, InnerStep
<1> QED BY <1>1, <1>2, PTL DEF Spec

(* InnerLocksKeepProcessor for any tasks: whoever keeps pmm_lock runs, and so  *)
(* does whoever keeps print_lock unless a buffer of the program faulted.       *)
THEOREM InnerLocksAreKept == Spec => []InnerLocksKeepProcessor
<1>1. ASSUME ShapeInv, InnerInv PROVE InnerLocksKeepProcessor
  <2>1. keeper["pmm_lock"] \in {NoTask, cur}
    BY <1>1 DEF InnerInv, PmmInv
  <2>2. CASE \E i : BufferAt(keeper["print_lock"], i)
    <3>1. PICK i : BufferAt(keeper["print_lock"], i)
      BY <2>2
    <3>2. CASE keeper["print_lock"] \in Tasks
      <4>1. calls[keeper["print_lock"]] \in Seq(Frames)
        BY <1>1, <3>2, DepthFacts DEF ShapeInv
      <4>2. i \in DOMAIN calls[keeper["print_lock"]]
        BY <3>1, <4>1 DEF BufferAt
      <4>3. PrintsBuffer(keeper["print_lock"])
        BY <3>1, <4>2 DEF BufferAt, PrintsBuffer
      <4> QED BY <2>1, <4>3 DEF InnerLocksKeepProcessor
    <3>3. keeper["print_lock"] \in Tasks \cup {NoTask}
      BY <1>1 DEF ShapeInv, TypeOK, Locks
    <3> QED BY <2>1, <3>2, <3>3 DEF InnerLocksKeepProcessor
  <2> QED BY <1>1, <2>1, <2>2, PrintForms DEF InnerInv, InnerLocksKeepProcessor
<1>2. Init => ShapeInv /\ InnerInv
  BY ShapeInit, InnerInit
<1>3. ShapeInv /\ InnerInv /\ [Next]_vars => ShapeInv' /\ InnerInv'
  BY ShapeStep, InnerStep
<1> QED BY <1>1, <1>2, <1>3, PTL DEF Spec

=============================================================================
