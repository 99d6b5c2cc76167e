-------------------------- MODULE PagingMaps_proofs --------------------------
(* Proofs about the page maps themselves: what is mapped, which faults are     *)
(* served, and what becomes of the pages: each serves one purpose, and an      *)
(* address that is backed stays backed by the same page. The shape of the      *)
(* stacks and the locks are in Paging_proofs.                                  *)
EXTENDS Paging_proofs

-----------------------------------------------------------------------------
(* The kernel's half. *)

Mapped == \A s \in KernelSlots : pml4["user_pagemap"][s] = pml4["kernel_pagemap"][s]

(* The kernel's half is there from the start, the user's map has none of it or *)
(* the same.                                                                   *)
SlotsInv ==
    /\ pml4["kernel_pagemap"]["hhdm"] = 1 /\ pml4["kernel_pagemap"]["top"] = 2
    /\ \A s \in KernelSlots : pml4["user_pagemap"][s] \in {0, pml4["kernel_pagemap"][s]}

(* A walk that lacks a table is in the lower half. *)
TablesLow == \A t \in Tasks : \A i \in 1 .. Len(calls[t]) : calls[t][i].at = "table" => Low(calls[t][i].virt)

(* The loader is past map_kernel. *)
Past(f) == f.fn = "new_user_task" /\ f.at = "pages"
Copied(f) == f.fn = "map_kernel" /\ f.at = "unlock"

LoaderMapped ==
    \A t \in Tasks : \A i \in 1 .. Len(calls[t]) :
        /\ Past(calls[t][i]) /\ (i < Len(calls[t]) => calls[t][i + 1].fn # "map_kernel") => Mapped
        /\ Copied(calls[t][i]) => Mapped

MapsInv == SlotsInv /\ TablesLow /\ LoaderMapped /\ (life # "none" => Mapped)

(* What is mapped stays so. *)
Steady == SlotsInv' /\ (Mapped => Mapped')

LEMMA PmlStays ==
    ASSUME MapsInv, UNCHANGED pml4
    PROVE  Steady
BY DEF Mapped, SlotsInv, MapsInv, Steady

(* It is enough to look at the new calls, and at the last old one, whose       *)
(* callee may be another.                                                      *)
LEMMA MapsStep ==
    ASSUME ShapeInv, MapsInv, NEW k, NEW m, Kept(k, m), Steady,
           \A i \in (k + 1) .. m : calls'[cur][i].at = "table" => Low(calls'[cur][i].virt),
           \A i \in (k + 1) .. m : Copied(calls'[cur][i]) => Mapped',
           \A i \in (k + 1) .. m :
             Past(calls'[cur][i]) /\ (i < m => calls'[cur][i + 1].fn # "map_kernel") => Mapped',
           k >= 1 /\ Past(calls[cur][k]) /\ (k < m => calls'[cur][k + 1].fn # "map_kernel") => Mapped',
           life' # "none" => Mapped'
    PROVE  MapsInv'
<1> USE DEF MapsInv
<1>1. Depth \in Nat /\ Depth = Len(calls[cur]) /\ k \in 0 .. Depth /\ m \in Nat /\ k <= m
      /\ Len(calls'[cur]) = m
  BY DepthFacts DEF Kept, ShapeInv
<1>2. ASSUME NEW t \in Tasks, NEW i \in 1 .. Len(calls'[t])
      PROVE  /\ calls'[t][i].at = "table" => Low(calls'[t][i].virt)
             /\ Past(calls'[t][i]) /\ (i < Len(calls'[t]) => calls'[t][i + 1].fn # "map_kernel") => Mapped'
             /\ Copied(calls'[t][i]) => Mapped'
  <2>1. CASE t # cur
    <3>1. calls'[t] = calls[t]
      BY <2>1 DEF Kept
    <3> QED BY <1>2, <3>1 DEF TablesLow, LoaderMapped, Steady
  <2>2. CASE t = cur /\ i \in (k + 1) .. m
    BY <1>1, <2>2
  <2>3. CASE t = cur /\ i \in 1 .. k
    <3>1. calls'[t][i] = calls[t][i] /\ i \in 1 .. Len(calls[t])
      BY <1>1, <2>3 DEF Kept
    <3>2. (calls'[t][i].at = "table" => Low(calls'[t][i].virt)) /\ (Copied(calls'[t][i]) => Mapped')
      BY <3>1 DEF TablesLow, LoaderMapped, Steady
    <3>3. CASE i = k
      BY <1>1, <2>3, <3>1, <3>2, <3>3
    <3>4. CASE i # k
      <4>1. i + 1 \in 1 .. k /\ i < Len(calls[t]) /\ i < Len(calls'[t])
        BY <1>1, <2>3, <3>4
      <4>2. calls'[t][i + 1] = calls[t][i + 1]
        BY <2>3, <4>1 DEF Kept
      <4> QED BY <3>1, <3>2, <4>1, <4>2 DEF LoaderMapped, Steady
    <3> QED BY <3>3, <3>4
  <2>4. i \in 1 .. k \/ i \in (k + 1) .. m \/ t # cur
    BY <1>1, <1>2
  <2> QED BY <2>1, <2>2, <2>3, <2>4
<1>4. TablesLow'
  BY <1>2 DEF TablesLow
<1>5. LoaderMapped'
  <2> SUFFICES ASSUME NEW t \in Tasks, NEW i \in 1 .. Len(calls'[t])
               PROVE  /\ Past(calls'[t][i]) /\ (i < Len(calls'[t]) => calls'[t][i + 1].fn # "map_kernel") => Mapped'
                      /\ Copied(calls'[t][i]) => Mapped'
    BY DEF LoaderMapped, Past, Copied
  <2> QED BY <1>2
<1> QED BY <1>4, <1>5 DEF Steady

LEMMA MapsMoves ==
    ASSUME ShapeInv, MapsInv, Steady, Depth >= 1, Kept(Depth - 1, Depth),
           calls'[cur][Depth].fn = Top.fn, Top.fn # "new_user_task",
           calls'[cur][Depth].at # "table", Copied(calls'[cur][Depth]) => Mapped', life' # "none" => Mapped'
    PROVE  MapsInv'
<1> DEFINE k == Depth - 1
           d == Depth
<1>1. d \in Nat /\ d = Len(calls[cur]) /\ d >= 1 /\ Top = calls[cur][d] /\ cur \in Tasks /\ d = Depth
  BY DepthFacts DEF ShapeInv
<1>2. k + 1 = d /\ k < d /\ k \in 0 .. d /\ (\A i \in (k + 1) .. d : i = d) /\ (k >= 1 => k \in 1 .. d)
      /\ Kept(k, d)
  BY <1>1
<1> HIDE DEF k, d
<1>3. k >= 1 /\ Past(calls[cur][k]) /\ calls'[cur][d].fn # "map_kernel" => Mapped
  BY <1>1, <1>2 DEF MapsInv, LoaderMapped
<1>4. ~ Past(calls'[cur][d])
  BY <1>1 DEF Past
<1> QED BY <1>1, <1>2, <1>3, <1>4, MapsStep DEF Steady

LEMMA MapsCalls ==
    ASSUME ShapeInv, MapsInv, Steady, Depth >= 1, Kept(Depth - 1, Depth + 1),
           calls'[cur][Depth].fn = Top.fn, Top.fn # "map_kernel",
           calls'[cur][Depth].at = "table" => Low(calls'[cur][Depth].virt),
           calls'[cur][Depth + 1].at = "lock", calls'[cur][Depth + 1].fn # "new_user_task",
           Past(calls'[cur][Depth]) /\ calls'[cur][Depth + 1].fn # "map_kernel" => Mapped,
           life' # "none" => Mapped'
    PROVE  MapsInv'
<1> DEFINE k == Depth - 1
           d == Depth
           m == Depth + 1
<1>1. d \in Nat /\ d = Len(calls[cur]) /\ d >= 1 /\ Top = calls[cur][d] /\ cur \in Tasks /\ d = Depth
  BY DepthFacts DEF ShapeInv
<1>2. k + 1 = d /\ k < d /\ k < m /\ d < m /\ d + 1 = m /\ k \in 0 .. d /\ (\A i \in (k + 1) .. m : i = d \/ i = m)
      /\ (k >= 1 => k \in 1 .. d) /\ Kept(k, m) /\ m = Depth + 1
  BY <1>1
<1> HIDE DEF k, d, m
<1>3. k >= 1 /\ Past(calls[cur][k]) => Mapped
  BY <1>1, <1>2 DEF MapsInv, LoaderMapped
<1>4. ~ Past(calls'[cur][m]) /\ ~ Copied(calls'[cur][m]) /\ calls'[cur][m].at # "table"
      /\ ~ Copied(calls'[cur][d])
  BY <1>1, <1>2 DEF Past, Copied
<1> QED BY <1>1, <1>2, <1>3, <1>4, MapsStep DEF Steady

LEMMA MapsReturns ==
    ASSUME ShapeInv, MapsInv, Steady, Depth >= 1, Kept(Depth - 1, Depth - 1),
           Top.fn = "map_kernel" => Mapped, life' # "none" => Mapped'
    PROVE  MapsInv'
<1> DEFINE k == Depth - 1
           d == Depth
<1>1. d \in Nat /\ d = Len(calls[cur]) /\ d >= 1 /\ Top = calls[cur][d] /\ cur \in Tasks /\ d = Depth
  BY DepthFacts DEF ShapeInv
<1>2. k + 1 = d /\ k < d /\ ~ (k < k) /\ k \in 0 .. d /\ (\A i \in (k + 1) .. k : FALSE)
      /\ (k >= 1 => k \in 1 .. d) /\ Kept(k, k)
  BY <1>1
<1> HIDE DEF k, d
<1>3. k >= 1 /\ Past(calls[cur][k]) => Mapped
  BY <1>1, <1>2 DEF MapsInv, LoaderMapped
<1> QED BY <1>1, <1>2, <1>3, MapsStep DEF Steady

LEMMA MapsStarts ==
    ASSUME ShapeInv, MapsInv, Steady, Depth = 0, NEW m, Kept(0, m),
           \A i \in 1 .. m : calls'[cur][i].at # "table" /\ ~ Copied(calls'[cur][i]) /\ ~ Past(calls'[cur][i]),
           life' # "none" => Mapped'
    PROVE  MapsInv'
<1>1. 0 + 1 = 1 /\ ~ (0 >= 1)
  OBVIOUS
<1> QED BY <1>1, MapsStep DEF Steady

LEMMA MapsStutters ==
    ASSUME ShapeInv, MapsInv, UNCHANGED <<pml4, calls>>, life' # "none" => Mapped
    PROVE  MapsInv'
<1>1. SlotsInv' /\ (Mapped => Mapped')
  BY PmlStays DEF Steady
<1>3. TablesLow'
  BY DEF TablesLow, MapsInv
<1>4. LoaderMapped'
  BY <1>1 DEF LoaderMapped, MapsInv, Past, Copied
<1> QED BY <1>1, <1>3, <1>4 DEF MapsInv

(* The user task's life never makes the kernel's half go. *)
LEMMA MappedLives ==
    ASSUME MapsInv, LifeGoesOn, Steady
    PROVE  life' # "none" => Mapped'
BY DEF MapsInv, LifeGoesOn, Steady

LEMMA unlockMaps ==
    ASSUME ShapeInv, MapsInv, unlock
    PROVE  MapsInv'
<1> DEFINE d == Depth
           g == calls'[cur][Depth]
<1>1. UNCHANGED <<pml4, life>> /\ cur \in Tasks /\ Depth \in Nat /\ Depth = Len(calls[cur])
      /\ (calls[cur] # << >> => Top = calls[cur][Depth]) /\ calls[cur] # << >>
  BY DepthFacts DEF unlock, memory, ShapeInv, Busy
<1>2. Steady /\ (life' # "none" => Mapped')
  BY <1>1, PmlStays, MappedLives DEF LifeGoesOn
<1>3. Depth >= 1 /\ Top.at \in {"unlock", "unlock_failed"}
  BY unlockEffect DEF ShapeInv
<1>4. CASE /\ Top.fn = "alloc_pages" /\ Depth >= 2 /\ Kept(Depth - 2, Depth - 1)
           /\ Same(calls[cur][Depth - 1], calls'[cur][Depth - 1])
           /\ calls'[cur][Depth - 1].at = calls[cur][Depth - 1].at
           /\ CallOk(calls[cur][Depth - 1], Top)
  <2> DEFINE k == Depth - 2
             m == Depth - 1
  <2>1. /\ k + 1 = m /\ k \in 0 .. d /\ m \in 1 .. Len(calls[cur]) /\ k < m /\ (\A i \in (k + 1) .. m : i = m)
        /\ (k >= 1 => k \in 1 .. Len(calls[cur]) /\ k < Len(calls[cur])) /\ m + 1 = d /\ m < Len(calls[cur])
        /\ Kept(k, m) /\ ~ (m < m) /\ d = Depth
    BY <1>1, <1>4
  <2>2. Same(calls[cur][m], calls'[cur][m]) /\ calls'[cur][m].at = calls[cur][m].at
        /\ CallOk(calls[cur][m], Top) /\ Top = calls[cur][d]
    BY <1>1, <1>4
  <2> HIDE DEF k, m, d
  <2>3. calls'[cur][m].at = "table" => Low(calls'[cur][m].virt)
    BY <1>1, <2>1, <2>2 DEF MapsInv, TablesLow, Same
  <2>4. ~ Copied(calls'[cur][m])
    BY <1>4, <2>2 DEF Copied, Same, CallOk
  <2>5. Past(calls'[cur][m]) => Mapped
    BY <1>1, <1>4, <2>1, <2>2 DEF MapsInv, LoaderMapped, Past, Same
  <2>6. k >= 1 /\ Past(calls[cur][k]) /\ calls'[cur][m].fn # "map_kernel" => Mapped
    BY <1>1, <2>1, <2>2 DEF MapsInv, LoaderMapped, Same
  <2> QED BY <1>2, <2>1, <2>3, <2>4, <2>5, <2>6, MapsStep DEF Steady
<1>5. CASE /\ Top.fn = "handle_page_fault" /\ Kept(Depth - 1, Depth)
           /\ Same(Top, g) /\ g.at = IF Top.at = "unlock" THEN "iret" ELSE "exception"
  <2>1. g.fn = Top.fn /\ g.at # "table" /\ ~ Copied(g)
    BY <1>5 DEF Same, Copied
  <2> QED BY <1>2, <1>3, <1>5, <2>1, MapsMoves
<1>6. CASE Top.fn \notin {"alloc_pages", "handle_page_fault"} /\ Kept(Depth - 1, Depth - 1)
  <2>0. FrameOk(Top)
    BY <1>1, TopOk DEF ShapeInv
  <2>1. Top.fn = "map_kernel" => Copied(Top)
    BY <1>3, <2>0 DEF Copied, FrameOk
  <2>2. Depth \in 1 .. Len(calls[cur])
    BY <1>1, <1>3
  <2>3. Top.fn = "map_kernel" => Mapped
    BY <1>1, <2>1, <2>2 DEF MapsInv, LoaderMapped
  <2> QED BY <1>2, <1>3, <1>6, <2>3, MapsReturns
<1> QED BY <1>4, <1>5, <1>6, unlockEffect DEF ShapeInv

LEMMA TopFrame ==
    ASSUME ShapeInv, calls[cur] # << >>
    PROVE  Depth \in 1 .. Len(calls[cur]) /\ Top = calls[cur][Depth] /\ cur \in Tasks /\ FrameOk(Top)
           /\ Depth = Len(calls[cur]) /\ Depth \in Nat /\ Depth >= 1
<1>1. Depth \in Nat /\ Depth = Len(calls[cur]) /\ cur \in Tasks /\ Depth >= 1 /\ Top = calls[cur][Depth]
  BY DepthFacts DEF ShapeInv
<1>2. FrameOk(Top)
  BY TopOk DEF ShapeInv
<1> QED BY <1>1, <1>2

(* A fault of the program itself. *)
LEMMA UserFault ==
    ASSUME ShapeInv, calls[cur] # << >>, Top.fn = "handle_page_fault", Top.lock = "user_pagemap"
    PROVE  life # "none" /\ Top.user_mode
<1>1. /\ FrameOk(Top) /\ (Depth = 1 => BottomOk(cur, Top, life))
      /\ (Depth > 1 => CallOk(calls[cur][Depth - 1], Top))
  BY TopOk DEF ShapeInv
<1>2. Top.user_mode
  BY <1>1 DEF FrameOk
<1>3. Depth = 1 \/ Depth > 1
  BY TopFrame
<1>4. Depth = 1
  BY <1>1, <1>2, <1>3 DEF CallOk
<1> QED BY <1>1, <1>2, <1>4 DEF BottomOk

(* A fault on the kernel's half always finds its table. *)
LEMMA WalkIsLow ==
    ASSUME ShapeInv, MapsInv, page_table_next_level
    PROVE  Low(Top.virt) /\ calls[cur] # << >>
<1>1. /\ calls[cur] # << >> /\ Top.fn \in {"handle_page_fault", "map_page"}
      /\ pml4[Top.lock][slot(Top.virt)] = 0
  BY DEF page_table_next_level, Walks, Busy
<1>2. FrameOk(Top)
  BY <1>1, TopOk DEF ShapeInv
<1>3. CASE Top.fn = "map_page"
  BY <1>1, <1>2, <1>3, ProgramBytesAreLow DEF FrameOk
<1>4. CASE Top.fn = "handle_page_fault" /\ ~ Low(Top.virt)
  <2>1. (Top.lock = "kernel_pagemap" /\ High(Top.virt)) \/ (Top.lock = "user_pagemap" /\ Top.virt \in KernelBytes)
    BY <1>2, <1>4 DEF FrameOk
  <2>2. slot(Top.virt) \in KernelSlots
    BY <2>1, HighFacts, KernelBytesAreHigh
  <2>3. Top.lock = "user_pagemap" => Mapped
    BY <1>1, <1>4, UserFault DEF MapsInv
  <2>4. pml4["kernel_pagemap"][slot(Top.virt)] # 0
    BY <2>2 DEF MapsInv, SlotsInv, KernelSlots
  <2> QED BY <1>1, <2>1, <2>2, <2>3, <2>4 DEF Mapped
<1> QED BY <1>1, <1>3, <1>4

LEMMA SetTableIsLow ==
    ASSUME ShapeInv, MapsInv, SetTable
    PROVE  /\ calls[cur] # << >> /\ Top.lock \in Maps /\ Low(Top.virt) /\ slot(Top.virt) = "low"
           /\ Top.fn \in {"handle_page_fault", "map_page"}
           /\ Top.got \in Nat /\ pml4' = [pml4 EXCEPT ![Top.lock]["low"] = Top.got]
           /\ \A m \in Maps, s \in KernelSlots : pml4'[m][s] = pml4[m][s]
<1>1. calls[cur] # << >> /\ Top.at = "table"
  BY DEF SetTable, Busy
<1>2. FrameOk(Top) /\ Top \in Frames
  BY <1>1, TopOk DEF ShapeInv
<1>3. Top.fn \in {"handle_page_fault", "map_page"}
  BY <1>1, <1>2, TableFrames
<1>4. Top.lock \in Maps
  BY <1>2, <1>3, WalkerLock
<1>5. Depth \in 1 .. Len(calls[cur]) /\ Top = calls[cur][Depth] /\ cur \in Tasks
  BY <1>1, DepthFacts DEF ShapeInv
<1>6. Low(Top.virt)
  BY <1>1, <1>5 DEF MapsInv, TablesLow
<1>7. slot(Top.virt) = "low"
  BY <1>6, LowFacts
<1>8. pml4' = [pml4 EXCEPT ![Top.lock]["low"] = Top.got]
  BY <1>7 DEF SetTable
<1>9. Top.got \in Nat
  BY <1>2, FrameTypes
<1>10. \A m \in Maps, s \in KernelSlots : pml4'[m][s] = pml4[m][s]
  BY <1>4, <1>8 DEF ShapeInv, TypeOK, Maps, Slots, KernelSlots
<1> QED BY <1>1, <1>3, <1>4, <1>6, <1>7, <1>8, <1>9, <1>10

LEMMA KernelSlotsStay ==
    ASSUME MapsInv, \A m \in Maps, s \in KernelSlots : pml4'[m][s] = pml4[m][s]
    PROVE  Steady
<1>1. \A s \in KernelSlots : pml4'["user_pagemap"][s] = pml4["user_pagemap"][s]
                             /\ pml4'["kernel_pagemap"][s] = pml4["kernel_pagemap"][s]
  BY DEF Maps
<1>2. Mapped => Mapped'
  BY <1>1 DEF Mapped
<1>3. "hhdm" \in KernelSlots /\ "top" \in KernelSlots
  BY DEF KernelSlots
<1>4. SlotsInv'
  BY <1>1, <1>3 DEF SlotsInv, MapsInv
<1> QED BY <1>2, <1>4 DEF Steady

LEMMA KernelIsMapped ==
    ASSUME ShapeInv, MapsInv, MapKernel
    PROVE  Steady /\ Mapped'
<1>1. Mapped' /\ pml4'["kernel_pagemap"] = pml4["kernel_pagemap"]
  BY MapKernelTypes DEF Mapped, ShapeInv
<1>2. SlotsInv'
  BY <1>1 DEF SlotsInv, MapsInv, Mapped
<1> QED BY <1>1, <1>2 DEF Steady

LEMMA MapsNext ==
    ASSUME ShapeInv, MapsInv, [Next]_vars
    PROVE  MapsInv'
<1> DEFINE g == calls'[cur][Depth]
           h == calls'[cur][Depth + 1]
<1>0. ASSUME UNCHANGED <<pml4, life>> PROVE Steady /\ (life' # "none" => Mapped')
  BY <1>0, PmlStays, MappedLives DEF LifeGoesOn
<1>1. CASE lock
  <2>1. /\ Depth >= 1 /\ Kept(Depth - 1, Depth) /\ Top.at = "lock" /\ Same(Top, g) /\ g.at = "body"
        /\ UNCHANGED <<pml4, life>> /\ calls[cur] # << >>
    BY <1>1, lockEffect DEF ShapeInv, lock, memory, lockable, Busy
  <2>2. FrameOk(Top)
    BY <2>1, TopOk DEF ShapeInv
  <2>3. g.fn = Top.fn /\ Top.fn # "new_user_task" /\ g.at # "table" /\ ~ Copied(g)
    BY <2>1, <2>2 DEF Same, Copied, FrameOk
  <2> QED BY <1>0, <2>1, <2>3, MapsMoves
<1>2. CASE SpinTooMuch \/ \E t \in Tasks : Tick(t)
  <2>1. UNCHANGED <<pml4, calls, life>>
    BY <1>2 DEF SpinTooMuch, Tick, memory
  <2> QED BY <2>1, MapsStutters DEF MapsInv
<1>3. CASE unlock
  BY <1>3, unlockMaps
<1>5. CASE KernelTouch
  <2>1. UNCHANGED <<pml4, life>> /\ Depth >= 1 /\ Top.fn \in {"heap", "printf", "access"}
    BY <1>5, KernelTouchEffect DEF KernelTouch, memory, ShapeInv
  <2>2. CASE Kept(Depth - 1, Depth - 1)
    BY <1>0, <2>1, <2>2, MapsReturns
  <2>3. CASE Kept(Depth - 1, Depth) /\ Same(Top, g) /\ g.at = "unlock"
    <3>1. g.fn = Top.fn /\ Top.fn # "new_user_task" /\ g.at # "table" /\ ~ Copied(g)
      BY <2>1, <2>3 DEF Same, Copied
    <3> QED BY <1>0, <2>1, <2>3, <3>1, MapsMoves
  <2>4. CASE Kept(Depth, Depth + 1) /\ h = Fault("kernel_pagemap", Top.virt, FALSE)
    <3> DEFINE d == Depth
               m == Depth + 1
    <3>1. d \in Nat /\ d < m /\ (\A i \in (d + 1) .. m : i = m) /\ Top = calls[cur][d] /\ d + 1 = m
          /\ Kept(d, m)
      BY <2>1, <2>4, DepthFacts DEF ShapeInv
    <3> DEFINE fault == Fault("kernel_pagemap", Top.virt, FALSE)
    <3>5. fault.fn = "handle_page_fault" /\ fault.at = "lock"
      BY KernelFault
    <3>6. h = fault
      BY <2>4
    <3> HIDE DEF fault
    <3>2. h.fn = "handle_page_fault" /\ h.at = "lock"
      BY <3>5, <3>6
    <3>3. calls'[cur][m].fn = "handle_page_fault" /\ calls'[cur][m].at = "lock"
      BY <3>2
    <3> HIDE DEF d, m
    <3>4. ~ Past(calls[cur][d]) /\ ~ Past(calls'[cur][m]) /\ ~ Copied(calls'[cur][m])
      BY <2>1, <3>1, <3>3 DEF Past, Copied
    <3> QED BY <1>0, <2>1, <3>1, <3>3, <3>4, MapsStep
  <2> QED BY <1>5, <2>2, <2>3, <2>4, KernelTouchEffect DEF ShapeInv
<1>6. CASE TakePage
  <2>1. /\ Depth >= 1 /\ Kept(Depth - 1, Depth) /\ Top.fn = "alloc_pages" /\ Same(Top, g)
        /\ g.at = "unlock" /\ UNCHANGED <<pml4, life>>
    BY <1>6, TakePageEffect DEF ShapeInv, TakePage
  <2>2. g.fn = Top.fn /\ g.at # "table" /\ ~ Copied(g)
    BY <2>1 DEF Same, Copied
  <2> QED BY <1>0, <2>1, <2>2, MapsMoves
<1>7. CASE page_table_next_level
  <2>1. Depth >= 1 /\ Kept(Depth - 1, Depth + 1) /\ Top.fn \in {"handle_page_fault", "map_page"}
        /\ Same(Top, g) /\ h = alloc_pages /\ UNCHANGED <<pml4, life>>
    BY <1>7, NextLevelEffect DEF ShapeInv, page_table_next_level, memory
  <2>2. Low(g.virt)
    BY <1>7, <2>1, WalkIsLow DEF Same
  <2>3. /\ g.fn = Top.fn /\ Top.fn # "map_kernel" /\ h.at = "lock" /\ h.fn # "new_user_task"
        /\ ~ Past(g)
    BY <2>1, NewFrames DEF Same, Past
  <2> QED BY <1>0, <2>1, <2>2, <2>3, MapsCalls
<1>8. CASE SetTable
  <2>1. /\ Depth >= 1 /\ Kept(Depth - 1, Depth) /\ Same(Top, g) /\ g.at = "body"
        /\ UNCHANGED life
    BY <1>8, SetTableEffect DEF ShapeInv, SetTable
  <2>2. Steady /\ Top.fn # "new_user_task"
    BY <1>8, SetTableIsLow, KernelSlotsStay
  <2>3. life' # "none" => Mapped'
    BY <2>1, <2>2, MappedLives DEF LifeGoesOn
  <2>4. g.fn = Top.fn /\ g.at # "table" /\ ~ Copied(g)
    BY <2>1 DEF Same, Copied
  <2> QED BY <2>1, <2>2, <2>3, <2>4, MapsMoves
<1>9. CASE MapPage \/ FaultFails \/ FaultFills
  <2>1. Depth >= 1 /\ Kept(Depth - 1, Depth) /\ Top.fn \in {"map_page", "handle_page_fault"}
        /\ Same(Top, g) /\ g.at \in {"unlock", "unlock_failed"} /\ UNCHANGED <<pml4, life>>
    BY <1>9, MapPageEffect, FaultFailsEffect, FaultFillsEffect
    DEF ShapeInv, MapPage, FaultFails, FaultFills, memory
  <2>2. g.fn = Top.fn /\ Top.fn # "new_user_task" /\ g.at # "table" /\ ~ Copied(g)
    BY <2>1 DEF Same, Copied
  <2> QED BY <1>0, <2>1, <2>2, MapsMoves
<1>10. CASE MapKernel
  <2>1. /\ Depth >= 1 /\ Kept(Depth - 1, Depth) /\ Top.fn = "map_kernel" /\ Same(Top, g)
        /\ g.at = "unlock"
    BY <1>10, MapKernelEffect DEF ShapeInv
  <2>2. g.fn = Top.fn /\ Top.fn # "new_user_task" /\ g.at # "table"
    BY <2>1 DEF Same
  <2> QED BY <1>10, <2>1, <2>2, KernelIsMapped, MapsMoves
<1>12. CASE FaultServed
  <2>1. Depth >= 1 /\ Top.fn = "handle_page_fault" /\ UNCHANGED <<pml4, life>>
    BY <1>12, FaultServedEffect DEF ShapeInv, FaultServed
  <2>2. CASE Kept(Depth - 1, Depth + 1) /\ Same(Top, g) /\ g.at = "fill" /\ h = alloc_pages
    <3>1. /\ g.fn = Top.fn /\ g.at # "table" /\ h.at = "lock" /\ h.fn # "new_user_task" /\ ~ Past(g)
          /\ Top.fn # "map_kernel"
      BY <2>1, <2>2, NewFrames DEF Same, Past
    <3> QED BY <1>0, <2>1, <2>2, <3>1, MapsCalls
  <2>3. CASE Kept(Depth - 1, Depth) /\ Same(Top, g) /\ g.at = "unlock"
    <3>1. g.fn = Top.fn /\ Top.fn # "new_user_task" /\ g.at # "table" /\ ~ Copied(g)
      BY <2>1, <2>3 DEF Same, Copied
    <3> QED BY <1>0, <2>1, <2>3, <3>1, MapsMoves
  <2> QED BY <1>12, <2>2, <2>3, FaultServedEffect DEF ShapeInv
<1>14. CASE iret \/ MmapAdds
  <2>1. Depth >= 1 /\ Kept(Depth - 1, Depth - 1)
    BY <1>14, ReturnsEffect DEF ShapeInv
  <2>2. UNCHANGED <<pml4, life>> /\ Top.fn # "map_kernel"
    BY <1>14 DEF iret, MmapAdds, In, memory
  <2> QED BY <1>0, <2>1, <2>2, MapsReturns
<1>24. CASE Enqueue
  <2>1. /\ Depth = 1 /\ Kept(0, 0) /\ Top.fn = "new_user_task" /\ Top.at = "pages"
        /\ Top = calls[cur][1] /\ cur \in Tasks /\ Depth = Len(calls[cur])
    BY <1>24, EnqueueFacts, DepthFacts DEF ShapeInv
  <2>2. UNCHANGED pml4
    BY <1>24 DEF Enqueue
  <2>3. Past(calls[cur][1])
    BY <2>1 DEF Past
  <2>7. Len(calls[cur]) = 1
    BY <2>1
  <2>4. Mapped
    BY <2>1, <2>3, <2>7 DEF MapsInv, LoaderMapped
  <2>5. Steady /\ Mapped'
    BY <2>2, <2>4, PmlStays DEF Steady
  <2>6. (\A i \in (0 + 1) .. 0 : FALSE) /\ ~ (0 >= 1)
    OBVIOUS
  <2> QED BY <2>1, <2>5, <2>6, MapsStep
<1>15. CASE exception_handler
  <2>1. Depth >= 1 /\ Kept(Depth - 1, Depth + 1) /\ Top.fn = "handle_page_fault"
        /\ Same(Top, g) /\ g.at = "end" /\ h = printf(NoAddress) /\ UNCHANGED <<pml4, life>>
    BY <1>15, exception_handlerEffect DEF ShapeInv, exception_handler, memory
  <2>2. /\ g.fn = Top.fn /\ g.at # "table" /\ h.at = "lock" /\ h.fn # "new_user_task" /\ ~ Past(g)
        /\ Top.fn # "map_kernel"
    BY <2>1, NewFrames DEF Same, Past
  <2> QED BY <1>0, <2>1, <2>2, MapsCalls
<1>16. CASE ExceptionEnds
  <2>1. UNCHANGED <<pml4, calls>> /\ calls[cur] # << >> /\ Top.fn = "handle_page_fault"
        /\ (life' = life \/ (Top.user_mode /\ life' = "dead"))
    BY <1>16 DEF ExceptionEnds, In, memory, Busy
  <2>2. CASE life' = life
    BY <2>1, <2>2, MapsStutters DEF MapsInv
  <2>3. CASE Top.user_mode /\ life' = "dead"
    <3>1. Depth = 1 \/ Depth > 1
      BY <2>1, DepthFacts DEF ShapeInv
    <3>2. FrameOk(Top) /\ (Depth = 1 => BottomOk(cur, Top, life))
          /\ (Depth > 1 => CallOk(calls[cur][Depth - 1], Top))
      BY <2>1, TopOk DEF ShapeInv
    <3>3. Depth = 1
      BY <2>1, <2>3, <3>1, <3>2 DEF CallOk
    <3>4. life # "none"
      BY <2>1, <3>2, <3>3 DEF BottomOk
    <3> QED BY <2>1, <3>4, MapsStutters DEF MapsInv
  <2> QED BY <2>1, <2>2, <2>3
<1>17. CASE Begins
  <2>1. /\ Depth = 0 /\ Kept(0, 1) /\ calls'[cur][1].fn \in {"heap", "printf", "access"}
        /\ FrameOk(calls'[cur][1]) /\ UNCHANGED <<pml4, life>>
    BY <1>17, BeginsEffect DEF ShapeInv, memory
  <2>2. \A i \in 1 .. 1 : i = 1
    OBVIOUS
  <2>3. calls'[cur][1].at # "table" /\ ~ Copied(calls'[cur][1]) /\ ~ Past(calls'[cur][1])
    BY <2>1 DEF Copied, Past, FrameOk
  <2> QED BY <1>0, <2>1, <2>2, <2>3, MapsStarts
<1>18. CASE \E virt \in UserBytes \cup KernelBytes, write \in BOOLEAN : UserTouch(virt, write)
  <2>1. PICK virt \in UserBytes \cup KernelBytes, write \in BOOLEAN : UserTouch(virt, write)
    BY <1>18
  <2>2. Depth = 0 /\ Kept(0, 1) /\ calls'[cur][1].at = "lock"
    BY <2>1, UserTouchEffect DEF ShapeInv
  <2>3. UNCHANGED <<pml4, life>>
    BY <2>1 DEF UserTouch, memory
  <2>4. \A i \in 1 .. 1 : i = 1
    OBVIOUS
  <2>5. calls'[cur][1].at # "table" /\ ~ Copied(calls'[cur][1]) /\ ~ Past(calls'[cur][1])
    BY <2>2 DEF Copied, Past
  <2> QED BY <1>0, <2>2, <2>3, <2>4, <2>5, MapsStarts
<1>19. CASE (\E length \in MmapLengths, w \in BOOLEAN : mmap(length, w)) \/ NewUserTask
  <2>1. Depth = 0 /\ Kept(0, 2) /\ calls'[cur][1].at \in {"add", "pml4"} /\ calls'[cur][2].at = "lock"
    BY <1>19, mmapEffect, NewUserTaskEffect DEF ShapeInv
  <2>2. UNCHANGED <<pml4, life>>
    BY <1>19 DEF mmap, NewUserTask, memory
  <2>3. \A i \in 1 .. 2 : i = 1 \/ i = 2
    OBVIOUS
  <2>4. \A i \in 1 .. 2 :
          calls'[cur][i].at # "table" /\ ~ Copied(calls'[cur][i]) /\ ~ Past(calls'[cur][i])
    BY <2>1, <2>3 DEF Copied, Past
  <2> QED BY <1>0, <2>1, <2>2, <2>4, MapsStarts
<1>22. CASE NewPml4
  <2>1. /\ Depth >= 1 /\ Kept(Depth - 1, Depth + 1) /\ Top.fn = "new_user_task" /\ Top.at = "pml4"
        /\ \/ g = Top /\ h = alloc_pages
           \/ Same(Top, g) /\ g.at = "pages" /\ h = map_kernel
        /\ UNCHANGED <<pml4, life>>
    BY <1>22, NewPml4Effect DEF ShapeInv, NewPml4, memory
  <2>2. /\ g.fn = Top.fn /\ g.at # "table" /\ h.at = "lock" /\ h.fn # "new_user_task"
        /\ Top.fn # "map_kernel"
        /\ ~ (Past(g) /\ h.fn # "map_kernel")
    BY <2>1, NewFrames DEF Same, Past
  <2> QED BY <1>0, <2>1, <2>2, MapsCalls
<1>23. CASE LoadPage
  <2>1. /\ Depth >= 1 /\ Kept(Depth - 1, Depth + 1) /\ Top.fn = "new_user_task" /\ Top.at = "pages"
        /\ (h = alloc_pages \/ (h.at = "lock" /\ h.fn = "map_page"))
        /\ g.fn = Top.fn /\ g.at = Top.at /\ UNCHANGED <<pml4, life>>
    BY <1>23, LoadPageEffect DEF ShapeInv, LoadPage, memory
  <2>2. /\ g.at # "table" /\ h.at = "lock" /\ h.fn # "new_user_task" /\ Top.fn # "map_kernel"
    BY <2>1, NewFrames
  <2>3. Past(Top) /\ Depth \in 1 .. Len(calls[cur]) /\ ~ (Depth < Len(calls[cur])) /\ cur \in Tasks
        /\ Top = calls[cur][Depth]
    BY <2>1, DepthFacts DEF Past, ShapeInv
  <2>4. Mapped
    BY <2>3 DEF MapsInv, LoaderMapped
  <2> QED BY <1>0, <2>1, <2>2, <2>4, MapsCalls
<1>25. CASE UNCHANGED vars
  <2>1. UNCHANGED <<pml4, calls, life>>
    BY <1>25 DEF vars
  <2> QED BY <2>1, MapsStutters DEF MapsInv
<1> QED
  BY <1>1, <1>2, <1>3, <1>5, <1>6, <1>7, <1>8, <1>9, <1>10, <1>12, <1>14,
     <1>15, <1>16, <1>17, <1>18, <1>19, <1>22, <1>23, <1>24, <1>25 DEF Next, Begins

LEMMA MapsInit ==
    ASSUME Init
    PROVE  MapsInv
<1>1. SlotsInv
  BY DEF Init, SlotsInv, Maps, Slots, KernelSlots
<1>2. ASSUME NEW t \in Tasks, NEW i \in 1 .. Len(calls[t])
      PROVE  calls[t][i].at # "table" /\ ~ Copied(calls[t][i]) /\ ~ Past(calls[t][i])
  <2>1. CASE t \in {kernel_thread, user}
    <3>1. calls[t] = << >>
      BY <2>1 DEF Init
    <3> QED BY <1>2, <3>1
  <2>2. CASE t \notin {kernel_thread, user}
    <3>1. calls[t] = <<printf(NoAddress)>>
      BY <2>2 DEF Init
    <3>2. calls[t][i] = printf(NoAddress)
      BY <1>2, <3>1
    <3> QED BY <3>2, NewFrames DEF Copied, Past
  <2> QED BY <2>1, <2>2
<1>3. life = "none"
  BY DEF Init
<1> QED BY <1>1, <1>2, <1>3 DEF MapsInv, TablesLow, LoaderMapped

(* KernelVisible for any tasks and sizes: from the moment it is queued, the    *)
(* user task's map shows the whole kernel.                                     *)
THEOREM KernelIsVisible == Spec => []KernelVisible
<1>1. Init => ShapeInv /\ MapsInv
  BY ShapeInit, MapsInit
<1>2. ShapeInv /\ MapsInv /\ [Next]_vars => ShapeInv' /\ MapsInv'
  BY ShapeStep, MapsNext
<1>3. MapsInv => KernelVisible
  BY DEF MapsInv, KernelVisible, Mapped
<1> QED BY <1>1, <1>2, <1>3, PTL DEF Spec

-----------------------------------------------------------------------------
(* The faults on the kernel's half. *)

(* Such a fault of the kernel is on its way from the touch to the walk. *)
HighFault(f) ==
    f.fn = "handle_page_fault" /\ ~ f.user_mode /\ High(f.virt) /\ f.at \in {"lock", "body"}

(* The interrupt flag is clear on that way, so what was not present when the   *)
(* processor looked is not present when the handler does.                      *)
FaultInv ==
    \A t \in Tasks : \A i \in 1 .. Len(calls[t]) :
        HighFault(calls[t][i]) =>
            t = cur /\ i = Len(calls[t]) /\ ~ intr /\ ~ Present("kernel_pagemap", calls[t][i].virt)

(* A fault of the kernel that was not served is on the lower half. *)
Failed(f) ==
    f.fn = "handle_page_fault" /\ ~ f.user_mode /\ f.at \in {"unlock_failed", "exception", "end"}

FailInv == \A t \in Tasks : \A i \in 1 .. Len(calls[t]) : Failed(calls[t][i]) => Low(calls[t][i].virt)

Stopped == status = "cannot recover"

StoppedInv == Stopped => calls[cur] # << >> /\ Low(Top.virt)

ServedInv == FaultInv /\ FailInv /\ StoppedInv

Absent(virt) == ~ Present("kernel_pagemap", virt)

LEMMA ServedStep ==
    ASSUME ShapeInv, ServedInv, NEW k, NEW m, Kept(k, m), UNCHANGED cur, ~ Stopped',
           k = Depth /\ Depth >= 1 => ~ HighFault(Top),
           \A i \in (k + 1) .. m :
             HighFault(calls'[cur][i]) => i = m /\ ~ intr' /\ UNCHANGED <<pml4, pte>> /\ Absent(calls'[cur][i].virt),
           \A i \in (k + 1) .. m : Failed(calls'[cur][i]) => Low(calls'[cur][i].virt)
    PROVE  ServedInv'
<1>1. /\ Depth \in Nat /\ Depth = Len(calls[cur]) /\ k \in 0 .. Depth /\ m \in Nat /\ k <= m
      /\ Len(calls'[cur]) = m /\ (Depth >= 1 => Top = calls[cur][Depth]) /\ cur \in Tasks
  BY DepthFacts DEF Kept, ShapeInv
<1>2. ASSUME NEW t \in Tasks, NEW i \in 1 .. Len(calls'[t])
      PROVE  /\ HighFault(calls'[t][i]) =>
                  t = cur' /\ i = Len(calls'[t]) /\ ~ intr' /\ UNCHANGED <<pml4, pte>>
                  /\ Absent(calls'[t][i].virt)
             /\ Failed(calls'[t][i]) => Low(calls'[t][i].virt)
  <2>1. CASE t # cur
    <3>1. calls'[t] = calls[t] /\ i \in 1 .. Len(calls[t])
      BY <1>2, <2>1 DEF Kept
    <3>2. ~ HighFault(calls[t][i]) /\ (Failed(calls[t][i]) => Low(calls[t][i].virt))
      BY <2>1, <3>1 DEF ServedInv, FaultInv, FailInv
    <3> QED BY <3>1, <3>2
  <2>2. CASE t = cur /\ i \in (k + 1) .. m
    BY <1>1, <2>2
  <2>3. CASE t = cur /\ i \in 1 .. k
    <3>1. calls'[t][i] = calls[t][i] /\ i \in 1 .. Len(calls[t])
      BY <1>1, <2>3 DEF Kept
    <3>2. Failed(calls'[t][i]) => Low(calls'[t][i].virt)
      BY <3>1 DEF ServedInv, FailInv
    <3>3. HighFault(calls'[t][i]) => i = Len(calls[t])
      BY <3>1 DEF ServedInv, FaultInv
    <3>4. i = Len(calls[t]) => k = Depth /\ Depth >= 1 /\ calls[t][i] = Top
      BY <1>1, <2>3
    <3> QED BY <3>1, <3>2, <3>3, <3>4
  <2>4. i \in 1 .. k \/ i \in (k + 1) .. m \/ t # cur
    BY <1>1, <1>2
  <2> QED BY <2>1, <2>2, <2>3, <2>4
<1>3. FaultInv'
  BY <1>2 DEF FaultInv, HighFault, Absent, Present, Entry
<1>4. FailInv'
  BY <1>2 DEF FailInv, Failed
<1> QED BY <1>3, <1>4 DEF ServedInv, StoppedInv

LEMMA ServedMoves ==
    ASSUME ShapeInv, ServedInv, UNCHANGED cur, ~ Stopped', Depth >= 1,
           Kept(Depth - 1, Depth),
           HighFault(calls'[cur][Depth]) => ~ intr' /\ UNCHANGED <<pml4, pte>> /\ Absent(calls'[cur][Depth].virt),
           Failed(calls'[cur][Depth]) => Low(calls'[cur][Depth].virt)
    PROVE  ServedInv'
<1> DEFINE k == Depth - 1
           d == Depth
<1>1. d \in Nat /\ d >= 1 /\ Len(calls'[cur]) = d
  BY DepthFacts DEF ShapeInv, Kept
<1>2. k # d /\ (\A i \in (k + 1) .. d : i = d) /\ Kept(k, d) /\ d = Depth
  BY <1>1
<1> HIDE DEF k, d
<1> QED BY <1>2, ServedStep

LEMMA ServedCalls ==
    ASSUME ShapeInv, ServedInv, UNCHANGED cur, ~ Stopped', Depth >= 1,
           Kept(Depth - 1, Depth + 1),
           ~ HighFault(calls'[cur][Depth]), ~ HighFault(calls'[cur][Depth + 1]),
           Failed(calls'[cur][Depth]) => Low(calls'[cur][Depth].virt), ~ Failed(calls'[cur][Depth + 1])
    PROVE  ServedInv'
<1> DEFINE k == Depth - 1
           d == Depth
           m == Depth + 1
<1>1. d \in Nat /\ d >= 1
  BY DepthFacts DEF ShapeInv
<1>2. k # d /\ (\A i \in (k + 1) .. m : i = d \/ i = m) /\ Kept(k, m) /\ d = Depth /\ m = Depth + 1
  BY <1>1
<1> HIDE DEF k, d, m
<1> QED BY <1>2, ServedStep

LEMMA ServedReturns ==
    ASSUME ShapeInv, ServedInv, UNCHANGED cur, ~ Stopped', Depth >= 1,
           Kept(Depth - 1, Depth - 1)
    PROVE  ServedInv'
<1> DEFINE k == Depth - 1
<1>1. Depth \in Nat
  BY DepthFacts DEF ShapeInv
<1>2. k # Depth /\ (\A i \in (k + 1) .. k : FALSE) /\ Kept(k, k)
  BY <1>1
<1> HIDE DEF k
<1> QED BY <1>2, ServedStep

LEMMA ServedStarts ==
    ASSUME ShapeInv, ServedInv, UNCHANGED cur, ~ Stopped', Depth = 0, NEW m, Kept(0, m),
           \A i \in 1 .. m : ~ HighFault(calls'[cur][i]) /\ ~ Failed(calls'[cur][i])
    PROVE  ServedInv'
<1>1. 0 + 1 = 1 /\ ~ (0 >= 1)
  OBVIOUS
<1> QED BY <1>1, ServedStep

(* A fault of the kernel on its own half: the user task's map shows what the   *)
(* kernel's shows.                                                             *)
LEMMA TouchIsAbsent ==
    ASSUME ShapeInv, MapsInv, calls[cur] # << >>, NEW virt, High(virt), ~ Present(pagemap(cur), virt)
    PROVE  Absent(virt)
<1>1. CASE cur # user
  BY <1>1 DEF pagemap, Absent
<1>2. CASE cur = user
  <2>1. user \in Tasks /\ 1 \in 1 .. Len(calls[user])
    BY <1>2, DepthFacts DEF ShapeInv
  <2>2. BottomOk(user, calls[user][1], life)
    BY <2>1 DEF ShapeInv, StackOk
  <2>3. Mapped
    BY <2>2 DEF BottomOk, MapsInv
  <2>4. Entry("user_pagemap", virt) = Entry("kernel_pagemap", virt)
    BY <2>3, HighFacts DEF Entry, Mapped
  <2> QED BY <1>2, <2>4 DEF pagemap, Absent, Present
<1> QED BY <1>1, <1>2

LEMMA Running ==
    ASSUME status = "ok", UNCHANGED status
    PROVE  ~ Stopped'
BY Zenon DEF Stopped

LEMMA lockServed ==
    ASSUME ShapeInv, ServedInv, lock
    PROVE  ServedInv'
<1> DEFINE g == calls'[cur][Depth]
<1>1. /\ Depth >= 1 /\ Kept(Depth - 1, Depth) /\ Top.at = "lock" /\ Same(Top, g) /\ g.at = "body"
      /\ calls[cur] # << >>
  BY lockEffect DEF ShapeInv, lock, lockable, Busy
<1>2. UNCHANGED <<pml4, pte, cur>> /\ ~ intr'
  BY DEF lock, memory
<1>3. ~ Stopped'
  BY Running DEF lock, lockable, Busy
<1>4. HighFault(g) => Absent(Top.virt)
  <2>1. HighFault(g) => HighFault(Top)
    BY <1>1 DEF HighFault, Same
  <2> QED BY <1>1, <2>1, TopFrame DEF ServedInv, FaultInv, Absent
<1>5. HighFault(g) => Absent(g.virt)
  BY <1>1, <1>4 DEF Same
<1>6. ~ Failed(g)
  BY <1>1 DEF Failed
<1> QED BY <1>1, <1>2, <1>3, <1>5, <1>6, ServedMoves

LEMMA SpinServed ==
    ASSUME ShapeInv, ServedInv, SpinTooMuch
    PROVE  ServedInv'
<1>1. UNCHANGED <<pml4, pte, cur, calls>> /\ ~ intr'
  BY DEF SpinTooMuch, memory
<1>2. ~ Stopped'
  BY Zenon DEF SpinTooMuch, Stopped
<1>3. FaultInv'
  BY <1>1 DEF ServedInv, FaultInv, HighFault, Present, Entry
<1>4. FailInv'
  BY <1>1 DEF ServedInv, FailInv, Failed
<1> QED BY <1>2, <1>3, <1>4 DEF ServedInv, StoppedInv

LEMMA TickServed ==
    ASSUME ShapeInv, ServedInv, NEW t \in Tasks, Tick(t)
    PROVE  ServedInv'
<1>1. UNCHANGED calls /\ intr
  BY DEF Tick
<1>2. ~ Stopped'
  BY Running DEF Tick
<1>3. FaultInv'
  BY <1>1 DEF ServedInv, FaultInv, HighFault
<1>4. FailInv'
  BY <1>1 DEF ServedInv, FailInv, Failed
<1> QED BY <1>2, <1>3, <1>4 DEF ServedInv, StoppedInv

LEMMA unlockServed ==
    ASSUME ShapeInv, ServedInv, unlock
    PROVE  ServedInv'
<1> DEFINE g == calls'[cur][Depth]
<1>1. calls[cur] # << >> /\ UNCHANGED cur
  BY DEF unlock, Busy
<1>2. ~ Stopped'
  BY Running DEF unlock, Busy
<1>3. Depth >= 1 /\ Top.at \in {"unlock", "unlock_failed"} /\ Depth \in Nat
  BY <1>1, unlockEffect, TopFrame DEF ShapeInv
<1>4. CASE /\ Top.fn = "alloc_pages" /\ Depth >= 2 /\ Kept(Depth - 2, Depth - 1)
           /\ Same(calls[cur][Depth - 1], calls'[cur][Depth - 1])
           /\ calls'[cur][Depth - 1].at = calls[cur][Depth - 1].at
           /\ CallOk(calls[cur][Depth - 1], Top)
  <2> DEFINE k == Depth - 2
             m == Depth - 1
  <2>1. (\A i \in (k + 1) .. m : i = m) /\ Kept(k, m) /\ k # Depth
    BY <1>3, <1>4
  <2>2. ~ HighFault(calls'[cur][m]) /\ ~ Failed(calls'[cur][m])
    BY <1>4 DEF HighFault, Failed, CallOk, Same
  <2> HIDE DEF k, m
  <2> QED BY <1>1, <1>2, <2>1, <2>2, ServedStep
<1>5. CASE /\ Top.fn = "handle_page_fault" /\ Kept(Depth - 1, Depth)
           /\ Same(Top, g) /\ g.at = IF Top.at = "unlock" THEN "iret" ELSE "exception"
  <2>1. ~ HighFault(g) /\ (Failed(g) => Failed(Top))
    BY <1>3, <1>5 DEF HighFault, Failed, Same
  <2>2. Failed(Top) => Low(Top.virt)
    BY <1>1, TopFrame DEF ServedInv, FailInv
  <2>3. Failed(g) => Low(g.virt)
    BY <1>5, <2>1, <2>2 DEF Same
  <2> QED BY <1>1, <1>2, <1>3, <1>5, <2>1, <2>3, ServedMoves
<1>6. CASE Kept(Depth - 1, Depth - 1)
  BY <1>1, <1>2, <1>3, <1>6, ServedReturns
<1> QED BY <1>4, <1>5, <1>6, unlockEffect DEF ShapeInv

LEMMA KernelTouchServed ==
    ASSUME ShapeInv, MapsInv, ServedInv, KernelTouch
    PROVE  ServedInv'
<1> DEFINE g == calls'[cur][Depth]
           d == Depth
           m == Depth + 1
<1>1. calls[cur] # << >> /\ UNCHANGED <<pml4, pte, cur>> /\ Depth >= 1
      /\ Top.fn \in {"heap", "printf", "access"} /\ Depth \in Nat
  BY TopFrame DEF KernelTouch, Busy, memory
<1>2. ~ Stopped'
  BY Running DEF KernelTouch, Busy
<1>3. CASE Kept(Depth - 1, Depth - 1)
  BY <1>1, <1>2, <1>3, ServedReturns
<1>4. CASE Kept(Depth - 1, Depth) /\ Same(Top, g) /\ g.at = "unlock"
  <2>1. ~ HighFault(g) /\ ~ Failed(g)
    BY <1>4 DEF HighFault, Failed
  <2> QED BY <1>1, <1>2, <1>4, <2>1, ServedMoves
<1>5. CASE /\ ~ Present(pagemap(cur), Top.virt) /\ Kept(Depth, Depth + 1) /\ intr' = FALSE
           /\ calls'[cur][Depth + 1] = Fault("kernel_pagemap", Top.virt, FALSE)
  <2> DEFINE fault == Fault("kernel_pagemap", Top.virt, FALSE)
  <2>1. fault.fn = "handle_page_fault" /\ fault.at = "lock" /\ fault.virt = Top.virt
    BY KernelFault
  <2>2. calls'[cur][m] = fault /\ ~ intr' /\ ~ Present(pagemap(cur), Top.virt)
    BY <1>5
  <2>3. (\A i \in (d + 1) .. m : i = m) /\ Kept(d, m)
    BY <1>1, <1>5
  <2> HIDE DEF fault, m, d
  <2>4. ~ Failed(calls'[cur][m]) /\ calls'[cur][m].virt = Top.virt
    BY <2>1, <2>2 DEF Failed
  <2>5. HighFault(calls'[cur][m]) => Absent(calls'[cur][m].virt)
    BY <1>1, <2>2, <2>4, TouchIsAbsent DEF HighFault
  <2>6. ~ HighFault(Top)
    BY <1>1 DEF HighFault
  <2> QED BY <1>1, <1>2, <2>2, <2>3, <2>4, <2>5, <2>6, ServedStep
<1> QED BY <1>3, <1>4, <1>5, KernelTouchEffect DEF ShapeInv

(* The heart: a walk of the kernel's that fails is on the lower half. *)
LEMMA FailsLow ==
    ASSUME ShapeInv, ServedInv, FaultFails, ~ Top.user_mode
    PROVE  Low(Top.virt)
<1>1. /\ calls[cur] # << >> /\ Top.fn = "handle_page_fault" /\ Top.at = "body"
      /\ Present(Top.lock, Top.virt) \/ addr_to_range(Top.lock, Top.virt) = NoRange
  BY DEF FaultFails, HasTable, Walks, Busy
<1>2. FrameOk(Top)
  BY <1>1, TopFrame
<1>3. CASE ~ Low(Top.virt)
  <2>1. High(Top.virt) /\ Top.lock = "kernel_pagemap"
    BY <1>1, <1>2, <1>3 DEF FrameOk
  <2>2. ~ Present("kernel_pagemap", Top.virt)
    BY <1>1, <2>1, TopFrame DEF ServedInv, FaultInv, HighFault
  <2>3. addr_to_range("kernel_pagemap", Top.virt) # NoRange
    BY <2>1, RangeFacts DEF High, ShapeInv, Maps
  <2> QED BY <1>1, <2>1, <2>2, <2>3
<1> QED BY <1>3

LEMMA ExceptionEndsServed ==
    ASSUME ShapeInv, ServedInv, ExceptionEnds
    PROVE  ServedInv'
<1>1. /\ calls[cur] # << >> /\ Top.fn = "handle_page_fault" /\ Top.at = "end"
      /\ UNCHANGED <<cur, calls>>
  BY DEF ExceptionEnds, In, Busy
<1>2. (~ Top.user_mode => Failed(Top)) /\ ~ HighFault(Top)
  BY <1>1 DEF Failed, HighFault
<1>3. ~ Top.user_mode => Low(Top.virt)
  BY <1>1, <1>2, TopFrame DEF ServedInv, FailInv
<1>4. Top' = Top
  BY <1>1 DEF Top
<1>5. StoppedInv'
  <2>1. CASE Top.user_mode
    <3>1. ~ Stopped'
      BY <2>1, Running DEF ExceptionEnds, In, Busy
    <3> QED BY <3>1 DEF StoppedInv
  <2>2. CASE ~ Top.user_mode
    BY <1>1, <1>3, <1>4, <2>2 DEF StoppedInv
  <2> QED BY <2>1, <2>2
<1>6. FailInv'
  BY <1>1 DEF ServedInv, FailInv, Failed
<1>7. ASSUME NEW t \in Tasks, NEW i \in 1 .. Len(calls[t]) PROVE ~ HighFault(calls[t][i])
  <2>1. HighFault(calls[t][i]) => t = cur /\ i = Len(calls[t])
    BY <1>7 DEF ServedInv, FaultInv
  <2> QED BY <1>1, <1>2, <2>1, TopFrame
<1>8. FaultInv'
  BY <1>1, <1>7 DEF FaultInv, HighFault
<1> QED BY <1>5, <1>6, <1>8 DEF ServedInv

LEMMA ServedNext ==
    ASSUME ShapeInv, MapsInv, ServedInv, [Next]_vars
    PROVE  ServedInv'
<1> DEFINE g == calls'[cur][Depth]
           h == calls'[cur][Depth + 1]
<1>1. CASE lock
  BY <1>1, lockServed
<1>2. CASE SpinTooMuch
  BY <1>2, SpinServed
<1>3. CASE unlock
  BY <1>3, unlockServed
<1>4. CASE \E t \in Tasks : Tick(t)
  BY <1>4, TickServed
<1>5. CASE KernelTouch
  BY <1>5, KernelTouchServed
<1>6. CASE TakePage \/ MapPage \/ MapKernel \/ FaultFills
  <2>1. Depth >= 1 /\ Kept(Depth - 1, Depth) /\ g.at = "unlock"
    BY <1>6, TakePageEffect, MapPageEffect, MapKernelEffect, FaultFillsEffect DEF ShapeInv
  <2>2. UNCHANGED cur
    BY <1>6 DEF TakePage, MapPage, MapKernel, FaultFills
  <2>3. ~ Stopped'
    BY <1>6, Running DEF TakePage, MapPage, MapKernel, FaultFills, In, HasTable, Walks, Busy
  <2>4. ~ HighFault(g) /\ ~ Failed(g)
    BY <2>1 DEF HighFault, Failed
  <2> QED BY <2>1, <2>2, <2>3, <2>4, ServedMoves
<1>7. CASE page_table_next_level
  <2>1. Depth >= 1 /\ Kept(Depth - 1, Depth + 1) /\ g.at = "table" /\ h = alloc_pages
    BY <1>7, NextLevelEffect DEF ShapeInv
  <2>2. UNCHANGED cur
    BY <1>7 DEF page_table_next_level
  <2>3. ~ Stopped'
    BY <1>7, Running DEF page_table_next_level, Walks, Busy
  <2>4. ~ HighFault(g) /\ ~ Failed(g) /\ ~ HighFault(h) /\ ~ Failed(h)
    BY <2>1, NewFrames DEF HighFault, Failed
  <2> QED BY <2>1, <2>2, <2>3, <2>4, ServedCalls
<1>8. CASE SetTable
  <2>1. Depth >= 1 /\ Kept(Depth - 1, Depth) /\ Same(Top, g) /\ g.at = "body"
    BY <1>8, SetTableEffect DEF ShapeInv
  <2>2. UNCHANGED cur
    BY <1>8 DEF SetTable
  <2>3. ~ Stopped'
    BY <1>8, Running DEF SetTable, Busy
  <2>4. ~ High(g.virt)
    BY <1>8, <2>1, SetTableIsLow, HighFacts DEF Same
  <2>5. ~ HighFault(g) /\ ~ Failed(g)
    BY <2>1, <2>4 DEF HighFault, Failed
  <2> QED BY <2>1, <2>2, <2>3, <2>5, ServedMoves
<1>11. CASE FaultFails
  <2>1. /\ Depth >= 1 /\ Kept(Depth - 1, Depth) /\ Same(Top, g) /\ g.at = "unlock_failed"
    BY <1>11, FaultFailsEffect DEF ShapeInv
  <2>2. UNCHANGED cur
    BY <1>11 DEF FaultFails
  <2>3. ~ Stopped'
    BY <1>11, Running DEF FaultFails, HasTable, Walks, Busy
  <2>4. ~ HighFault(g) /\ (Failed(g) => Low(g.virt))
    BY <1>11, <2>1, FailsLow DEF HighFault, Failed, Same
  <2> QED BY <2>1, <2>2, <2>3, <2>4, ServedMoves
<1>12. CASE FaultServed
  <2>1. Depth >= 1
    BY <1>12, FaultServedEffect DEF ShapeInv
  <2>2. UNCHANGED cur
    BY <1>12 DEF FaultServed
  <2>3. ~ Stopped'
    BY <1>12, Running DEF FaultServed, HasTable, Walks, Busy
  <2>4. CASE Kept(Depth - 1, Depth + 1) /\ g.at = "fill" /\ h = alloc_pages
    <3>1. ~ HighFault(g) /\ ~ Failed(g) /\ ~ HighFault(h) /\ ~ Failed(h)
      BY <2>4, NewFrames DEF HighFault, Failed
    <3> QED BY <2>1, <2>2, <2>3, <2>4, <3>1, ServedCalls
  <2>5. CASE Kept(Depth - 1, Depth) /\ g.at = "unlock"
    <3>1. ~ HighFault(g) /\ ~ Failed(g)
      BY <2>5 DEF HighFault, Failed
    <3> QED BY <2>1, <2>2, <2>3, <2>5, <3>1, ServedMoves
  <2> QED BY <1>12, <2>4, <2>5, FaultServedEffect DEF ShapeInv
<1>14. CASE iret \/ MmapAdds \/ Enqueue
  <2>1. Depth >= 1 /\ Kept(Depth - 1, Depth - 1)
    BY <1>14, ReturnsEffect DEF ShapeInv
  <2>2. UNCHANGED cur
    BY <1>14 DEF iret, MmapAdds, Enqueue
  <2>3. ~ Stopped'
    BY <1>14, Running DEF iret, MmapAdds, Enqueue, In, Busy
  <2> QED BY <2>1, <2>2, <2>3, ServedReturns
<1>15. CASE exception_handler
  <2>1. /\ Depth >= 1 /\ Kept(Depth - 1, Depth + 1) /\ Top.fn = "handle_page_fault"
        /\ Top.at = "exception" /\ Same(Top, g) /\ g.at = "end" /\ h = printf(NoAddress)
    BY <1>15, exception_handlerEffect DEF ShapeInv
  <2>2. UNCHANGED cur /\ calls[cur] # << >>
    BY <1>15 DEF exception_handler, In, Busy
  <2>3. ~ Stopped'
    BY <1>15, Running DEF exception_handler, In, Busy
  <2>4. Failed(g) => Failed(Top)
    BY <2>1 DEF Failed, Same
  <2>5. Failed(Top) => Low(Top.virt)
    BY <2>2, TopFrame DEF ServedInv, FailInv
  <2>6. ~ HighFault(g) /\ (Failed(g) => Low(g.virt))
    BY <2>1, <2>4, <2>5 DEF HighFault, Same
  <2>7. ~ HighFault(h) /\ ~ Failed(h)
    BY <2>1, NewFrames DEF HighFault, Failed
  <2> QED BY <2>1, <2>2, <2>3, <2>6, <2>7, ServedCalls
<1>16. CASE ExceptionEnds
  BY <1>16, ExceptionEndsServed
<1>17. CASE Begins
  <2>1. Depth = 0 /\ Kept(0, 1) /\ calls'[cur][1].fn \in {"heap", "printf", "access"} /\ UNCHANGED cur
    BY <1>17, BeginsEffect DEF ShapeInv
  <2>2. ~ Stopped'
    BY <1>17, Running DEF Begins, HeapCall, Prints, ReadsDevice, UsesBuffer, InKernel, Idle
  <2>3. \A i \in 1 .. 1 : i = 1
    OBVIOUS
  <2>4. ~ HighFault(calls'[cur][1]) /\ ~ Failed(calls'[cur][1])
    BY <2>1 DEF HighFault, Failed
  <2> QED BY <2>1, <2>2, <2>3, <2>4, ServedStarts
<1>18. CASE \E virt \in UserBytes \cup KernelBytes, write \in BOOLEAN : UserTouch(virt, write)
  <2>1. PICK virt \in UserBytes \cup KernelBytes, write \in BOOLEAN : UserTouch(virt, write)
    BY <1>18
  <2>2. Depth = 0 /\ Kept(0, 1) /\ calls'[cur][1].at = "lock" /\ calls'[cur][1].user_mode
    BY <2>1, UserTouchEffect DEF ShapeInv
  <2>3. UNCHANGED cur
    BY <2>1 DEF UserTouch
  <2>4. ~ Stopped'
    BY <2>1, Running DEF UserTouch, Idle
  <2>5. \A i \in 1 .. 1 : i = 1
    OBVIOUS
  <2>7. ~ HighFault(calls'[cur][1]) /\ ~ Failed(calls'[cur][1])
    BY <2>2 DEF HighFault, Failed
  <2> QED BY <2>2, <2>3, <2>4, <2>5, <2>7, ServedStarts
<1>19. CASE (\E length \in MmapLengths, w \in BOOLEAN : mmap(length, w)) \/ NewUserTask
  <2>1. /\ Depth = 0 /\ Kept(0, 2) /\ calls'[cur][1].fn \in {"mmap", "new_user_task"}
        /\ calls'[cur][2].fn = "heap"
    BY <1>19, mmapEffect, NewUserTaskEffect DEF ShapeInv
  <2>2. UNCHANGED cur
    BY <1>19 DEF mmap, NewUserTask
  <2>3. ~ Stopped'
    BY <1>19, Running DEF mmap, NewUserTask, Idle
  <2>4. \A i \in 1 .. 2 : i = 1 \/ i = 2
    OBVIOUS
  <2>5. \A i \in 1 .. 2 : ~ HighFault(calls'[cur][i]) /\ ~ Failed(calls'[cur][i])
    BY <2>1, <2>4 DEF HighFault, Failed
  <2> QED BY <2>1, <2>2, <2>3, <2>5, ServedStarts
<1>22. CASE NewPml4 \/ LoadPage
  <2>1. /\ Depth >= 1 /\ Kept(Depth - 1, Depth + 1) /\ g.fn = "new_user_task"
        /\ h.fn \in {"alloc_pages", "map_kernel", "map_page"}
    BY <1>22, NewPml4Effect, LoadPageEffect, NewFrames DEF ShapeInv, Same
  <2>2. UNCHANGED cur
    BY <1>22 DEF NewPml4, LoadPage
  <2>3. ~ Stopped'
    BY <1>22, Running DEF NewPml4, LoadPage, In, Busy
  <2>4. ~ HighFault(g) /\ ~ Failed(g) /\ ~ HighFault(h) /\ ~ Failed(h)
    BY <2>1 DEF HighFault, Failed
  <2> QED BY <2>1, <2>2, <2>3, <2>4, ServedCalls
<1>25. CASE UNCHANGED vars
  BY <1>25 DEF vars, ServedInv, FaultInv, FailInv, StoppedInv, Stopped, HighFault, Failed, Top,
               Present, Entry
<1> QED
  BY <1>1, <1>2, <1>3, <1>4, <1>5, <1>6, <1>7, <1>8, <1>11, <1>12, <1>14,
     <1>15, <1>16, <1>17, <1>18, <1>19, <1>22, <1>25 DEF Next, Begins

LEMMA ServedInit ==
    ASSUME Init
    PROVE  ServedInv
<1>1. ASSUME NEW t \in Tasks, NEW i \in 1 .. Len(calls[t])
      PROVE  ~ HighFault(calls[t][i]) /\ ~ Failed(calls[t][i])
  <2>1. CASE t \in {kernel_thread, user}
    <3>1. calls[t] = << >>
      BY <2>1 DEF Init
    <3> QED BY <1>1, <3>1
  <2>2. CASE t \notin {kernel_thread, user}
    <3>1. calls[t] = <<printf(NoAddress)>>
      BY <2>2 DEF Init
    <3>2. calls[t][i] = printf(NoAddress)
      BY <1>1, <3>1
    <3> QED BY <3>2, NewFrames DEF HighFault, Failed
  <2> QED BY <2>1, <2>2
<1>2. ~ Stopped
  BY Zenon DEF Init, Stopped
<1> QED BY <1>1, <1>2 DEF ServedInv, FaultInv, FailInv, StoppedInv

(* HeapFaultsAreServed for any size of the heap: the kernel never dies of a    *)
(* fault on a byte of its heap or on a device, only of one in a buffer of the  *)
(* program.                                                                    *)
THEOREM HeapFaultsServed == Spec => []HeapFaultsAreServed
<1>1. Init => ShapeInv /\ MapsInv /\ ServedInv
  BY ShapeInit, MapsInit, ServedInit
<1>2. ShapeInv /\ MapsInv /\ ServedInv /\ [Next]_vars => ShapeInv' /\ MapsInv' /\ ServedInv'
  BY ShapeStep, MapsNext, ServedNext
<1>3. ASSUME ServedInv PROVE HeapFaultsAreServed
  <2>1. Stopped => slot(Top.virt) = "low"
    BY <1>3, LowFacts DEF ServedInv, StoppedInv
  <2> QED BY <2>1, Zenon DEF Stopped, HeapFaultsAreServed
<1> QED BY <1>1, <1>2, <1>3, PTL DEF Spec

-----------------------------------------------------------------------------
(* Who has a page: an entry of a table, a page map as its low table, or a call *)
(* that was given it and has not yet put it to use. The maps p, the entries e  *)
(* and the calls c are parameters, so that two states can be compared.         *)

HoldsGot(f) == f.got # 0 /\ (f.fn = "alloc_pages" \/ f.at \in {"table", "fill", "pml4", "pages"})
HoldsPhy(f) == f.fn = "map_page" /\ f.at \in {"lock", "body", "table"}

InEntry(a, b, n, e) == <<a, b>> \in DOMAIN e /\ e[<<a, b>>].phy = n
InTable(m, n, p) == m \in Maps /\ n # 0 /\ p[m]["low"] = n
InGot(t, i, n, c) == t \in Tasks /\ i \in 1 .. Len(c[t]) /\ HoldsGot(c[t][i]) /\ c[t][i].got = n
InPhy(t, i, n, c) == t \in Tasks /\ i \in 1 .. Len(c[t]) /\ HoldsPhy(c[t][i]) /\ c[t][i].phy = n

Holder(k, a, b, n, p, e, c) ==
    \/ k = "entry" /\ InEntry(a, b, n, e)
    \/ k = "table" /\ b = 0 /\ InTable(a, n, p)
    \/ k = "got" /\ InGot(a, b, n, c)
    \/ k = "phy" /\ InPhy(a, b, n, c)

Held(k, a, b, n) == Holder(k, a, b, n, pml4, pte, calls)
HeldNext(k, a, b, n) == Holder(k, a, b, n, pml4', pte', calls')

(* A page was given away; the device's and the image's are not of the manager. *)
PageOk(k, a, b, n, g) ==
    \/ n \in 3 .. g
    \/ k = "entry" /\ n = -b /\ ((a = 1 /\ b = DevicePage) \/ (a = 2 /\ b = ImagePage))

HoldInv ==
    /\ \A k, a, b, n : Held(k, a, b, n) => PageOk(k, a, b, n, granted)
    /\ \A k, a, b, l, c, d, n : Held(k, a, b, n) /\ Held(l, c, d, n) => k = l /\ a = c /\ b = d

-----------------------------------------------------------------------------
(* What walks and the loader rely on: p is the maps, E the addresses of the    *)
(* entries.                                                                    *)

EntriesOk(p, E) ==
    \A x \in E : \E a \in Nat \ {0}, b \in Nat :
        x = <<a, b>> /\ (a \in {1, 2} \/ a = p["kernel_pagemap"]["low"] \/ a = p["user_pagemap"]["low"])

(* What a walk has seen is still so: there is no table, or no entry. *)
Walked(f, p, E) ==
    /\ f.at = "table" => p[f.lock]["low"] = 0
    /\ f.at = "fill" => p[f.lock][slot(f.virt)] # 0 /\ <<p[f.lock][slot(f.virt)], page(f.virt)>> \notin E

(* The loader maps the program's pages upwards. *)
Loads(f) == f.at = "pages" \/ HoldsPhy(f)
Above(f, p, E) ==
    Loads(f) => \A a, b : <<a, b>> \in E /\ a = p["user_pagemap"]["low"] => b < page(f.virt)

WalkInv ==
    \A t \in Tasks : \A i \in 1 .. Len(calls[t]) :
        Walked(calls[t][i], pml4, DOMAIN pte) /\ Above(calls[t][i], pml4, DOMAIN pte)

(* The lower half of the user's map is empty until the loader comes to it. *)
Loading(c) == Len(c[kernel_thread]) >= 1 /\ c[kernel_thread][1].at = "pages"

EmptyInv == pml4["user_pagemap"]["low"] # 0 => life # "none" \/ Loading(calls)

PagesInv == HoldInv /\ EntriesOk(pml4, DOMAIN pte) /\ WalkInv /\ EmptyInv

-----------------------------------------------------------------------------
(* Pages change hands. *)

LEMMA HoldPrimed ==
    ASSUME \A k, a, b, n : HeldNext(k, a, b, n) => PageOk(k, a, b, n, granted'),
           \A k, a, b, l, c, d, n : HeldNext(k, a, b, n) /\ HeldNext(l, c, d, n) => k = l /\ a = c /\ b = d
    PROVE  HoldInv'
BY DEF HoldInv, Held, HeldNext, PageOk

LEMMA NobodyGains ==
    ASSUME HoldInv, UNCHANGED granted,
           \A k, a, b, n : HeldNext(k, a, b, n) => Held(k, a, b, n)
    PROVE  HoldInv'
<1>1. \A k, a, b, n : HeldNext(k, a, b, n) => PageOk(k, a, b, n, granted')
  BY DEF HoldInv
<1>2. \A k, a, b, l, c, d, n : HeldNext(k, a, b, n) /\ HeldNext(l, c, d, n) => k = l /\ a = c /\ b = d
  BY DEF HoldInv
<1> QED BY <1>1, <1>2, HoldPrimed

(* One holder gives its page to another. *)
Passes(k0, a0, b0, k1, a1, b1) ==
    \A k, a, b, n : HeldNext(k, a, b, n) =>
        \/ Held(k, a, b, n) /\ ~ (k = k0 /\ a = a0 /\ b = b0)
        \/ k = k1 /\ a = a1 /\ b = b1 /\ Held(k0, a0, b0, n)

LEMMA OneGives ==
    ASSUME HoldInv, UNCHANGED granted, NEW k0, NEW a0, NEW b0, k0 # "entry", NEW k1, NEW a1, NEW b1,
           Passes(k0, a0, b0, k1, a1, b1)
    PROVE  HoldInv'
<1>0. \A k, a, b, n : HeldNext(k, a, b, n) =>
        \/ Held(k, a, b, n) /\ ~ (k = k0 /\ a = a0 /\ b = b0)
        \/ k = k1 /\ a = a1 /\ b = b1 /\ Held(k0, a0, b0, n)
  BY DEF Passes
<1>1. ASSUME NEW k, NEW a, NEW b, NEW n, HeldNext(k, a, b, n) PROVE PageOk(k, a, b, n, granted')
  <2>1. CASE Held(k, a, b, n)
    BY <2>1 DEF HoldInv
  <2>2. CASE Held(k0, a0, b0, n)
    <3>1. PageOk(k0, a0, b0, n, granted)
      BY <2>2 DEF HoldInv
    <3> QED BY <3>1 DEF PageOk
  <2> QED BY <1>0, <1>1, <2>1, <2>2
<1>2. ASSUME NEW k, NEW a, NEW b, NEW l, NEW c, NEW d, NEW n, HeldNext(k, a, b, n), HeldNext(l, c, d, n)
      PROVE  k = l /\ a = c /\ b = d
  <2>1. CASE Held(k, a, b, n) /\ Held(l, c, d, n)
    BY <2>1 DEF HoldInv
  <2>2. ASSUME NEW x, NEW y, NEW z, Held(x, y, z, n), Held(k0, a0, b0, n)
        PROVE  x = k0 /\ y = a0 /\ z = b0
    BY <2>2 DEF HoldInv
  <2> QED BY <1>0, <1>2, <2>1, <2>2
<1> QED BY <1>1, <1>2, HoldPrimed

LEMMA OneGains ==
    ASSUME HoldInv, granted \in Nat, granted' \in Nat, granted' >= granted,
           NEW k1, NEW a1, NEW b1, NEW new, PageOk(k1, a1, b1, new, granted'),
           \A k, a, b : ~ Held(k, a, b, new),
           \A k, a, b, n : HeldNext(k, a, b, n) =>
             Held(k, a, b, n) \/ (k = k1 /\ a = a1 /\ b = b1 /\ n = new)
    PROVE  HoldInv'
<1>1. ASSUME NEW k, NEW a, NEW b, NEW n, HeldNext(k, a, b, n) PROVE PageOk(k, a, b, n, granted')
  <2>1. CASE Held(k, a, b, n)
    <3>1. PageOk(k, a, b, n, granted)
      BY <2>1 DEF HoldInv
    <3> QED BY <3>1 DEF PageOk
  <2> QED BY <1>1, <2>1
<1>2. ASSUME NEW k, NEW a, NEW b, NEW l, NEW c, NEW d, NEW n, HeldNext(k, a, b, n), HeldNext(l, c, d, n)
      PROVE  k = l /\ a = c /\ b = d
  <2>1. CASE Held(k, a, b, n) /\ Held(l, c, d, n)
    BY <2>1 DEF HoldInv
  <2> QED BY <1>2, <2>1
<1> QED BY <1>1, <1>2, HoldPrimed

(* Of the new calls only call x may hold a page it had not held before. *)
LEMMA GotStep ==
    ASSUME ShapeInv, NEW k, NEW m, Kept(k, m), NEW x,
           \A i \in (k + 1) .. m : HoldsGot(calls'[cur][i]) /\ i # x =>
             i \in 1 .. Depth /\ HoldsGot(calls[cur][i]) /\ calls'[cur][i].got = calls[cur][i].got
    PROVE  \A t, i, n : InGot(t, i, n, calls') => InGot(t, i, n, calls) \/ (t = cur /\ i = x /\ x > k)
<1>1. Depth \in Nat /\ Depth = Len(calls[cur]) /\ k \in 0 .. Depth /\ m \in Nat /\ k <= m
      /\ Len(calls'[cur]) = m
  BY DepthFacts DEF Kept, ShapeInv
<1> SUFFICES ASSUME NEW t, NEW i, NEW n, InGot(t, i, n, calls'), ~ (t = cur /\ i = x /\ x > k)
             PROVE  InGot(t, i, n, calls)
  OBVIOUS
<1>2. CASE t # cur
  <2>1. calls'[t] = calls[t]
    BY <1>2 DEF Kept, InGot
  <2> QED BY <2>1 DEF InGot
<1>3. CASE t = cur /\ i \in 1 .. k
  <2>1. calls'[t][i] = calls[t][i] /\ i \in 1 .. Len(calls[t])
    BY <1>1, <1>3 DEF Kept
  <2> QED BY <2>1 DEF InGot
<1>4. CASE t = cur /\ i \in (k + 1) .. m
  <2>1. i # x
    BY <1>1, <1>4
  <2> QED BY <1>1, <1>4, <2>1 DEF InGot
<1>5. t # cur \/ i \in 1 .. k \/ i \in (k + 1) .. m
  BY <1>1 DEF InGot
<1> QED BY <1>2, <1>3, <1>4, <1>5

LEMMA PhyStep ==
    ASSUME ShapeInv, NEW k, NEW m, Kept(k, m), NEW x,
           \A i \in (k + 1) .. m : HoldsPhy(calls'[cur][i]) /\ i # x =>
             i \in 1 .. Depth /\ HoldsPhy(calls[cur][i]) /\ calls'[cur][i].phy = calls[cur][i].phy
    PROVE  \A t, i, n : InPhy(t, i, n, calls') => InPhy(t, i, n, calls) \/ (t = cur /\ i = x /\ x > k)
<1>1. Depth \in Nat /\ Depth = Len(calls[cur]) /\ k \in 0 .. Depth /\ m \in Nat /\ k <= m
      /\ Len(calls'[cur]) = m
  BY DepthFacts DEF Kept, ShapeInv
<1> SUFFICES ASSUME NEW t, NEW i, NEW n, InPhy(t, i, n, calls'), ~ (t = cur /\ i = x /\ x > k)
             PROVE  InPhy(t, i, n, calls)
  OBVIOUS
<1>2. CASE t # cur
  <2>1. calls'[t] = calls[t]
    BY <1>2 DEF Kept, InPhy
  <2> QED BY <2>1 DEF InPhy
<1>3. CASE t = cur /\ i \in 1 .. k
  <2>1. calls'[t][i] = calls[t][i] /\ i \in 1 .. Len(calls[t])
    BY <1>1, <1>3 DEF Kept
  <2> QED BY <2>1 DEF InPhy
<1>4. CASE t = cur /\ i \in (k + 1) .. m
  <2>1. i # x
    BY <1>1, <1>4
  <2> QED BY <1>1, <1>4, <2>1 DEF InPhy
<1>5. t # cur \/ i \in 1 .. k \/ i \in (k + 1) .. m
  BY <1>1 DEF InPhy
<1> QED BY <1>2, <1>3, <1>4, <1>5

(* The tables that the kernel's map and the lower half of the user's consist   *)
(* of stay.                                                                    *)
TablesStay ==
    /\ pml4'["kernel_pagemap"] = pml4["kernel_pagemap"]
    /\ pml4'["user_pagemap"]["low"] = pml4["user_pagemap"]["low"]

LEMMA HoldQuiet ==
    ASSUME ShapeInv, HoldInv, UNCHANGED <<granted, pte>>, TablesStay, NEW k, NEW m, Kept(k, m),
           \A i \in (k + 1) .. m : HoldsGot(calls'[cur][i]) =>
             i \in 1 .. Depth /\ HoldsGot(calls[cur][i]) /\ calls'[cur][i].got = calls[cur][i].got,
           \A i \in (k + 1) .. m : HoldsPhy(calls'[cur][i]) =>
             i \in 1 .. Depth /\ HoldsPhy(calls[cur][i]) /\ calls'[cur][i].phy = calls[cur][i].phy
    PROVE  HoldInv'
<1>0. k \in Nat
  BY DepthFacts DEF Kept, ShapeInv
<1>1. \A t, i, n : InGot(t, i, n, calls') => InGot(t, i, n, calls)
  <2>1. \A t, i, n : InGot(t, i, n, calls') => InGot(t, i, n, calls) \/ (t = cur /\ i = 0 /\ 0 > k)
    BY GotStep
  <2> QED BY <1>0, <2>1
<1>2. \A t, i, n : InPhy(t, i, n, calls') => InPhy(t, i, n, calls)
  <2>1. \A t, i, n : InPhy(t, i, n, calls') => InPhy(t, i, n, calls) \/ (t = cur /\ i = 0 /\ 0 > k)
    BY PhyStep
  <2> QED BY <1>0, <2>1
<1>3. \A m1, n : InTable(m1, n, pml4') => InTable(m1, n, pml4)
  BY DEF InTable, TablesStay, Maps
<1>4. \A a, b, n : InEntry(a, b, n, pte') => InEntry(a, b, n, pte)
  BY DEF InEntry
<1>5. \A l, a, b, n : HeldNext(l, a, b, n) => Held(l, a, b, n)
  BY <1>1, <1>2, <1>3, <1>4 DEF Held, HeldNext, Holder
<1> QED BY <1>5, NobodyGains

(* The maps a call looks at. *)
LEMMA WalkedStays ==
    ASSUME TablesStay, NEW f \in Frames, FrameOk(f), NEW E, Walked(f, pml4, E), Above(f, pml4, E)
    PROVE  Walked(f, pml4', E) /\ Above(f, pml4', E)
<1>1. Above(f, pml4', E)
  BY DEF Above, TablesStay
<1>2. CASE f.at \notin {"table", "fill"}
  BY <1>1, <1>2 DEF Walked
<1>3. CASE f.at \in {"table", "fill"}
  <2>1. f.fn \in {"handle_page_fault", "map_page"} /\ (f.fn = "map_page" => f.lock = "user_pagemap")
    BY <1>3 DEF FrameOk, Frames, Functions
  <2>2. f.lock = "kernel_pagemap" \/ (f.lock = "user_pagemap" /\ (f.at = "fill" => Low(f.virt)))
    BY <2>1, ProgramBytesAreLow DEF FrameOk
  <2>3. pml4'[f.lock]["low"] = pml4[f.lock]["low"]
    BY <2>2 DEF TablesStay
  <2>4. f.at = "fill" => pml4'[f.lock][slot(f.virt)] = pml4[f.lock][slot(f.virt)]
    BY <2>2, LowFacts DEF TablesStay
  <2> QED BY <1>1, <2>3, <2>4 DEF Walked
<1> QED BY <1>2, <1>3

LEMMA WalkStep ==
    ASSUME ShapeInv, NEW k, NEW m, Kept(k, m),
           \A t \in Tasks : \A i \in 1 .. Len(calls[t]) : t # cur \/ i <= k =>
             Walked(calls[t][i], pml4', DOMAIN pte') /\ Above(calls[t][i], pml4', DOMAIN pte'),
           \A i \in (k + 1) .. m :
             Walked(calls'[cur][i], pml4', DOMAIN pte') /\ Above(calls'[cur][i], pml4', DOMAIN pte')
    PROVE  WalkInv'
<1>1. Depth \in Nat /\ Depth = Len(calls[cur]) /\ k \in 0 .. Depth /\ m \in Nat /\ k <= m
      /\ Len(calls'[cur]) = m
  BY DepthFacts DEF Kept, ShapeInv
<1>2. ASSUME NEW t \in Tasks, NEW i \in 1 .. Len(calls'[t])
      PROVE  Walked(calls'[t][i], pml4', DOMAIN pte') /\ Above(calls'[t][i], pml4', DOMAIN pte')
  <2>1. CASE t # cur
    <3>1. calls'[t] = calls[t]
      BY <2>1 DEF Kept
    <3> QED BY <1>2, <2>1, <3>1
  <2>2. CASE t = cur /\ i \in (k + 1) .. m
    BY <2>2
  <2>3. CASE t = cur /\ i \in 1 .. k
    <3>1. calls'[t][i] = calls[t][i] /\ i \in 1 .. Len(calls[t]) /\ i <= k
      BY <1>1, <2>3 DEF Kept
    <3> QED BY <3>1
  <2>4. i \in 1 .. k \/ i \in (k + 1) .. m \/ t # cur
    BY <1>1, <1>2
  <2> QED BY <2>1, <2>2, <2>3, <2>4
<1> QED BY <1>2 DEF WalkInv, Walked, Above, Loads, HoldsPhy

(* The loader is not lost. *)
LEMMA LoadingStep ==
    ASSUME ShapeInv, NEW k, NEW m, Kept(k, m),
           k = 0 /\ Depth >= 1 /\ calls[cur][1].at = "pages" => m >= 1 /\ calls'[cur][1].at = "pages"
    PROVE  Loading(calls) => Loading(calls')
<1>1. Depth \in Nat /\ Depth = Len(calls[cur]) /\ k \in 0 .. Depth /\ m \in Nat /\ k <= m
      /\ Len(calls'[cur]) = m /\ cur \in Tasks /\ kernel_thread \in Tasks
  BY DepthFacts, TasksAssumption DEF Kept, ShapeInv
<1>2. CASE cur # kernel_thread
  <2>1. calls'[kernel_thread] = calls[kernel_thread]
    BY <1>1, <1>2 DEF Kept
  <2> QED BY <2>1 DEF Loading
<1>3. CASE cur = kernel_thread /\ k >= 1
  <2>1. calls'[cur][1] = calls[cur][1] /\ m >= 1
    BY <1>1, <1>3 DEF Kept
  <2> QED BY <1>1, <1>3, <2>1 DEF Loading
<1>4. CASE cur = kernel_thread /\ k = 0
  BY <1>1, <1>4 DEF Loading
<1> QED BY <1>1, <1>2, <1>3, <1>4

LEMMA PagesStep ==
    ASSUME ShapeInv, PagesInv, UNCHANGED <<granted, pte>>, TablesStay, life # "none" => life' # "none",
           NEW k, NEW m, Kept(k, m),
           \A i \in (k + 1) .. m : HoldsGot(calls'[cur][i]) =>
             i \in 1 .. Depth /\ HoldsGot(calls[cur][i]) /\ calls'[cur][i].got = calls[cur][i].got,
           \A i \in (k + 1) .. m : HoldsPhy(calls'[cur][i]) =>
             i \in 1 .. Depth /\ HoldsPhy(calls[cur][i]) /\ calls'[cur][i].phy = calls[cur][i].phy,
           \A i \in (k + 1) .. m : FrameOk(calls'[cur][i]) /\
             Walked(calls'[cur][i], pml4, DOMAIN pte) /\ Above(calls'[cur][i], pml4, DOMAIN pte),
           life' # "none" \/ (k = 0 /\ Depth >= 1 /\ calls[cur][1].at = "pages" =>
                                m >= 1 /\ calls'[cur][1].at = "pages")
    PROVE  PagesInv'
<1>1. HoldInv'
  BY HoldQuiet DEF PagesInv
<1>2. EntriesOk(pml4', DOMAIN pte')
  BY DEF PagesInv, EntriesOk, TablesStay
<1>3. \A t \in Tasks : \A i \in 1 .. Len(calls[t]) :
        Walked(calls[t][i], pml4', DOMAIN pte') /\ Above(calls[t][i], pml4', DOMAIN pte')
  <2> SUFFICES ASSUME NEW t \in Tasks, NEW i \in 1 .. Len(calls[t])
               PROVE  Walked(calls[t][i], pml4', DOMAIN pte') /\ Above(calls[t][i], pml4', DOMAIN pte')
    OBVIOUS
  <2>1. calls[t][i] \in Frames /\ FrameOk(calls[t][i])
    BY DepthFacts DEF ShapeInv, StackOk
  <2>2. Walked(calls[t][i], pml4, DOMAIN pte) /\ Above(calls[t][i], pml4, DOMAIN pte)
    BY DEF PagesInv, WalkInv
  <2>3. Walked(calls[t][i], pml4', DOMAIN pte) /\ Above(calls[t][i], pml4', DOMAIN pte)
    BY <2>1, <2>2, WalkedStays
  <2> QED BY <2>3
<1>4. \A i \in (k + 1) .. m :
        Walked(calls'[cur][i], pml4', DOMAIN pte') /\ Above(calls'[cur][i], pml4', DOMAIN pte')
  <2> SUFFICES ASSUME NEW i \in (k + 1) .. m
               PROVE  Walked(calls'[cur][i], pml4', DOMAIN pte') /\ Above(calls'[cur][i], pml4', DOMAIN pte')
    OBVIOUS
  <2>0. i \in 1 .. m
    BY DepthFacts DEF ShapeInv, Kept
  <2>1. calls'[cur][i] \in Frames
    BY <2>0, KeptFrames DEF ShapeInv
  <2>2. Walked(calls'[cur][i], pml4', DOMAIN pte) /\ Above(calls'[cur][i], pml4', DOMAIN pte)
    BY <2>1, WalkedStays
  <2> QED BY <2>2
<1>5. WalkInv'
  BY <1>3, <1>4, WalkStep
<1>6. EmptyInv'
  <2>1. life' = "none" => (Loading(calls) => Loading(calls'))
    BY LoadingStep
  <2> QED BY <2>1 DEF EmptyInv, PagesInv, TablesStay, Loading
<1>7. EntriesOk(pml4, DOMAIN pte)'
  BY <1>2 DEF EntriesOk
<1> QED BY <1>1, <1>5, <1>6, <1>7 DEF PagesInv

(* A call that has no page and relies on nothing. *)
Plain(f) == ~ HoldsGot(f) /\ ~ HoldsPhy(f) /\ f.at \notin {"table", "fill", "pages"}

LEMMA PlainFacts ==
    ASSUME NEW f, Plain(f), NEW p, NEW E
    PROVE  ~ HoldsGot(f) /\ ~ HoldsPhy(f) /\ Walked(f, p, E) /\ Above(f, p, E)
BY DEF Plain, Walked, Above, Loads

PagesStill == UNCHANGED <<granted, pte>> /\ TablesStay /\ (life # "none" => life' # "none")

LEMMA PagesMoves ==
    ASSUME ShapeInv, PagesInv, PagesStill, Depth >= 1, Kept(Depth - 1, Depth),
           FrameOk(calls'[cur][Depth]), ~ HoldsGot(calls'[cur][Depth]),
           HoldsPhy(calls'[cur][Depth]) =>
             HoldsPhy(Top) /\ calls'[cur][Depth].phy = Top.phy /\ calls'[cur][Depth].virt = Top.virt,
           calls'[cur][Depth].at \notin {"table", "fill", "pages"}, Top.at # "pages"
    PROVE  PagesInv'
<1> DEFINE k == Depth - 1
           d == Depth
           g == calls'[cur][Depth]
<1>1. d \in Nat /\ d >= 1 /\ Top = calls[cur][d] /\ d \in 1 .. Len(calls[cur]) /\ cur \in Tasks
  BY DepthFacts DEF ShapeInv
<1>2. (\A i \in (k + 1) .. d : i = d) /\ Kept(k, d) /\ d = Depth /\ d \in 1 .. d /\ (k = 0 => d = 1)
  BY <1>1
<1>3. Above(Top, pml4, DOMAIN pte)
  BY <1>1 DEF PagesInv, WalkInv
<1>4. Walked(g, pml4, DOMAIN pte) /\ Above(g, pml4, DOMAIN pte)
  BY <1>3 DEF Walked, Above, Loads
<1> HIDE DEF k, d
<1> QED BY <1>1, <1>2, <1>4, PagesStep DEF PagesStill

LEMMA PagesCalls ==
    ASSUME ShapeInv, PagesInv, PagesStill, Depth >= 1, Kept(Depth - 1, Depth + 1),
           FrameOk(calls'[cur][Depth]), FrameOk(calls'[cur][Depth + 1]), Plain(calls'[cur][Depth + 1]),
           HoldsGot(calls'[cur][Depth]) => HoldsGot(Top) /\ calls'[cur][Depth].got = Top.got,
           HoldsPhy(calls'[cur][Depth]) => HoldsPhy(Top) /\ calls'[cur][Depth].phy = Top.phy,
           Walked(calls'[cur][Depth], pml4, DOMAIN pte), Above(calls'[cur][Depth], pml4, DOMAIN pte),
           Top.at = "pages" => calls'[cur][Depth].at = "pages"
    PROVE  PagesInv'
<1> DEFINE k == Depth - 1
           d == Depth
           m == Depth + 1
<1>1. d \in Nat /\ d >= 1 /\ Top = calls[cur][d]
  BY DepthFacts DEF ShapeInv
<1>2. /\ (\A i \in (k + 1) .. m : i = d \/ i = m) /\ Kept(k, m) /\ d = Depth /\ m = Depth + 1
      /\ d \in 1 .. d /\ (k = 0 => d = 1) /\ m >= 1
  BY <1>1
<1>3. /\ ~ HoldsGot(calls'[cur][m]) /\ ~ HoldsPhy(calls'[cur][m])
      /\ Walked(calls'[cur][m], pml4, DOMAIN pte) /\ Above(calls'[cur][m], pml4, DOMAIN pte)
  BY PlainFacts
<1> HIDE DEF k, d, m
<1> QED BY <1>1, <1>2, <1>3, PagesStep DEF PagesStill

LEMMA PagesReturns ==
    ASSUME ShapeInv, PagesInv, PagesStill, Depth >= 1, Kept(Depth - 1, Depth - 1),
           Top.at # "pages" \/ life' # "none"
    PROVE  PagesInv'
<1> DEFINE k == Depth - 1
           d == Depth
<1>1. d \in Nat /\ d >= 1 /\ Top = calls[cur][d]
  BY DepthFacts DEF ShapeInv
<1>2. (\A i \in (k + 1) .. k : FALSE) /\ Kept(k, k) /\ d = Depth /\ (k = 0 => d = 1)
  BY <1>1
<1> HIDE DEF k, d
<1> QED BY <1>1, <1>2, PagesStep DEF PagesStill

LEMMA PagesStarts ==
    ASSUME ShapeInv, PagesInv, PagesStill, Depth = 0, NEW m, Kept(0, m),
           \A i \in 1 .. m : Plain(calls'[cur][i]) /\ FrameOk(calls'[cur][i])
    PROVE  PagesInv'
<1>1. 0 + 1 = 1 /\ ~ (Depth >= 1)
  OBVIOUS
<1>2. \A i \in 1 .. m :
        /\ ~ HoldsGot(calls'[cur][i]) /\ ~ HoldsPhy(calls'[cur][i])
        /\ Walked(calls'[cur][i], pml4, DOMAIN pte) /\ Above(calls'[cur][i], pml4, DOMAIN pte)
  BY PlainFacts
<1> QED BY <1>1, <1>2, PagesStep DEF PagesStill

LEMMA PagesStutters ==
    ASSUME ShapeInv, PagesInv, PagesStill, UNCHANGED calls
    PROVE  PagesInv'
<1>1. Kept(Depth, Depth) /\ Depth \in Nat /\ \A i \in (Depth + 1) .. Depth : FALSE
  BY StutterKept
<1>2. Depth # 0 \/ ~ (Depth >= 1)
  BY <1>1
<1> QED BY <1>1, <1>2, PagesStep DEF PagesStill

-----------------------------------------------------------------------------
(* Pages that change hands. *)

LEMMA TakePagePages ==
    ASSUME ShapeInv, PagesInv, TakePage
    PROVE  PagesInv'
<1> DEFINE g == calls'[cur][Depth]
           k == Depth - 1
           d == Depth
<1>1. /\ Depth >= 1 /\ Kept(Depth - 1, Depth) /\ Same(Top, g) /\ Top.fn = "alloc_pages" /\ g.at = "unlock"
      /\ g.got = granted + 1
  BY TakePageEffect DEF ShapeInv
<1>2. UNCHANGED <<pml4, pte, life>> /\ granted' = granted + 1 /\ granted \in Nat /\ granted >= 2
  BY DEF TakePage, ShapeInv, TypeOK
<1>3. d \in Nat /\ d >= 1 /\ Top = calls[cur][d] /\ cur \in Tasks
  BY <1>1, DepthFacts DEF ShapeInv
<1>4. (\A i \in (k + 1) .. d : i = d) /\ Kept(k, d) /\ d = Depth /\ (k = 0 => d = 1)
  BY <1>1, <1>3
<1>5. ~ HoldsPhy(g) /\ Walked(g, pml4, DOMAIN pte) /\ Above(g, pml4, DOMAIN pte)
  BY <1>1 DEF HoldsPhy, Walked, Above, Loads, Same
<1>6. calls'[cur][d].got = granted + 1 /\ ~ HoldsPhy(calls'[cur][d])
      /\ Walked(calls'[cur][d], pml4, DOMAIN pte) /\ Above(calls'[cur][d], pml4, DOMAIN pte)
  BY <1>1, <1>5
<1>7. Top.at # "pages"
  BY <1>1 DEF TakePage, In
<1> HIDE DEF k, d, g
<1>8. \A t, i, n : InGot(t, i, n, calls') => InGot(t, i, n, calls) \/ (t = cur /\ i = d)
  <2>1. \A i \in (k + 1) .. d : HoldsGot(calls'[cur][i]) /\ i # d =>
             i \in 1 .. Depth /\ HoldsGot(calls[cur][i]) /\ calls'[cur][i].got = calls[cur][i].got
    BY <1>4
  <2> QED BY <1>4, <2>1, GotStep
<1>9. \A t, i, n : InGot(t, i, n, calls') /\ t = cur /\ i = d => n = granted + 1
  BY <1>6 DEF InGot
<1>10. \A t, i, n : InPhy(t, i, n, calls') => InPhy(t, i, n, calls)
  <2>1. \A i \in (k + 1) .. d : HoldsPhy(calls'[cur][i]) /\ i # d =>
             i \in 1 .. Depth /\ HoldsPhy(calls[cur][i]) /\ calls'[cur][i].phy = calls[cur][i].phy
    BY <1>4
  <2>2. \A t, i, n : InPhy(t, i, n, calls') => InPhy(t, i, n, calls) \/ (t = cur /\ i = d)
    BY <1>4, <2>1, PhyStep
  <2> QED BY <1>6, <2>2 DEF InPhy
<1>11. \A l, a, b, n : HeldNext(l, a, b, n) =>
         Held(l, a, b, n) \/ (l = "got" /\ a = cur /\ b = d /\ n = granted + 1)
  BY <1>2, <1>8, <1>9, <1>10 DEF HeldNext, Held, Holder
<1>12. \A l, a, b : ~ Held(l, a, b, granted + 1)
  <2> SUFFICES ASSUME NEW l, NEW a, NEW b, PageOk(l, a, b, granted + 1, granted) PROVE FALSE
    BY DEF PagesInv, HoldInv
  <2>1. ~ (granted + 1 \in 3 .. granted)
    BY <1>2
  <2>2. DevicePage \in Nat /\ ImagePage \in Nat
    BY DEF DevicePage, ImagePage
  <2> QED BY <1>2, <2>1, <2>2 DEF PageOk
<1>13. PageOk("got", cur, d, granted + 1, granted')
  BY <1>2 DEF PageOk
<1>14. HoldInv'
  BY <1>2, <1>11, <1>12, <1>13, OneGains DEF PagesInv
<1>15. WalkInv'
  <2>1. \A t \in Tasks : \A i \in 1 .. Len(calls[t]) :
          Walked(calls[t][i], pml4', DOMAIN pte') /\ Above(calls[t][i], pml4', DOMAIN pte')
    BY <1>2 DEF PagesInv, WalkInv
  <2>2. \A i \in (k + 1) .. d :
          Walked(calls'[cur][i], pml4', DOMAIN pte') /\ Above(calls'[cur][i], pml4', DOMAIN pte')
    BY <1>2, <1>4, <1>6
  <2> QED BY <1>4, <2>1, <2>2, WalkStep
<1>16. Loading(calls) => Loading(calls')
  BY <1>3, <1>4, <1>7, LoadingStep
<1>17. EmptyInv'
  BY <1>2, <1>16 DEF EmptyInv, PagesInv, Loading
<1>18. EntriesOk(pml4, DOMAIN pte)'
  BY <1>2 DEF EntriesOk, PagesInv
<1> QED BY <1>14, <1>15, <1>17, <1>18 DEF PagesInv

LEMMA PageHandedOver ==
    ASSUME ShapeInv, PagesInv, PagesStill, Depth >= 2, Kept(Depth - 2, Depth - 1),
           Top.fn = "alloc_pages", Top.got # 0, CallOk(calls[cur][Depth - 1], Top),
           Same(calls[cur][Depth - 1], calls'[cur][Depth - 1]),
           calls'[cur][Depth - 1].at = calls[cur][Depth - 1].at,
           calls'[cur][Depth - 1].got = Top.got
    PROVE  PagesInv'
<1> DEFINE k == Depth - 2
           m == Depth - 1
           d == Depth
           f == calls[cur][Depth - 1]
           g == calls'[cur][Depth - 1]
<1>1. d \in Nat /\ d >= 2 /\ Top = calls[cur][d] /\ cur \in Tasks /\ d = Len(calls[cur])
  BY DepthFacts DEF ShapeInv
<1>2. /\ (\A i \in (k + 1) .. m : i = m) /\ Kept(k, m) /\ m \in 1 .. d /\ m # d /\ m < d /\ d \in 1 .. d
      /\ (k = 0 => m = 1) /\ m \in 1 .. Len(calls[cur]) /\ d = Depth /\ m >= 1 /\ Len(calls'[cur]) = m
      /\ f = calls[cur][m] /\ g = calls'[cur][m] /\ ~ (d \in 1 .. m)
  BY <1>1 DEF Kept
<1>3. f.got = 0 /\ Same(f, g) /\ g.at = f.at /\ g.got = Top.got
  BY DEF CallOk
<1>4. Walked(f, pml4, DOMAIN pte) /\ Above(f, pml4, DOMAIN pte) /\ FrameOk(f)
  BY <1>1, <1>2 DEF PagesInv, WalkInv, ShapeInv, StackOk
<1>5. Walked(g, pml4, DOMAIN pte) /\ Above(g, pml4, DOMAIN pte)
  BY <1>3, <1>4 DEF Walked, Above, Loads, HoldsPhy, Same
<1>6. HoldsPhy(g) => HoldsPhy(f) /\ g.phy = f.phy
  BY <1>3 DEF HoldsPhy, Same
<1>7. HoldsGot(Top)
  BY DEF HoldsGot
<1> HIDE DEF k, m, d, f, g
<1>8. \A t, i, n : InGot(t, i, n, calls') =>
        \/ InGot(t, i, n, calls) /\ ~ (t = cur /\ i = d)
        \/ t = cur /\ i = m /\ n = Top.got
  <2>1. \A i \in (k + 1) .. m : HoldsGot(calls'[cur][i]) /\ i # m =>
             i \in 1 .. Depth /\ HoldsGot(calls[cur][i]) /\ calls'[cur][i].got = calls[cur][i].got
    BY <1>2
  <2>0. Kept(k, m)
    BY <1>2
  <2>2. \A t, i, n : InGot(t, i, n, calls') => InGot(t, i, n, calls) \/ (t = cur /\ i = m /\ m > k)
    BY <2>0, <2>1, GotStep
  <2>3. \A t, i, n : InGot(t, i, n, calls') /\ t = cur /\ i = m => n = Top.got
    BY <1>2, <1>3 DEF InGot
  <2>4. \A t, i, n : InGot(t, i, n, calls') => ~ (t = cur /\ i = d)
    BY <1>2 DEF InGot
  <2> QED BY <2>2, <2>3, <2>4
<1>9. \A t, i, n : InPhy(t, i, n, calls') => InPhy(t, i, n, calls)
  <2>1. \A i \in (k + 1) .. m : HoldsPhy(calls'[cur][i]) /\ i # 0 =>
             i \in 1 .. Depth /\ HoldsPhy(calls[cur][i]) /\ calls'[cur][i].phy = calls[cur][i].phy
    BY <1>2, <1>6
  <2>2. \A t, i, n : InPhy(t, i, n, calls') => InPhy(t, i, n, calls) \/ (t = cur /\ i = 0 /\ 0 > k)
    BY <1>2, <2>1, PhyStep
  <2>3. ~ (0 > k)
    BY <1>2 DEF Kept
  <2> QED BY <2>2, <2>3
<1>10. InGot(cur, d, Top.got, calls)
  BY <1>1, <1>2, <1>7 DEF InGot
<1>11. Passes("got", cur, d, "got", cur, m)
  <2>1. \A a, b, n : InTable(a, n, pml4') => InTable(a, n, pml4)
    BY DEF InTable, PagesStill, TablesStay, Maps
  <2>2. \A a, b, n : InEntry(a, b, n, pte') => InEntry(a, b, n, pte)
    BY DEF InEntry, PagesStill
  <2> QED BY <1>8, <1>9, <1>10, <2>1, <2>2 DEF Passes, HeldNext, Held, Holder
<1>12. HoldInv'
  BY <1>11, OneGives DEF PagesInv, PagesStill
<1>13. \A t \in Tasks : \A i \in 1 .. Len(calls[t]) :
         Walked(calls[t][i], pml4', DOMAIN pte') /\ Above(calls[t][i], pml4', DOMAIN pte')
  <2> SUFFICES ASSUME NEW t \in Tasks, NEW i \in 1 .. Len(calls[t])
               PROVE  Walked(calls[t][i], pml4', DOMAIN pte') /\ Above(calls[t][i], pml4', DOMAIN pte')
    OBVIOUS
  <2>1. calls[t][i] \in Frames /\ FrameOk(calls[t][i])
    BY DepthFacts DEF ShapeInv, StackOk
  <2>2. Walked(calls[t][i], pml4, DOMAIN pte) /\ Above(calls[t][i], pml4, DOMAIN pte)
    BY DEF PagesInv, WalkInv
  <2>3. Walked(calls[t][i], pml4', DOMAIN pte) /\ Above(calls[t][i], pml4', DOMAIN pte)
    BY <2>1, <2>2, WalkedStays DEF PagesStill
  <2> QED BY <2>3 DEF PagesStill
<1>14. Walked(g, pml4', DOMAIN pte') /\ Above(g, pml4', DOMAIN pte')
  <2>1. Walked(f, pml4', DOMAIN pte') /\ Above(f, pml4', DOMAIN pte')
    BY <1>1, <1>2, <1>13
  <2> QED BY <1>3, <2>1 DEF Walked, Above, Loads, HoldsPhy, Same
<1>15. WalkInv'
  BY <1>2, <1>13, <1>14, WalkStep
<1>16. Loading(calls) => Loading(calls')
  BY <1>2, <1>3, LoadingStep
<1>17. EmptyInv'
  BY <1>16 DEF EmptyInv, PagesInv, Loading, PagesStill, TablesStay
<1>18. EntriesOk(pml4, DOMAIN pte)'
  BY DEF EntriesOk, PagesInv, PagesStill, TablesStay
<1> QED BY <1>12, <1>15, <1>17, <1>18 DEF PagesInv

(* Who loads the program. *)
LEMMA LoaderFrames ==
    ASSUME ShapeInv, NEW t \in Tasks, NEW i \in 1 .. Len(calls[t]),
           Loads(calls[t][i]) \/ calls[t][i].fn \in {"map_page", "new_user_task"}
    PROVE  /\ t = kernel_thread /\ life = "none"
           /\ \/ i = 1 /\ calls[t][i].fn = "new_user_task"
              \/ i = 2 /\ calls[t][i].fn = "map_page"
<1>0. Len(calls[t]) \in Nat
  BY DepthFacts DEF ShapeInv
<1>1. /\ FrameOk(calls[t][i]) /\ (i = 1 => BottomOk(t, calls[t][i], life))
      /\ (i > 1 => CallOk(calls[t][i - 1], calls[t][i])) /\ calls[t][i] \in Frames
  BY DepthFacts DEF ShapeInv, StackOk
<1>2. calls[t][i].fn \in {"map_page", "new_user_task"}
  BY <1>1 DEF Loads, HoldsPhy, FrameOk, Frames, Functions
<1>3. CASE i = 1
  BY <1>1, <1>2, <1>3 DEF BottomOk
<1>4. CASE i > 1
  <2>1. calls[t][i].fn = "map_page" /\ calls[t][i - 1].fn = "new_user_task"
    BY <1>1, <1>2, <1>4 DEF CallOk
  <2> DEFINE j == i - 1
  <2>2. j \in 1 .. Len(calls[t]) /\ (j = 1 => i = 2) /\ j >= 1
    BY <1>0, <1>4
  <2>3. (j = 1 => BottomOk(t, calls[t][j], life)) /\ (j > 1 => CallOk(calls[t][j - 1], calls[t][j]))
    BY <2>2 DEF ShapeInv, StackOk
  <2>4. ~ (j > 1)
    BY <2>1, <2>3 DEF CallOk
  <2>5. j = 1
    BY <2>2, <2>4
  <2> QED BY <2>1, <2>2, <2>3, <2>5 DEF BottomOk
<1> QED BY <1>3, <1>4, <1>0

(* The table of the user's lower half is none of the kernel's. *)
LEMMA TablesDiffer ==
    ASSUME MapsInv, HoldInv, pml4["user_pagemap"]["low"] # 0, NEW s \in Slots
    PROVE  pml4["kernel_pagemap"][s] # pml4["user_pagemap"]["low"]
<1> DEFINE u == pml4["user_pagemap"]["low"]
<1>1. Held("table", "user_pagemap", 0, u)
  BY DEF Held, Holder, InTable, Maps
<1>2. PageOk("table", "user_pagemap", 0, u, granted)
  BY <1>1 DEF HoldInv
<1>3. u \in 3 .. granted
  BY <1>2 DEF PageOk
<1>4. CASE s = "low"
  <2>1. ASSUME pml4["kernel_pagemap"]["low"] = u PROVE FALSE
    <3>1. Held("table", "kernel_pagemap", 0, u)
      BY <2>1 DEF Held, Holder, InTable, Maps
    <3> HIDE DEF u
    <3>2. "user_pagemap" = "kernel_pagemap"
      BY <1>1, <3>1 DEF HoldInv
    <3> QED BY <3>2
  <2> QED BY <1>4, <2>1
<1>5. CASE s = "hhdm"
  BY <1>3, <1>5 DEF MapsInv, SlotsInv
<1>6. CASE s = "top"
  BY <1>3, <1>6 DEF MapsInv, SlotsInv
<1> QED BY <1>4, <1>5, <1>6 DEF Slots

(* Nothing is mapped in the user's lower half from the loader's address on. *)
LEMMA LoadPageAbove ==
    ASSUME ShapeInv, PagesInv, NEW f \in Frames, FrameOk(f), f.at = "pages", f.virt \in ProgramBytes,
           Above(f, pml4, DOMAIN pte), NEW g, g.virt = f.virt + PageSize \/ g.virt = f.virt
    PROVE  Above(g, pml4, DOMAIN pte)
<1>1. f.fn = "new_user_task"
  BY DEF FrameOk, Frames, Functions
<1>2. PageAligned(f.virt)
  BY <1>1 DEF FrameOk
<1>3. page(f.virt + PageSize) = page(f.virt) + 1 /\ page(f.virt) \in Nat
  BY <1>2, Aligned, PageBounds
<1>4. page(g.virt) \in Nat /\ page(g.virt) >= page(f.virt)
  BY <1>3
<1>5. ASSUME NEW a, NEW b, <<a, b>> \in DOMAIN pte, a = pml4["user_pagemap"]["low"] PROVE b < page(g.virt)
  <2>1. b < page(f.virt)
    BY <1>5 DEF Above, Loads
  <2>2. b \in Nat
    <3>1. PICK a1 \in Nat \ {0}, b1 \in Nat : <<a, b>> = <<a1, b1>>
      BY <1>5 DEF PagesInv, EntriesOk
    <3> QED BY <3>1
  <2> QED BY <1>3, <1>4, <2>1, <2>2
<1> QED BY <1>5 DEF Above

LEMMA PageLoaded ==
    ASSUME ShapeInv, PagesInv, LoadPage, Top.got # 0
    PROVE  PagesInv'
<1> DEFINE k == Depth - 1
           d == Depth
           m == Depth + 1
           g == calls'[cur][Depth]
           h == calls'[cur][Depth + 1]
<1>1. /\ Depth >= 1 /\ Top.fn = "new_user_task" /\ Top.at = "pages" /\ Top.virt \in ProgramBytes
      /\ Kept(Depth - 1, Depth + 1)
      /\ g.fn = "new_user_task" /\ g.at = "pages" /\ g.got = 0 /\ g.virt = Top.virt + PageSize
      /\ h.fn = "map_page" /\ h.at = "lock" /\ h.virt = Top.virt /\ h.phy = Top.got /\ h.got = 0
      /\ (Top.got = 0 => calls'[cur][Depth] = Top)
  <2>1. ~ (Top.got = 0)
    OBVIOUS
  <2> QED BY <2>1, LoadPageEffect DEF ShapeInv
<1>2. UNCHANGED <<pml4, pte, granted, life>> /\ calls[cur] # << >>
  BY DEF LoadPage, memory, In, Busy
<1>3. d \in Nat /\ d >= 1 /\ Top = calls[cur][d] /\ cur \in Tasks /\ d = Len(calls[cur])
      /\ Top \in Frames /\ FrameOk(Top)
  BY <1>2, TopFrame, DepthFacts DEF ShapeInv
<1>4. /\ (\A i \in (k + 1) .. m : i = d \/ i = m) /\ Kept(k, m) /\ d = Depth /\ d \in 1 .. d /\ m # d
      /\ d \in 1 .. Len(calls[cur]) /\ (k = 0 => d = 1) /\ m >= 1
  BY <1>1, <1>3
<1>5. Above(Top, pml4, DOMAIN pte)
  BY <1>3, <1>4 DEF PagesInv, WalkInv
<1>6. Above(g, pml4, DOMAIN pte) /\ Above(h, pml4, DOMAIN pte)
  BY <1>1, <1>3, <1>5, LoadPageAbove
<1>7. Walked(g, pml4, DOMAIN pte) /\ Walked(h, pml4, DOMAIN pte)
  BY <1>1 DEF Walked
<1>8. ~ HoldsGot(g) /\ ~ HoldsGot(h) /\ ~ HoldsPhy(g) /\ HoldsGot(Top)
  BY <1>1 DEF HoldsGot, HoldsPhy
<1>9. g = calls'[cur][d] /\ h = calls'[cur][m]
  OBVIOUS
<1> HIDE DEF k, d, m, g, h
<1>10. \A t, i, n : InGot(t, i, n, calls') => InGot(t, i, n, calls) /\ ~ (t = cur /\ i = d)
  <2>0. Kept(k, m)
    BY <1>4
  <2>1. \A i \in (k + 1) .. m : HoldsGot(calls'[cur][i]) /\ i # d =>
             i \in 1 .. Depth /\ HoldsGot(calls[cur][i]) /\ calls'[cur][i].got = calls[cur][i].got
    BY <1>4, <1>8, <1>9
  <2>2. \A t, i, n : InGot(t, i, n, calls') => InGot(t, i, n, calls) \/ (t = cur /\ i = d /\ d > k)
    BY <2>0, <2>1, GotStep
  <2>3. \A t, i, n : InGot(t, i, n, calls') => ~ (t = cur /\ i = d)
    BY <1>8, <1>9 DEF InGot
  <2> QED BY <2>2, <2>3
<1>11. \A t, i, n : InPhy(t, i, n, calls') =>
         InPhy(t, i, n, calls) \/ (t = cur /\ i = m /\ n = Top.got)
  <2>0. Kept(k, m)
    BY <1>4
  <2>1. \A i \in (k + 1) .. m : HoldsPhy(calls'[cur][i]) /\ i # m =>
             i \in 1 .. Depth /\ HoldsPhy(calls[cur][i]) /\ calls'[cur][i].phy = calls[cur][i].phy
    BY <1>4, <1>8, <1>9
  <2>2. \A t, i, n : InPhy(t, i, n, calls') => InPhy(t, i, n, calls) \/ (t = cur /\ i = m /\ m > k)
    BY <2>0, <2>1, PhyStep
  <2>3. \A t, i, n : InPhy(t, i, n, calls') /\ t = cur /\ i = m => n = Top.got
    BY <1>1, <1>9 DEF InPhy
  <2> QED BY <2>2, <2>3
<1>12. InGot(cur, d, Top.got, calls)
  BY <1>3, <1>4, <1>8 DEF InGot
<1>13. Passes("got", cur, d, "phy", cur, m)
  BY <1>2, <1>10, <1>11, <1>12 DEF Passes, HeldNext, Held, Holder
<1>14. HoldInv'
  <2>1. HoldInv /\ UNCHANGED granted
    BY <1>2 DEF PagesInv
  <2> QED BY <1>13, <2>1, OneGives
<1>15. WalkInv'
  <2>0. Kept(k, m)
    BY <1>4
  <2>1. \A t \in Tasks : \A i \in 1 .. Len(calls[t]) :
          Walked(calls[t][i], pml4', DOMAIN pte') /\ Above(calls[t][i], pml4', DOMAIN pte')
    BY <1>2 DEF PagesInv, WalkInv
  <2>2. \A i \in (k + 1) .. m :
          Walked(calls'[cur][i], pml4', DOMAIN pte') /\ Above(calls'[cur][i], pml4', DOMAIN pte')
    BY <1>2, <1>4, <1>6, <1>7, <1>9
  <2> QED BY <2>0, <2>1, <2>2, WalkStep
<1>16. Loading(calls) => Loading(calls')
  BY <1>1, <1>4, <1>9, LoadingStep
<1>17. EmptyInv'
  BY <1>2, <1>16 DEF EmptyInv, PagesInv, Loading
<1>18. EntriesOk(pml4, DOMAIN pte)'
  BY <1>2 DEF EntriesOk, PagesInv
<1> QED BY <1>14, <1>15, <1>17, <1>18 DEF PagesInv

(* Two walks that keep their locks are in different maps. *)
LEMMA OtherWalk ==
    ASSUME ShapeInv, LockInv, calls[cur] # << >>, Keeps(Top),
           NEW t \in Tasks, NEW i \in 1 .. Len(calls[t]), t # cur \/ i < Depth, Keeps(calls[t][i])
    PROVE  calls[t][i].lock # Top.lock
<1>1. Depth \in 1 .. Len(calls[cur]) /\ Top = calls[cur][Depth] /\ cur \in Tasks /\ Depth \in Nat
  BY TopFrame
<1>2. SUFFICES ASSUME calls[t][i].lock = Top.lock PROVE FALSE
  OBVIOUS
<1>3. keeper[Top.lock] = cur /\ keeper[calls[t][i].lock] = t
  BY <1>1 DEF LockInv
<1>4. t = cur
  BY <1>2, <1>3
<1>5. i = Depth
  BY <1>1, <1>2, <1>4 DEF LockInv
<1> QED BY <1>1, <1>4, <1>5

LEMMA SetTablePages ==
    ASSUME ShapeInv, LockInv, MapsInv, PagesInv, SetTable
    PROVE  PagesInv'
<1> DEFINE k == Depth - 1
           d == Depth
           g == calls'[cur][Depth]
<1>1. /\ Depth >= 1 /\ Kept(Depth - 1, Depth) /\ Same(Top, g) /\ Top.at = "table" /\ g.at = "body" /\ g.got = 0
  BY SetTableEffect DEF ShapeInv
<1>2. /\ calls[cur] # << >> /\ Top.lock \in Maps /\ Low(Top.virt) /\ slot(Top.virt) = "low"
      /\ Top.fn \in {"handle_page_fault", "map_page"} /\ Top.got \in Nat
      /\ pml4' = [pml4 EXCEPT ![Top.lock]["low"] = Top.got]
      /\ \A m \in Maps, s \in KernelSlots : pml4'[m][s] = pml4[m][s]
  BY SetTableIsLow
<1>3. UNCHANGED <<pte, granted, life>>
  BY DEF SetTable
<1>4. d \in Nat /\ d >= 1 /\ Top = calls[cur][d] /\ cur \in Tasks /\ d = Len(calls[cur])
      /\ FrameOk(Top) /\ d \in 1 .. Len(calls[cur])
  BY <1>2, TopFrame
<1>5. /\ (\A i \in (k + 1) .. d : i = d) /\ d = Depth /\ d \in 1 .. d
      /\ (\A i \in Nat : i <= k => i < d)
  BY <1>4
<1>20. Kept(k, d)
  BY <1>1
<1>6. Top.got # 0 /\ HoldsGot(Top)
  BY <1>1, <1>2, TopOk DEF ShapeInv, HoldsGot
<1>7. /\ pml4[Top.lock]["low"] = 0 /\ Above(Top, pml4, DOMAIN pte)
  BY <1>1, <1>4 DEF PagesInv, WalkInv, Walked
<1>8. /\ pml4'[Top.lock]["low"] = Top.got
      /\ \A m \in Maps : m # Top.lock => pml4'[m] = pml4[m]
  <2>1. pml4 \in [Maps -> [Slots -> Nat]] /\ "low" \in Slots
    BY DEF ShapeInv, TypeOK, Slots
  <2> QED BY <1>2, <2>1
<1>9. ~ HoldsGot(g) /\ (HoldsPhy(g) <=> HoldsPhy(Top)) /\ g.phy = Top.phy /\ g.virt = Top.virt
  BY <1>1, <1>2 DEF HoldsGot, HoldsPhy, Same
<1>10. g = calls'[cur][d]
  OBVIOUS
<1> HIDE DEF k, d, g
<1>11. \A t, i, n : InGot(t, i, n, calls') => InGot(t, i, n, calls) /\ ~ (t = cur /\ i = d)
  <2>1. \A i \in (k + 1) .. d : HoldsGot(calls'[cur][i]) /\ i # d =>
             i \in 1 .. Depth /\ HoldsGot(calls[cur][i]) /\ calls'[cur][i].got = calls[cur][i].got
    BY <1>5
  <2>2. \A t, i, n : InGot(t, i, n, calls') => InGot(t, i, n, calls) \/ (t = cur /\ i = d /\ d > k)
    BY <1>20, <2>1, GotStep
  <2>3. \A t, i, n : InGot(t, i, n, calls') => ~ (t = cur /\ i = d)
    BY <1>9, <1>10 DEF InGot
  <2> QED BY <2>2, <2>3
<1>12. \A t, i, n : InPhy(t, i, n, calls') => InPhy(t, i, n, calls)
  <2>1. \A i \in (k + 1) .. d : HoldsPhy(calls'[cur][i]) /\ i # 0 =>
             i \in 1 .. Depth /\ HoldsPhy(calls[cur][i]) /\ calls'[cur][i].phy = calls[cur][i].phy
    BY <1>4, <1>5, <1>9, <1>10
  <2>2. \A t, i, n : InPhy(t, i, n, calls') => InPhy(t, i, n, calls) \/ (t = cur /\ i = 0 /\ 0 > k)
    BY <1>20, <2>1, PhyStep
  <2>3. ~ (0 > k)
    BY <1>20 DEF Kept
  <2> QED BY <2>2, <2>3
<1>13. InGot(cur, d, Top.got, calls)
  BY <1>4, <1>6 DEF InGot
<1>14. \A m, n : InTable(m, n, pml4') => InTable(m, n, pml4) \/ (m = Top.lock /\ n = Top.got)
  BY <1>8 DEF InTable
<1>15. Passes("got", cur, d, "table", Top.lock, 0)
  BY <1>3, <1>11, <1>12, <1>13, <1>14 DEF Passes, HeldNext, Held, Holder
<1>16. HoldInv'
  BY <1>3, <1>15, OneGives DEF PagesInv
(* No entry is in the new table yet. *)
<1>17. \A a, b : <<a, b>> \in DOMAIN pte => a # Top.got
  <2> SUFFICES ASSUME NEW a, NEW b, <<a, b>> \in DOMAIN pte, a = Top.got PROVE FALSE
    OBVIOUS
  <2>1. a \in {1, 2} \/ a = pml4["kernel_pagemap"]["low"] \/ a = pml4["user_pagemap"]["low"]
    <3>1. PICK a1 \in Nat \ {0}, b1 \in Nat :
            /\ <<a, b>> = <<a1, b1>>
            /\ a1 \in {1, 2} \/ a1 = pml4["kernel_pagemap"]["low"] \/ a1 = pml4["user_pagemap"]["low"]
      BY DEF PagesInv, EntriesOk
    <3> QED BY <3>1
  <2>2. Held("got", cur, d, Top.got)
    BY <1>13 DEF Held, Holder
  <2>3. PageOk("got", cur, d, Top.got, granted)
    BY <2>2 DEF PagesInv, HoldInv
  <2>4. Top.got \in 3 .. granted
    BY <2>3 DEF PageOk
  <2>5. PICK m \in Maps : pml4[m]["low"] = Top.got
    BY <2>1, <2>4 DEF Maps
  <2>6. Held("table", m, 0, Top.got)
    BY <1>6, <2>5 DEF Held, Holder, InTable
  <2>7. "got" = "table"
    BY <2>2, <2>6 DEF PagesInv, HoldInv
  <2> QED BY <2>7
<1>18. \A f : Above(f, pml4, DOMAIN pte) => Above(f, pml4', DOMAIN pte')
  <2>1. CASE Top.lock = "user_pagemap"
    <3>1. pml4'["user_pagemap"]["low"] = Top.got
      BY <1>8, <2>1
    <3> QED BY <1>3, <1>17, <3>1 DEF Above
  <2>2. CASE Top.lock = "kernel_pagemap"
    <3>1. pml4'["user_pagemap"] = pml4["user_pagemap"]
      BY <1>8, <2>2 DEF Maps
    <3> QED BY <1>3, <3>1 DEF Above
  <2> QED BY <1>2, <2>1, <2>2 DEF Maps
<1>19. WalkInv'
  <2>1. ASSUME NEW t \in Tasks, NEW i \in 1 .. Len(calls[t]), t # cur \/ i <= k
        PROVE  Walked(calls[t][i], pml4', DOMAIN pte') /\ Above(calls[t][i], pml4', DOMAIN pte')
    <3>1. Walked(calls[t][i], pml4, DOMAIN pte) /\ Above(calls[t][i], pml4, DOMAIN pte)
      BY <2>1 DEF PagesInv, WalkInv
    <3>2. Above(calls[t][i], pml4', DOMAIN pte')
      BY <1>18, <3>1
    <3>3. CASE calls[t][i].at \notin {"table", "fill"}
      BY <3>2, <3>3 DEF Walked
    <3>4. CASE calls[t][i].at \in {"table", "fill"}
      <4>1. FrameOk(calls[t][i]) /\ calls[t][i] \in Frames
        BY <2>1, DepthFacts DEF ShapeInv, StackOk
      <4>2. calls[t][i].fn \in {"handle_page_fault", "map_page"}
        BY <3>4, <4>1 DEF FrameOk, Frames, Functions
      <4>3. calls[t][i].lock \in Maps
        BY <4>1, <4>2, WalkerLock
      <4>4. Keeps(calls[t][i]) /\ Keeps(Top)
        BY <1>1, <1>2, <3>4, <4>3 DEF Keeps, Maps, NoLock
      <4>5. t # cur \/ i < Depth
        BY <1>5, <2>1
      <4>6. calls[t][i].lock # Top.lock
        BY <1>2, <2>1, <4>4, <4>5, OtherWalk
      <4>7. pml4'[calls[t][i].lock] = pml4[calls[t][i].lock]
        BY <1>8, <4>3, <4>6
      <4> QED BY <1>3, <3>1, <3>2, <4>7 DEF Walked
    <3> QED BY <3>3, <3>4
  <2>2. Walked(g, pml4', DOMAIN pte') /\ Above(g, pml4', DOMAIN pte')
    <3>1. Above(g, pml4, DOMAIN pte)
      BY <1>1, <1>7, <1>9 DEF Above, Loads
    <3>2. Walked(g, pml4', DOMAIN pte')
      BY <1>1 DEF Walked
    <3> QED BY <1>18, <3>1, <3>2
  <2>3. \A i \in (k + 1) .. d :
          Walked(calls'[cur][i], pml4', DOMAIN pte') /\ Above(calls'[cur][i], pml4', DOMAIN pte')
    BY <1>5, <1>10, <2>2
  <2> QED BY <1>20, <2>1, <2>3, WalkStep
<1>21. EmptyInv'
  <2>1. Loading(calls) => Loading(calls')
    <3>1. k = 0 => d = 1
      BY <1>4 DEF k, d
    <3> QED BY <1>1, <1>4, <1>20, <3>1, LoadingStep
  <2>2. CASE Top.lock = "kernel_pagemap"
    <3>1. pml4'["user_pagemap"] = pml4["user_pagemap"]
      BY <1>8, <2>2 DEF Maps
    <3> QED BY <1>3, <2>1, <3>1 DEF EmptyInv, PagesInv, Loading
  <2>3. CASE Top.lock = "user_pagemap" /\ Top.fn = "handle_page_fault"
    <3>1. life' # "none"
      BY <1>2, <1>3, <2>3, UserFault
    <3> QED BY <3>1 DEF EmptyInv
  <2>4. CASE Top.fn = "map_page"
    <3>1. cur = kernel_thread /\ d = 2
      BY <1>4, <2>4, LoaderFrames
    <3>2. Depth > 1 /\ Depth - 1 = 1
      BY <1>5, <3>1
    <3>3. CallOk(calls[cur][1], Top)
      BY <1>2, <3>2, TopOk DEF ShapeInv
    <3>4. calls[cur][1].at = "pages"
      BY <2>4, <3>3 DEF CallOk
    <3>5. Loading(calls)
      BY <1>4, <3>1, <3>4 DEF Loading
    <3> QED BY <2>1, <3>5 DEF EmptyInv, Loading
  <2> QED BY <1>2, <2>2, <2>3, <2>4 DEF Maps
<1>22. EntriesOk(pml4', DOMAIN pte')
  <2> SUFFICES ASSUME NEW x \in DOMAIN pte
               PROVE  \E a \in Nat \ {0}, b \in Nat :
                        x = <<a, b>> /\ (a \in {1, 2} \/ a = pml4'["kernel_pagemap"]["low"]
                                                       \/ a = pml4'["user_pagemap"]["low"])
    BY <1>3 DEF EntriesOk
  <2>1. PICK a \in Nat \ {0}, b \in Nat :
          x = <<a, b>> /\ (a \in {1, 2} \/ a = pml4["kernel_pagemap"]["low"] \/ a = pml4["user_pagemap"]["low"])
    BY DEF PagesInv, EntriesOk
  <2>2. \A m \in Maps : pml4[m]["low"] = a => pml4'[m]["low"] = a
    BY <1>7, <1>8, <2>1
  <2>3. a \in {1, 2} \/ a = pml4'["kernel_pagemap"]["low"] \/ a = pml4'["user_pagemap"]["low"]
    BY <2>1, <2>2 DEF Maps
  <2> QED BY <2>1, <2>3
<1>23. EntriesOk(pml4, DOMAIN pte)'
  BY <1>22 DEF EntriesOk
<1> QED BY <1>16, <1>19, <1>21, <1>23 DEF PagesInv

-----------------------------------------------------------------------------
(* A new entry. *)

EntryAdded(a, b, n) ==
    /\ <<a, b>> \notin DOMAIN pte /\ DOMAIN pte' = DOMAIN pte \cup {<<a, b>>}
    /\ \A x \in DOMAIN pte : pte'[x] = pte[x]
    /\ pte'[<<a, b>>].phy = n

LEMMA SetEntryFacts ==
    ASSUME NEW m, NEW virt, NEW phy, NEW w, SetEntry(m, virt, phy, w), ~ Present(m, virt)
    PROVE  EntryAdded(pml4[m][slot(virt)], page(virt), phy)
<1> DEFINE e == Entry(m, virt)
           new == [phy |-> phy, writable |-> w]
<1>1. pte' = [x \in DOMAIN pte \cup {e} |-> IF x = e THEN new ELSE pte[x]] /\ e \notin DOMAIN pte
      /\ new.phy = phy
  BY DEF SetEntry, Present
<1>2. e = <<pml4[m][slot(virt)], page(virt)>>
  BY DEF Entry
<1> HIDE DEF e, new
<1>3. /\ e \notin DOMAIN pte /\ DOMAIN pte' = DOMAIN pte \cup {e}
      /\ \A x \in DOMAIN pte : pte'[x] = pte[x]
      /\ pte'[e].phy = phy
  BY <1>1
<1> QED BY <1>2, <1>3 DEF EntryAdded

LEMMA InEntryAdded ==
    ASSUME NEW a0, NEW b0, NEW n0, EntryAdded(a0, b0, n0)
    PROVE  \A a, b, n : InEntry(a, b, n, pte') => InEntry(a, b, n, pte) \/ (a = a0 /\ b = b0 /\ n = n0)
<1> SUFFICES ASSUME NEW a, NEW b, NEW n, InEntry(a, b, n, pte')
             PROVE  InEntry(a, b, n, pte) \/ (a = a0 /\ b = b0 /\ n = n0)
  OBVIOUS
<1>1. CASE <<a, b>> \in DOMAIN pte
  BY <1>1 DEF InEntry, EntryAdded
<1>2. CASE <<a, b>> = <<a0, b0>>
  <2>1. a = a0 /\ b = b0
    BY <1>2
  <2> QED BY <2>1 DEF InEntry, EntryAdded
<1> QED BY <1>1, <1>2 DEF InEntry, EntryAdded

(* The other walks and the loader do not mind: the others are in another map,  *)
(* and only the loader fills the user's lower half while it loads.             *)
LEMMA WalkAdded ==
    ASSUME ShapeInv, LockInv, MapsInv, PagesInv, UNCHANGED pml4, calls[cur] # << >>,
           Top.fn \in {"handle_page_fault", "map_page"}, Top.at \in {"body", "fill"},
           pml4[Top.lock][slot(Top.virt)] # 0, NEW n,
           EntryAdded(pml4[Top.lock][slot(Top.virt)], page(Top.virt), n),
           Kept(Depth - 1, Depth), calls'[cur][Depth].at = "unlock",
           Top.lock = "user_pagemap" => Low(Top.virt)
    PROVE  WalkInv' /\ EntriesOk(pml4, DOMAIN pte)'
<1> DEFINE T == pml4[Top.lock][slot(Top.virt)]
           B == page(Top.virt)
           U == pml4["user_pagemap"]["low"]
           k == Depth - 1
           d == Depth
<1>1. d \in Nat /\ d >= 1 /\ Top = calls[cur][d] /\ cur \in Tasks /\ d = Len(calls[cur])
      /\ FrameOk(Top) /\ d \in 1 .. Len(calls[cur]) /\ Top \in Frames
  BY TopFrame, DepthFacts DEF ShapeInv
<1>2. (\A i \in (k + 1) .. d : i = d) /\ d = Depth /\ (\A i \in Nat : i <= k => i < d)
  BY <1>1
<1>3. Kept(k, d)
  OBVIOUS
<1>4. Top.lock \in Maps /\ Keeps(Top)
  <2>1. Top.lock \in Maps
    BY <1>1, WalkerLock
  <2> QED BY <2>1 DEF Keeps, Maps, NoLock
<1>5. Top.lock = "user_pagemap" => Low(Top.virt) /\ slot(Top.virt) = "low" /\ T = U
  BY LowFacts
<1>6. slot(Top.virt) \in Slots
  BY SlotType
<1>7. Top.lock = "kernel_pagemap" => T # U
  BY <1>6, TablesDiffer DEF PagesInv
<1>8. T \in Nat /\ B \in Nat
  <2>1. pml4 \in [Maps -> [Slots -> Nat]]
    BY DEF ShapeInv, TypeOK
  <2>2. Top.virt \in Nat
    BY <1>1, LowFacts, HighFacts, KernelBytesAreHigh, ProgramBytesAreLow DEF FrameOk
  <2> QED BY <1>4, <1>6, <2>1, <2>2, PageBounds
<1>9. T # 0 /\ DOMAIN pte' = DOMAIN pte \cup {<<T, B>>}
  BY DEF EntryAdded
<1> HIDE DEF T, B, U, k, d
<1>10. ASSUME NEW t \in Tasks, NEW i \in 1 .. Len(calls[t]), t # cur \/ i <= k
       PROVE  Walked(calls[t][i], pml4', DOMAIN pte')
  <2>1. Walked(calls[t][i], pml4, DOMAIN pte)
    BY <1>10 DEF PagesInv, WalkInv
  <2>2. CASE calls[t][i].at # "fill"
    BY <2>1, <2>2 DEF Walked
  <2>3. CASE calls[t][i].at = "fill"
    <3> DEFINE f == calls[t][i]
               F == pml4[calls[t][i].lock][slot(calls[t][i].virt)]
    <3>1. FrameOk(f) /\ f \in Frames
      BY <1>10, DepthFacts DEF ShapeInv, StackOk
    <3>2. f.fn = "handle_page_fault"
      BY <2>3, <3>1 DEF FrameOk, Frames, Functions
    <3>3. f.lock \in Maps
      BY <3>1, <3>2, WalkerLock
    <3>4. Keeps(f)
      BY <2>3, <3>3 DEF Keeps, Maps, NoLock
    <3>5. t # cur \/ i < Depth
      BY <1>2, <1>10
    <3>6. f.lock # Top.lock
      BY <1>4, <1>10, <3>4, <3>5, OtherWalk
    <3>7. F # 0 /\ <<F, page(f.virt)>> \notin DOMAIN pte
      BY <2>1, <2>3 DEF Walked
    <3>8. f.lock = "user_pagemap" => slot(f.virt) = "low"
      BY <2>3, <3>1, <3>2, LowFacts DEF FrameOk
    <3>9. slot(f.virt) \in Slots
      BY SlotType
    <3>10. F # T
      <4>1. CASE f.lock = "user_pagemap"
        <5>1. F = U /\ Top.lock = "kernel_pagemap"
          BY <1>4, <3>6, <3>8, <4>1 DEF Maps, U
        <5> QED BY <1>7, <5>1
      <4>2. CASE f.lock = "kernel_pagemap"
        <5>1. T = U /\ U # 0
          BY <1>4, <1>5, <1>9, <3>6, <4>2 DEF Maps
        <5>2. pml4["kernel_pagemap"][slot(f.virt)] # U
          BY <3>9, <5>1, TablesDiffer DEF PagesInv, U
        <5> QED BY <4>2, <5>1, <5>2
      <4> QED BY <3>3, <4>1, <4>2 DEF Maps
    <3>11. <<F, page(f.virt)>> # <<T, B>>
      BY <3>10
    <3> QED BY <1>9, <2>3, <3>7, <3>11 DEF Walked
  <2> QED BY <2>2, <2>3
<1>11. ASSUME NEW t \in Tasks, NEW i \in 1 .. Len(calls[t]), t # cur \/ i <= k
       PROVE  Above(calls[t][i], pml4', DOMAIN pte')
  <2> DEFINE f == calls[t][i]
  <2>1. Above(f, pml4, DOMAIN pte)
    BY <1>11 DEF PagesInv, WalkInv
  <2>2. Loads(f) /\ T = U => B < page(f.virt)
    <3> SUFFICES ASSUME Loads(f), T = U PROVE B < page(f.virt)
      OBVIOUS
    <3>1. t = kernel_thread /\ life = "none" /\ (i = 1 \/ i = 2)
      BY <1>11, LoaderFrames
    <3>2. Top.lock = "user_pagemap" /\ Top.fn = "map_page"
      BY <1>4, <1>7, <3>1, UserFault DEF Maps
    <3>3. cur = kernel_thread /\ d = 2
      BY <1>1, <3>2, LoaderFrames
    <3>4. i = 1
      BY <1>11, <3>1, <3>3 DEF k, d
    <3>5. Depth > 1 /\ Depth - 1 = 1
      BY <1>2, <3>3
    <3>6. CallOk(calls[cur][1], Top)
      BY <3>5, TopOk DEF ShapeInv
    <3>7. f.virt = Top.virt + PageSize
      BY <3>1, <3>2, <3>3, <3>4, <3>6 DEF CallOk
    <3>8. PageAligned(Top.virt) /\ Top.virt \in ProgramBytes
      BY <1>1, <3>2 DEF FrameOk
    <3>9. page(f.virt) = B + 1
      BY <3>7, <3>8, Aligned DEF B
    <3> QED BY <1>8, <3>9
  <2>3. ASSUME NEW a, NEW b, <<a, b>> \in DOMAIN pte', a = U, Loads(f) PROVE b < page(f.virt)
    <3>1. CASE <<a, b>> \in DOMAIN pte
      BY <2>1, <2>3, <3>1 DEF Above, U
    <3>2. CASE <<a, b>> = <<T, B>>
      <4>1. a = T /\ b = B
        BY <3>2
      <4> QED BY <2>2, <2>3, <4>1
    <3> QED BY <1>9, <2>3, <3>1, <3>2
  <2> QED BY <2>3 DEF Above, U
<1>12. ASSUME NEW i \in (k + 1) .. d
       PROVE  Walked(calls'[cur][i], pml4', DOMAIN pte') /\ Above(calls'[cur][i], pml4', DOMAIN pte')
  <2>1. calls'[cur][i].at = "unlock"
    BY <1>2, <1>12
  <2> QED BY <2>1 DEF Walked, Above, Loads, HoldsPhy
<1>13. WalkInv'
  BY <1>3, <1>10, <1>11, <1>12, WalkStep
<1>14. EntriesOk(pml4', DOMAIN pte')
  <2> SUFFICES ASSUME NEW x \in DOMAIN pte'
               PROVE  \E a \in Nat \ {0}, b \in Nat :
                        x = <<a, b>> /\ (a \in {1, 2} \/ a = pml4'["kernel_pagemap"]["low"]
                                                       \/ a = pml4'["user_pagemap"]["low"])
    BY DEF EntriesOk
  <2>1. CASE x \in DOMAIN pte
    BY <2>1 DEF PagesInv, EntriesOk
  <2>2. CASE x = <<T, B>>
    <3>1. T \in {1, 2} \/ T = pml4["kernel_pagemap"]["low"] \/ T = pml4["user_pagemap"]["low"]
      <4>1. CASE Top.lock = "user_pagemap"
        BY <1>5, <4>1 DEF U
      <4>2. CASE Top.lock = "kernel_pagemap"
        BY <1>6, <4>2 DEF T, Slots, MapsInv, SlotsInv
      <4> QED BY <1>4, <4>1, <4>2 DEF Maps
    <3> QED BY <1>8, <1>9, <2>2, <3>1
  <2> QED BY <1>9, <2>1, <2>2
<1>15. EntriesOk(pml4, DOMAIN pte)'
  BY <1>14 DEF EntriesOk
<1> QED BY <1>13, <1>15

LEMMA TopLetsGo ==
    ASSUME ShapeInv, Depth >= 1, Kept(Depth - 1, Depth), Top.at # "pages",
           ~ HoldsGot(calls'[cur][Depth]), ~ HoldsPhy(calls'[cur][Depth])
    PROVE  /\ \A t, i, n : InGot(t, i, n, calls') => InGot(t, i, n, calls) /\ ~ (t = cur /\ i = Depth)
           /\ \A t, i, n : InPhy(t, i, n, calls') => InPhy(t, i, n, calls) /\ ~ (t = cur /\ i = Depth)
           /\ Loading(calls) => Loading(calls')
<1> DEFINE k == Depth - 1
           d == Depth
<1>1. d \in Nat /\ d >= 1 /\ Top = calls[cur][d]
  BY DepthFacts DEF ShapeInv
<1>2. (\A i \in (k + 1) .. d : i = d) /\ d = Depth /\ (k = 0 => d = 1)
  BY <1>1
<1>3. Kept(k, d) /\ ~ HoldsGot(calls'[cur][d]) /\ ~ HoldsPhy(calls'[cur][d])
  OBVIOUS
<1> HIDE DEF k, d
<1>4. \A t, i, n : InGot(t, i, n, calls') => InGot(t, i, n, calls) \/ (t = cur /\ i = d /\ d > k)
  <2>1. \A i \in (k + 1) .. d : HoldsGot(calls'[cur][i]) /\ i # d =>
             i \in 1 .. Depth /\ HoldsGot(calls[cur][i]) /\ calls'[cur][i].got = calls[cur][i].got
    BY <1>2
  <2> QED BY <1>3, <2>1, GotStep
<1>5. \A t, i, n : InGot(t, i, n, calls') => ~ (t = cur /\ i = d)
  BY <1>3 DEF InGot
<1>6. \A t, i, n : InPhy(t, i, n, calls') => InPhy(t, i, n, calls) \/ (t = cur /\ i = d /\ d > k)
  <2>1. \A i \in (k + 1) .. d : HoldsPhy(calls'[cur][i]) /\ i # d =>
             i \in 1 .. Depth /\ HoldsPhy(calls[cur][i]) /\ calls'[cur][i].phy = calls[cur][i].phy
    BY <1>2
  <2> QED BY <1>3, <2>1, PhyStep
<1>7. \A t, i, n : InPhy(t, i, n, calls') => ~ (t = cur /\ i = d)
  BY <1>3 DEF InPhy
<1>8. Loading(calls) => Loading(calls')
  BY <1>1, <1>2, <1>3, LoadingStep
<1> QED BY <1>2, <1>4, <1>5, <1>6, <1>7, <1>8

(* A page that a call had goes into an entry. *)
LEMMA PageEntered ==
    ASSUME ShapeInv, LockInv, MapsInv, PagesInv, UNCHANGED <<pml4, granted, life>>, calls[cur] # << >>,
           Top.fn \in {"handle_page_fault", "map_page"}, Top.at \in {"body", "fill"},
           pml4[Top.lock][slot(Top.virt)] # 0, NEW n0,
           EntryAdded(pml4[Top.lock][slot(Top.virt)], page(Top.virt), n0),
           Kept(Depth - 1, Depth), calls'[cur][Depth].at = "unlock", calls'[cur][Depth].fn = Top.fn,
           Top.fn = "map_page" \/ Top.at = "fill",
           NEW l0 \in {"got", "phy"}, Held(l0, cur, Depth, n0)
    PROVE  PagesInv'
<1> DEFINE T == pml4[Top.lock][slot(Top.virt)]
           B == page(Top.virt)
           g == calls'[cur][Depth]
<1>1. Depth >= 1 /\ EntryAdded(T, B, n0)
  BY TopFrame
<1>2. ~ HoldsGot(g) /\ ~ HoldsPhy(g) /\ Top.at # "pages"
  BY DEF HoldsGot, HoldsPhy
<1>0. Top.lock = "user_pagemap" => Low(Top.virt)
  BY TopFrame, ProgramBytesAreLow DEF FrameOk
<1>3. WalkInv' /\ EntriesOk(pml4, DOMAIN pte)'
  BY <1>0, WalkAdded
<1> HIDE DEF T, B, g
<1>4. /\ \A t, i, n : InGot(t, i, n, calls') => InGot(t, i, n, calls) /\ ~ (t = cur /\ i = Depth)
      /\ \A t, i, n : InPhy(t, i, n, calls') => InPhy(t, i, n, calls) /\ ~ (t = cur /\ i = Depth)
      /\ Loading(calls) => Loading(calls')
  BY <1>1, <1>2, TopLetsGo DEF g
<1>5. \A a, b, n : InEntry(a, b, n, pte') => InEntry(a, b, n, pte) \/ (a = T /\ b = B /\ n = n0)
  BY <1>1, InEntryAdded
<1>6. Passes(l0, cur, Depth, "entry", T, B)
  BY <1>4, <1>5 DEF Passes, HeldNext, Held, Holder
<1>7. HoldInv /\ UNCHANGED granted /\ l0 # "entry"
  BY DEF PagesInv
<1>8. HoldInv'
  BY <1>6, <1>7, OneGives
<1>9. EmptyInv'
  BY <1>4 DEF EmptyInv, PagesInv, Loading
<1> QED BY <1>3, <1>8, <1>9 DEF PagesInv

(* What FaultFills puts an entry for is not present yet. *)
LEMMA FillsAbsent ==
    ASSUME ShapeInv, PagesInv, FaultFills
    PROVE  ~ Present(Top.lock, Top.virt) /\ pml4[Top.lock][slot(Top.virt)] # 0
<1>1. calls[cur] # << >> /\ Top.at = "fill"
  BY DEF FaultFills, In, Busy
<1>2. Walked(Top, pml4, DOMAIN pte)
  BY <1>1, TopFrame DEF PagesInv, WalkInv
<1> QED BY <1>1, <1>2 DEF Walked, Present, Entry

LEMMA FaultFillsPages ==
    ASSUME ShapeInv, LockInv, MapsInv, PagesInv, FaultFills
    PROVE  PagesInv'
<1>1. /\ Kept(Depth - 1, Depth) /\ calls'[cur][Depth].at = "unlock" /\ Same(Top, calls'[cur][Depth])
      /\ Top.fn = "handle_page_fault" /\ Top.at = "fill"
  BY FaultFillsEffect DEF ShapeInv
<1>2. UNCHANGED <<pml4, granted, life>> /\ calls[cur] # << >> /\ SetEntry(Top.lock, Top.virt, Top.got, Top.writable)
  BY DEF FaultFills, In, Busy
<1>3. ~ Present(Top.lock, Top.virt) /\ pml4[Top.lock][slot(Top.virt)] # 0
  BY FillsAbsent
<1>4. EntryAdded(pml4[Top.lock][slot(Top.virt)], page(Top.virt), Top.got)
  BY <1>2, <1>3, SetEntryFacts
<1>5. HoldsGot(Top)
  BY <1>1, <1>2, TopOk DEF ShapeInv, HoldsGot
<1>6. Held("got", cur, Depth, Top.got)
  BY <1>2, <1>5, TopFrame DEF Held, Holder, InGot
<1>7. calls'[cur][Depth].fn = Top.fn
  BY <1>1 DEF Same
<1> QED BY <1>1, <1>2, <1>3, <1>4, <1>6, <1>7, PageEntered

(* Nor is what map_page maps. *)
LEMMA MapsAbsent ==
    ASSUME ShapeInv, PagesInv, MapPage
    PROVE  ~ Present(Top.lock, Top.virt)
<1>1. calls[cur] # << >> /\ Top.at = "body" /\ Top.fn = "map_page"
  BY DEF MapPage, HasTable, Walks, Busy
<1>2. Above(Top, pml4, DOMAIN pte)
  BY <1>1, TopFrame DEF PagesInv, WalkInv
<1>3. Top.lock = "user_pagemap" /\ slot(Top.virt) = "low" /\ page(Top.virt) \in Nat
  BY <1>1, TopFrame, ProgramBytesAreLow, LowFacts DEF FrameOk
<1>4. Loads(Top)
  BY <1>1 DEF Loads, HoldsPhy
<1>5. ASSUME Present(Top.lock, Top.virt) PROVE FALSE
  <2>1. page(Top.virt) < page(Top.virt)
    BY <1>2, <1>3, <1>4, <1>5 DEF Above, Present, Entry
  <2> QED BY <1>3, <2>1
<1> QED BY <1>5

LEMMA MapPagePages ==
    ASSUME ShapeInv, LockInv, MapsInv, PagesInv, MapPage
    PROVE  PagesInv'
<1>1. /\ Kept(Depth - 1, Depth) /\ calls'[cur][Depth].at = "unlock" /\ Same(Top, calls'[cur][Depth])
      /\ Top.fn = "map_page" /\ Top.at = "body" /\ pml4[Top.lock][slot(Top.virt)] # 0
  BY MapPageEffect DEF ShapeInv
<1>2. UNCHANGED <<pml4, granted, life>> /\ calls[cur] # << >> /\ SetEntry(Top.lock, Top.virt, Top.phy, Top.writable)
  BY DEF MapPage, HasTable, Walks, Busy
<1>3. ~ Present(Top.lock, Top.virt)
  BY MapsAbsent
<1>4. EntryAdded(pml4[Top.lock][slot(Top.virt)], page(Top.virt), Top.phy)
  BY <1>2, <1>3, SetEntryFacts
<1>5. HoldsPhy(Top)
  BY <1>1 DEF HoldsPhy
<1>6. Held("phy", cur, Depth, Top.phy)
  BY <1>2, <1>5, TopFrame DEF Held, Holder, InPhy
<1>7. calls'[cur][Depth].fn = Top.fn
  BY <1>1 DEF Same
<1> QED BY <1>1, <1>2, <1>3, <1>4, <1>6, <1>7, PageEntered

(* The device's page is no page of the manager. *)
LEMMA DirectPages ==
    ASSUME ShapeInv, LockInv, MapsInv, PagesInv, FaultServed,
           addr_to_range(Top.lock, Top.virt) # NoRange,
           addr_to_range(Top.lock, Top.virt).type # "ANONYMOUS"
    PROVE  PagesInv'
<1> DEFINE T == pml4[Top.lock][slot(Top.virt)]
           B == page(Top.virt)
           g == calls'[cur][Depth]
<1>1. /\ Depth >= 1 /\ Top.at = "body" /\ Top.fn = "handle_page_fault"
      /\ T # 0 /\ ~ Present(Top.lock, Top.virt)
      /\ SetEntry(Top.lock, Top.virt, -page(Top.virt), addr_to_range(Top.lock, Top.virt).writable)
      /\ Kept(Depth - 1, Depth) /\ Same(Top, g) /\ g.at = "unlock"
  BY FaultServedEffect DEF ShapeInv
<1>2. UNCHANGED <<pml4, granted, life>> /\ calls[cur] # << >>
  BY DEF FaultServed, HasTable, Walks, Busy
<1>3. FrameOk(Top) /\ granted \in Nat
  BY <1>2, TopFrame DEF ShapeInv, TypeOK
<1>4. Top.lock = "kernel_pagemap" /\ Top.virt = first_byte(DevicePage)
  <2>1. Top.lock = "kernel_pagemap" \/ Top.lock = "user_pagemap"
    BY <1>1, <1>3 DEF FrameOk
  <2>2. Top.lock # "user_pagemap"
    BY RangeFacts DEF ShapeInv, Maps
  <2>3. Low(Top.virt) \/ High(Top.virt)
    BY <1>1, <1>3, <2>2 DEF FrameOk
  <2>4. ~ Low(Top.virt) /\ Top.virt \notin HeapBytes
    BY <2>1, <2>2, RangeFacts DEF ShapeInv, Maps
  <2> QED BY <2>1, <2>2, <2>3, <2>4 DEF High
<1>5. T = 1 /\ B = DevicePage
  BY <1>4, HighFacts DEF High, MapsInv, SlotsInv
<1>6. EntryAdded(T, B, -B)
  BY <1>1, SetEntryFacts
<1>7. WalkInv' /\ EntriesOk(pml4, DOMAIN pte)'
  BY <1>1, <1>2, <1>4, <1>6, WalkAdded
<1>8. ~ HoldsGot(g) /\ ~ HoldsPhy(g) /\ Top.at # "pages"
  BY <1>1 DEF HoldsGot, HoldsPhy, Same
<1>9. /\ \A t, i, n : InGot(t, i, n, calls') => InGot(t, i, n, calls)
      /\ \A t, i, n : InPhy(t, i, n, calls') => InPhy(t, i, n, calls)
      /\ Loading(calls) => Loading(calls')
  BY <1>1, <1>8, TopLetsGo
<1> HIDE DEF T, B, g
<1>10. EntryAdded(1, DevicePage, -DevicePage)
  BY <1>5, <1>6
<1>11. \A a, b, n : InEntry(a, b, n, pte') => InEntry(a, b, n, pte) \/ (a = 1 /\ b = DevicePage /\ n = -DevicePage)
  BY <1>10, InEntryAdded
<1>12. \A l, a, b, n : HeldNext(l, a, b, n) =>
         Held(l, a, b, n) \/ (l = "entry" /\ a = 1 /\ b = DevicePage /\ n = -DevicePage)
  BY <1>2, <1>9, <1>11 DEF HeldNext, Held, Holder
<1>13. \A l, a, b : ~ Held(l, a, b, -DevicePage)
  <2> SUFFICES ASSUME NEW l, NEW a, NEW b, Held(l, a, b, -DevicePage) PROVE FALSE
    OBVIOUS
  <2>1. PageOk(l, a, b, -DevicePage, granted)
    BY DEF PagesInv, HoldInv
  <2>2. ~ (-DevicePage \in 3 .. granted)
    BY <1>3 DEF DevicePage
  <2>3. -DevicePage # -ImagePage
    BY DEF DevicePage, ImagePage
  <2>4. l = "entry" /\ a = 1 /\ b = DevicePage
    BY <2>1, <2>2, <2>3 DEF PageOk
  <2>5. <<1, DevicePage>> \in DOMAIN pte
    BY <2>4 DEF Held, Holder, InEntry
  <2> QED BY <1>10, <2>5 DEF EntryAdded
<1>14. PageOk("entry", 1, DevicePage, -DevicePage, granted')
  BY DEF PageOk
<1>15. HoldInv'
  <2>1. HoldInv /\ granted \in Nat /\ granted' \in Nat /\ granted' >= granted
    BY <1>2, <1>3 DEF PagesInv
  <2> QED BY <1>12, <1>13, <1>14, <2>1, OneGains
<1>16. EmptyInv'
  BY <1>2, <1>9 DEF EmptyInv, PagesInv, Loading
<1> QED BY <1>7, <1>15, <1>16 DEF PagesInv

-----------------------------------------------------------------------------
(* Every other step leaves the pages where they are. *)

LEMMA NextFrames ==
    ASSUME ShapeInv, ShapeInv', UNCHANGED cur, NEW k, NEW m, Kept(k, m), NEW i \in 1 .. m
    PROVE  FrameOk(calls'[cur][i])
<1>1. Len(calls'[cur]) = m /\ cur \in Tasks
  BY DepthFacts DEF Kept, ShapeInv
<1>2. StackOk(cur)'
  BY <1>1 DEF ShapeInv
<1> QED BY <1>1, <1>2 DEF StackOk

LEMMA NewPlain == Plain(alloc_pages) /\ Plain(printf(NoAddress)) /\ Plain(map_kernel)
BY NewFrames DEF Plain, HoldsGot, HoldsPhy

LEMMA lockPages ==
    ASSUME ShapeInv, ShapeInv', PagesInv, lock
    PROVE  PagesInv'
<1> DEFINE g == calls'[cur][Depth]
<1>1. /\ Depth >= 1 /\ Kept(Depth - 1, Depth) /\ Top.at = "lock" /\ Same(Top, g) /\ g.at = "body"
      /\ g.got = Top.got
  BY lockEffect DEF ShapeInv
<1>2. PagesStill /\ UNCHANGED cur /\ calls[cur] # << >>
  BY DEF lock, memory, PagesStill, TablesStay, lockable, Busy
<1>3. Depth \in 1 .. Depth /\ FrameOk(Top)
  BY <1>2, TopFrame
<1>4. FrameOk(g)
  BY <1>1, <1>2, <1>3, NextFrames
<1>5. ~ HoldsGot(g)
  BY <1>1, <1>3 DEF HoldsGot, FrameOk, Same
<1>6. HoldsPhy(g) => HoldsPhy(Top) /\ g.phy = Top.phy /\ g.virt = Top.virt
  BY <1>1 DEF HoldsPhy, Same
<1> QED BY <1>1, <1>2, <1>4, <1>5, <1>6, PagesMoves

LEMMA unlockPages ==
    ASSUME ShapeInv, ShapeInv', PagesInv, unlock
    PROVE  PagesInv'
<1> DEFINE g == calls'[cur][Depth]
<1>1. PagesStill /\ UNCHANGED cur /\ calls[cur] # << >>
  BY DEF unlock, memory, PagesStill, TablesStay, Busy
<1>2. Depth \in 1 .. Depth /\ FrameOk(Top) /\ Depth >= 1
  BY <1>1, TopFrame
<1>3. Top.at \in {"unlock", "unlock_failed"} /\ Top.at # "pages"
  BY unlockEffect DEF ShapeInv
<1>4. CASE /\ Top.fn = "alloc_pages" /\ Depth >= 2 /\ Kept(Depth - 2, Depth - 1)
           /\ Same(calls[cur][Depth - 1], calls'[cur][Depth - 1])
           /\ calls'[cur][Depth - 1].at = calls[cur][Depth - 1].at
           /\ calls'[cur][Depth - 1].got = Top.got
           /\ CallOk(calls[cur][Depth - 1], Top)
  <2>1. Top.got # 0
    BY <1>2, <1>3, <1>4 DEF FrameOk
  <2> QED BY <1>1, <1>4, <2>1, PageHandedOver
<1>5. CASE /\ Top.fn = "handle_page_fault" /\ Kept(Depth - 1, Depth)
           /\ Same(Top, g) /\ g.at = IF Top.at = "unlock" THEN "iret" ELSE "exception"
  <2>1. FrameOk(g)
    BY <1>1, <1>2, <1>5, NextFrames
  <2>2. g.at \in {"iret", "exception"} /\ g.fn = "handle_page_fault"
    BY <1>5 DEF Same
  <2>3. ~ HoldsGot(g) /\ ~ HoldsPhy(g) /\ g.at \notin {"table", "fill", "pages"}
    BY <2>2 DEF HoldsGot, HoldsPhy
  <2> QED BY <1>1, <1>2, <1>3, <1>5, <2>1, <2>3, PagesMoves
<1>6. CASE Kept(Depth - 1, Depth - 1)
  BY <1>1, <1>2, <1>3, <1>6, PagesReturns
<1> QED BY <1>4, <1>5, <1>6, unlockEffect DEF ShapeInv

LEMMA KernelTouchPages ==
    ASSUME ShapeInv, ShapeInv', PagesInv, KernelTouch
    PROVE  PagesInv'
<1> DEFINE g == calls'[cur][Depth]
           d == Depth
           m == Depth + 1
<1>1. PagesStill /\ UNCHANGED cur /\ calls[cur] # << >>
  BY DEF KernelTouch, memory, PagesStill, TablesStay, Busy
<1>2. Depth \in 1 .. Depth /\ FrameOk(Top) /\ Depth >= 1 /\ Depth \in Nat
  BY <1>1, TopFrame
<1>3. Top.at = "body" /\ Top.fn \in {"heap", "printf", "access"}
  BY KernelTouchEffect DEF ShapeInv
<1>4. CASE Kept(Depth - 1, Depth - 1)
  BY <1>1, <1>2, <1>3, <1>4, PagesReturns
<1>5. CASE Kept(Depth - 1, Depth) /\ Same(Top, g) /\ g.at = "unlock"
  <2>1. FrameOk(g)
    BY <1>1, <1>2, <1>5, NextFrames
  <2>2. ~ HoldsGot(g) /\ ~ HoldsPhy(g)
    BY <1>3, <1>5 DEF HoldsGot, HoldsPhy, Same
  <2> QED BY <1>1, <1>2, <1>3, <1>5, <2>1, <2>2, PagesMoves
<1>6. CASE Kept(Depth, Depth + 1) /\ calls'[cur][Depth + 1] = Fault("kernel_pagemap", Top.virt, FALSE)
  <2> DEFINE fault == Fault("kernel_pagemap", Top.virt, FALSE)
  <2>1. fault.fn = "handle_page_fault" /\ fault.at = "lock" /\ fault.got = 0
    BY KernelFault
  <2>2. calls'[cur][m] = fault
    BY <1>6
  <2>3. (\A i \in (d + 1) .. m : i = m) /\ Kept(d, m) /\ m \in 1 .. m /\ d # 0
    BY <1>2, <1>6
  <2> HIDE DEF fault, m, d
  <2>4. Plain(calls'[cur][m])
    BY <2>1, <2>2 DEF Plain, HoldsGot, HoldsPhy
  <2>5. FrameOk(calls'[cur][m])
    BY <1>1, <2>3, NextFrames
  <2>6. ~ HoldsGot(calls'[cur][m]) /\ ~ HoldsPhy(calls'[cur][m])
        /\ Walked(calls'[cur][m], pml4, DOMAIN pte) /\ Above(calls'[cur][m], pml4, DOMAIN pte)
    BY <2>4, PlainFacts
  <2> QED BY <1>1, <2>3, <2>5, <2>6, PagesStep DEF PagesStill
<1> QED BY <1>4, <1>5, <1>6, KernelTouchEffect DEF ShapeInv

LEMMA NextLevelPages ==
    ASSUME ShapeInv, ShapeInv', MapsInv, PagesInv, page_table_next_level
    PROVE  PagesInv'
<1> DEFINE g == calls'[cur][Depth]
           h == calls'[cur][Depth + 1]
<1>1. PagesStill /\ UNCHANGED cur /\ calls[cur] # << >>
  BY DEF page_table_next_level, memory, PagesStill, TablesStay, Walks, Busy
<1>2. Depth \in 1 .. Depth + 1 /\ Depth + 1 \in 1 .. Depth + 1 /\ FrameOk(Top)
      /\ Depth \in 1 .. Len(calls[cur]) /\ Top = calls[cur][Depth] /\ cur \in Tasks
  BY <1>1, TopFrame
<1>3. /\ Depth >= 1 /\ Top.at = "body" /\ Top.fn \in {"handle_page_fault", "map_page"}
      /\ pml4[Top.lock][slot(Top.virt)] = 0
      /\ Kept(Depth - 1, Depth + 1) /\ Same(Top, g) /\ g.at = "table" /\ g.got = Top.got
      /\ h = alloc_pages
  BY NextLevelEffect DEF ShapeInv
<1>4. slot(Top.virt) = "low" /\ Top.got = 0
  BY <1>2, <1>3, WalkIsLow, LowFacts DEF FrameOk
<1>5. Walked(g, pml4, DOMAIN pte)
  BY <1>3, <1>4 DEF Walked, Same
<1>6. ~ HoldsGot(g) /\ (HoldsPhy(g) => HoldsPhy(Top) /\ g.phy = Top.phy)
  BY <1>3, <1>4 DEF HoldsGot, HoldsPhy, Same
<1>7. Above(Top, pml4, DOMAIN pte)
  BY <1>2 DEF PagesInv, WalkInv
<1>8. Above(g, pml4, DOMAIN pte)
  BY <1>3, <1>6, <1>7 DEF Above, Loads, Same
<1>9. FrameOk(g) /\ FrameOk(h)
  BY <1>1, <1>2, <1>3, NextFrames
<1>10. Plain(h) /\ Top.at # "pages"
  BY <1>3, NewPlain
<1> QED BY <1>1, <1>3, <1>5, <1>6, <1>8, <1>9, <1>10, PagesCalls

LEMMA FaultServedPages ==
    ASSUME ShapeInv, ShapeInv', LockInv, MapsInv, PagesInv, FaultServed
    PROVE  PagesInv'
<1> DEFINE g == calls'[cur][Depth]
           h == calls'[cur][Depth + 1]
<1>1. UNCHANGED <<pml4, granted, life, cur>> /\ calls[cur] # << >>
  BY DEF FaultServed, HasTable, Walks, Busy
<1>2. Depth \in 1 .. Depth + 1 /\ Depth + 1 \in 1 .. Depth + 1 /\ FrameOk(Top)
  BY <1>1, TopFrame
<1>3. /\ Depth >= 1 /\ Top.at = "body" /\ Top.fn = "handle_page_fault"
      /\ pml4[Top.lock][slot(Top.virt)] # 0 /\ ~ Present(Top.lock, Top.virt)
  BY FaultServedEffect DEF ShapeInv
<1>4. CASE /\ UNCHANGED pte /\ Kept(Depth - 1, Depth + 1) /\ Same(Top, g) /\ g.at = "fill"
           /\ g.got = Top.got /\ h = alloc_pages
  <2>1. PagesStill
    BY <1>1, <1>4 DEF PagesStill, TablesStay
  <2>2. ~ HoldsGot(g) /\ ~ HoldsPhy(g)
    BY <1>2, <1>3, <1>4 DEF HoldsGot, HoldsPhy, Same, FrameOk
  <2>3. Walked(g, pml4, DOMAIN pte)
    BY <1>3, <1>4 DEF Walked, Same, Present, Entry
  <2>4. Above(g, pml4, DOMAIN pte)
    BY <1>4, <2>2 DEF Above, Loads
  <2>5. FrameOk(g) /\ FrameOk(h)
    BY <1>1, <1>2, <1>4, NextFrames
  <2>6. Plain(h) /\ Top.at # "pages"
    BY <1>3, <1>4, NewPlain
  <2> QED BY <1>3, <1>4, <2>1, <2>2, <2>3, <2>4, <2>5, <2>6, PagesCalls
<1>5. CASE /\ addr_to_range(Top.lock, Top.virt) # NoRange
           /\ addr_to_range(Top.lock, Top.virt).type # "ANONYMOUS"
  BY <1>5, DirectPages
<1> QED BY <1>4, <1>5, FaultServedEffect DEF ShapeInv

(* When the loader begins with the program, nothing is in the lower half.      *)
LEMMA NothingLoaded ==
    ASSUME ShapeInv, PagesInv, calls[cur] # << >>, Top.fn = "new_user_task", Top.at = "pml4"
    PROVE  \A a, b : <<a, b>> \in DOMAIN pte => a # pml4["user_pagemap"]["low"]
<1>1. Depth \in 1 .. Len(calls[cur]) /\ Top = calls[cur][Depth] /\ cur \in Tasks /\ Depth = Len(calls[cur])
  BY TopFrame
<1>2. cur = kernel_thread /\ life = "none" /\ Depth = 1
  BY <1>1, LoaderFrames
<1>3. ~ Loading(calls)
  BY <1>1, <1>2 DEF Loading
<1>4. pml4["user_pagemap"]["low"] = 0
  BY <1>2, <1>3 DEF PagesInv, EmptyInv
<1>5. ASSUME NEW a, NEW b, <<a, b>> \in DOMAIN pte PROVE a # 0
  <2>1. PICK a1 \in Nat \ {0}, b1 \in Nat : <<a, b>> = <<a1, b1>>
    BY <1>5 DEF PagesInv, EntriesOk
  <2> QED BY <2>1
<1> QED BY <1>4, <1>5

(* A loader that needs a page. *)
LEMMA LoaderCalls ==
    ASSUME ShapeInv, ShapeInv', PagesInv, PagesStill, UNCHANGED cur, calls[cur] # << >>,
           Kept(Depth - 1, Depth + 1), calls'[cur][Depth] = Top, calls'[cur][Depth + 1] = alloc_pages
    PROVE  PagesInv'
<1>1. Depth \in 1 .. Depth + 1 /\ Depth + 1 \in 1 .. Depth + 1 /\ Depth >= 1 /\ cur \in Tasks
      /\ Depth \in 1 .. Len(calls[cur]) /\ Top = calls[cur][Depth]
  BY TopFrame
<1>2. FrameOk(calls'[cur][Depth]) /\ FrameOk(calls'[cur][Depth + 1])
  BY <1>1, NextFrames
<1>3. Plain(calls'[cur][Depth + 1])
  BY NewPlain
<1>4. Walked(Top, pml4, DOMAIN pte) /\ Above(Top, pml4, DOMAIN pte)
  BY <1>1 DEF PagesInv, WalkInv
<1> QED BY <1>1, <1>2, <1>3, <1>4, PagesCalls

LEMMA NewPml4Pages ==
    ASSUME ShapeInv, ShapeInv', PagesInv, NewPml4
    PROVE  PagesInv'
<1> DEFINE g == calls'[cur][Depth]
           h == calls'[cur][Depth + 1]
<1>1. PagesStill /\ UNCHANGED cur /\ calls[cur] # << >>
  BY DEF NewPml4, memory, PagesStill, TablesStay, In, Busy
<1>2. Depth \in 1 .. Depth + 1 /\ Depth + 1 \in 1 .. Depth + 1
  BY <1>1, TopFrame
<1>3. Depth >= 1 /\ Top.fn = "new_user_task" /\ Top.at = "pml4" /\ Kept(Depth - 1, Depth + 1)
  BY NewPml4Effect DEF ShapeInv
<1>4. CASE g = Top /\ h = alloc_pages
  BY <1>1, <1>3, <1>4, LoaderCalls
<1>5. CASE Same(Top, g) /\ g.at = "pages" /\ g.got = 0 /\ h = map_kernel
  <2>1. ~ HoldsGot(g) /\ ~ HoldsPhy(g) /\ Walked(g, pml4, DOMAIN pte)
    BY <1>5 DEF HoldsGot, HoldsPhy, Walked
  <2>2. Above(g, pml4, DOMAIN pte)
    BY <1>1, <1>3, NothingLoaded DEF Above
  <2>3. FrameOk(g) /\ FrameOk(h)
    BY <1>1, <1>2, <1>3, NextFrames
  <2>4. Plain(h) /\ Top.at # "pages"
    BY <1>3, <1>5, NewPlain
  <2> QED BY <1>1, <1>3, <2>1, <2>2, <2>3, <2>4, PagesCalls
<1> QED BY <1>4, <1>5, NewPml4Effect DEF ShapeInv

LEMMA LoadPagePages ==
    ASSUME ShapeInv, ShapeInv', PagesInv, LoadPage
    PROVE  PagesInv'
<1>1. PagesStill /\ UNCHANGED cur /\ calls[cur] # << >>
  BY DEF LoadPage, memory, PagesStill, TablesStay, In, Busy
<1>2. CASE Top.got = 0
  BY <1>1, <1>2, LoadPageEffect, LoaderCalls DEF ShapeInv
<1>3. CASE Top.got # 0
  BY <1>3, PageLoaded
<1> QED BY <1>2, <1>3

LEMMA PagesNext ==
    ASSUME ShapeInv, ShapeInv', LockInv, MapsInv, PagesInv, [Next]_vars
    PROVE  PagesInv'
<1> DEFINE g == calls'[cur][Depth]
           h == calls'[cur][Depth + 1]
<1>1. CASE lock \/ unlock \/ KernelTouch
  BY <1>1, lockPages, unlockPages, KernelTouchPages
<1>2. CASE SpinTooMuch \/ \E t \in Tasks : Tick(t)
  <2>1. PagesStill /\ UNCHANGED calls
    BY <1>2 DEF SpinTooMuch, Tick, memory, PagesStill, TablesStay
  <2> QED BY <2>1, PagesStutters
<1>3. CASE TakePage \/ page_table_next_level \/ SetTable \/ MapPage \/ FaultServed \/ FaultFills
  BY <1>3, TakePagePages, NextLevelPages, SetTablePages, MapPagePages, FaultServedPages, FaultFillsPages
<1>4. CASE MapKernel \/ FaultFails
  <2>1. /\ Depth >= 1 /\ Kept(Depth - 1, Depth) /\ Top.fn \in {"map_kernel", "handle_page_fault"}
        /\ Top.at = "body" /\ Same(Top, g) /\ g.at \in {"unlock", "unlock_failed"}
    BY <1>4, MapKernelEffect, FaultFailsEffect DEF ShapeInv
  <2>2. TablesStay
    BY <1>4, MapKernelTypes DEF ShapeInv, TablesStay, FaultFails, memory
  <2>3. PagesStill /\ UNCHANGED cur /\ calls[cur] # << >>
    BY <1>4, <2>2 DEF MapKernel, FaultFails, memory, PagesStill, In, HasTable, Walks, Busy
  <2>4. Depth \in 1 .. Depth
    BY <2>3, TopFrame
  <2>5. FrameOk(g)
    BY <2>1, <2>3, <2>4, NextFrames
  <2>6. ~ HoldsGot(g) /\ ~ HoldsPhy(g)
    BY <2>1 DEF HoldsGot, HoldsPhy, Same
  <2> QED BY <2>1, <2>3, <2>5, <2>6, PagesMoves
<1>5. CASE iret \/ MmapAdds \/ Enqueue
  <2>1. Depth >= 1 /\ Kept(Depth - 1, Depth - 1)
    BY <1>5, ReturnsEffect DEF ShapeInv
  <2>2. PagesStill /\ (Top.at # "pages" \/ life' # "none")
    BY <1>5 DEF iret, MmapAdds, Enqueue, In, memory, PagesStill, TablesStay
  <2> QED BY <2>1, <2>2, PagesReturns
<1>6. CASE exception_handler
  <2>1. /\ Depth >= 1 /\ Kept(Depth - 1, Depth + 1) /\ Top.fn = "handle_page_fault" /\ Top.at = "exception"
        /\ Same(Top, g) /\ g.at = "end" /\ h = printf(NoAddress)
    BY <1>6, exception_handlerEffect DEF ShapeInv
  <2>2. PagesStill /\ UNCHANGED cur /\ calls[cur] # << >>
    BY <1>6 DEF exception_handler, memory, PagesStill, TablesStay, In, Busy
  <2>3. Depth \in 1 .. Depth + 1 /\ Depth + 1 \in 1 .. Depth + 1
    BY <2>2, TopFrame
  <2>4. FrameOk(g) /\ FrameOk(h)
    BY <2>1, <2>2, <2>3, NextFrames
  <2>5. Plain(g) /\ Plain(h)
    BY <2>1, NewPlain DEF Plain, HoldsGot, HoldsPhy, Same
  <2>6. ~ HoldsGot(g) /\ ~ HoldsPhy(g) /\ Walked(g, pml4, DOMAIN pte) /\ Above(g, pml4, DOMAIN pte)
    BY <2>5, PlainFacts
  <2> QED BY <2>1, <2>2, <2>4, <2>5, <2>6, PagesCalls
<1>7. CASE ExceptionEnds
  <2>1. PagesStill /\ UNCHANGED calls
    BY <1>7 DEF ExceptionEnds, memory, PagesStill, TablesStay
  <2> QED BY <2>1, PagesStutters
<1>8. CASE Begins \/ (\E virt \in UserBytes \cup KernelBytes, write \in BOOLEAN : UserTouch(virt, write))
  <2>1. /\ Depth = 0 /\ Kept(0, 1) /\ calls'[cur][1].got = 0
        /\ calls'[cur][1].fn \in {"heap", "printf", "access", "handle_page_fault"}
        /\ calls'[cur][1].at \in {"lock", "body", "unlock"}
    BY <1>8, BeginsEffect, UserTouchEffect DEF ShapeInv, FrameOk
  <2>2. PagesStill /\ UNCHANGED cur
    BY <1>8, BeginsEffect DEF ShapeInv, UserTouch, memory, PagesStill, TablesStay
  <2>3. \A i \in 1 .. 1 : i = 1
    OBVIOUS
  <2>4. \A i \in 1 .. 1 : FrameOk(calls'[cur][i])
    BY <2>1, <2>2, NextFrames
  <2>5. Plain(calls'[cur][1])
    BY <2>1 DEF Plain, HoldsGot, HoldsPhy
  <2> QED BY <2>1, <2>2, <2>3, <2>4, <2>5, PagesStarts
<1>9. CASE (\E length \in MmapLengths, w \in BOOLEAN : mmap(length, w)) \/ NewUserTask
  <2>1. /\ Depth = 0 /\ Kept(0, 2) /\ calls'[cur][1].at \in {"add", "pml4"} /\ calls'[cur][2].at = "lock"
        /\ calls'[cur][1].fn \in {"mmap", "new_user_task"} /\ calls'[cur][2].fn = "heap"
        /\ calls'[cur][1].got = 0 /\ calls'[cur][2].got = 0
    BY <1>9, mmapEffect, NewUserTaskEffect DEF ShapeInv
  <2>2. PagesStill /\ UNCHANGED cur
    BY <1>9 DEF mmap, NewUserTask, memory, PagesStill, TablesStay
  <2>3. \A i \in 1 .. 2 : i = 1 \/ i = 2
    OBVIOUS
  <2>4. \A i \in 1 .. 2 : FrameOk(calls'[cur][i])
    BY <2>1, <2>2, NextFrames
  <2>5. Plain(calls'[cur][1]) /\ Plain(calls'[cur][2])
    BY <2>1 DEF Plain, HoldsGot, HoldsPhy
  <2> QED BY <2>1, <2>2, <2>3, <2>4, <2>5, PagesStarts
<1>10. CASE NewPml4 \/ LoadPage
  BY <1>10, NewPml4Pages, LoadPagePages
<1>11. CASE UNCHANGED vars
  <2>1. PagesStill /\ UNCHANGED calls
    BY <1>11 DEF vars, PagesStill, TablesStay
  <2> QED BY <2>1, PagesStutters
<1> QED
  BY <1>1, <1>2, <1>3, <1>4, <1>5, <1>6, <1>7, <1>8, <1>9, <1>10, <1>11 DEF Next, Begins

LEMMA PagesInit ==
    ASSUME Init
    PROVE  PagesInv
<1>1. ASSUME NEW t \in Tasks, NEW i \in 1 .. Len(calls[t])
      PROVE  Plain(calls[t][i])
  <2>1. CASE t \in {kernel_thread, user}
    <3>1. calls[t] = << >>
      BY <2>1 DEF Init
    <3> QED BY <1>1, <3>1
  <2>2. CASE t \notin {kernel_thread, user}
    <3>1. calls[t] = <<printf(NoAddress)>>
      BY <2>2 DEF Init
    <3>2. calls[t][i] = printf(NoAddress)
      BY <1>1, <3>1
    <3> QED BY <3>2, NewPlain
  <2> QED BY <2>1, <2>2
<1>2. /\ DOMAIN pte = {<<2, ImagePage>>} /\ pte[<<2, ImagePage>>].phy = -ImagePage
      /\ pml4["user_pagemap"]["low"] = 0 /\ pml4["kernel_pagemap"]["low"] = 0
  BY DEF Init, Maps, Slots
<1>3. \A l, a, b, n : Held(l, a, b, n) => l = "entry" /\ a = 2 /\ b = ImagePage /\ n = -ImagePage
  <2>1. \A t, i, n : ~ InGot(t, i, n, calls) /\ ~ InPhy(t, i, n, calls)
    BY <1>1 DEF InGot, InPhy, Plain
  <2>2. \A m, n : ~ InTable(m, n, pml4)
    BY <1>2 DEF InTable, Maps
  <2>3. \A a, b, n : InEntry(a, b, n, pte) => a = 2 /\ b = ImagePage /\ n = -ImagePage
    BY <1>2 DEF InEntry
  <2> QED BY <2>1, <2>2, <2>3 DEF Held, Holder
<1>4. HoldInv
  BY <1>3 DEF HoldInv, PageOk
<1>5. EntriesOk(pml4, DOMAIN pte)
  BY <1>2 DEF EntriesOk, ImagePage
<1>6. WalkInv
  BY <1>1, PlainFacts DEF WalkInv
<1>7. EmptyInv
  BY <1>2 DEF EmptyInv
<1> QED BY <1>4, <1>5, <1>6, <1>7 DEF PagesInv

LEMMA InvariantStep ==
    ASSUME ShapeInv, InnerInv, MapsInv, PagesInv, [Next]_vars
    PROVE  ShapeInv' /\ InnerInv' /\ MapsInv' /\ PagesInv'
<1>1. ShapeInv' /\ InnerInv' /\ MapsInv'
  BY ShapeStep, InnerStep, MapsNext
<1> QED BY <1>1, PagesNext DEF InnerInv

(* Each page that was given away is with one holder at a time.                 *)
THEOREM PagesInvariance == Spec => [](ShapeInv /\ MapsInv /\ PagesInv)
<1>1. Init => ShapeInv /\ InnerInv /\ MapsInv /\ PagesInv
  BY ShapeInit, InnerInit, MapsInit, PagesInit
<1>2. ShapeInv /\ InnerInv /\ MapsInv /\ PagesInv /\ [Next]_vars =>
        ShapeInv' /\ InnerInv' /\ MapsInv' /\ PagesInv'
  BY InvariantStep
<1> QED BY <1>1, <1>2, PTL DEF Spec

LEMMA HoldersDiffer ==
    ASSUME ShapeInv, MapsInv, PagesInv
    PROVE  PagesServeOnce
<1> DEFINE k == pml4["kernel_pagemap"]
           u == pml4["user_pagemap"]["low"]
<1>1. HoldInv /\ EntriesOk(pml4, DOMAIN pte) /\ granted \in Nat /\ k["hhdm"] = 1 /\ k["top"] = 2
  BY DEF PagesInv, ShapeInv, TypeOK, MapsInv, SlotsInv
<1>2. ASSUME NEW x \in DOMAIN pte
      PROVE  \E a, b : x = <<a, b>> /\ Held("entry", a, b, pte[x].phy)
  <2>1. PICK a \in Nat \ {0}, b \in Nat : x = <<a, b>>
    BY <1>1, <1>2 DEF EntriesOk
  <2>2. InEntry(a, b, pte[x].phy, pte)
    BY <1>2, <2>1 DEF InEntry
  <2>3. Held("entry", a, b, pte[x].phy)
    BY <2>2 DEF Held, Holder
  <2> QED BY <2>1, <2>3
<1>3. ASSUME NEW x \in DOMAIN pte, NEW y \in DOMAIN pte, pte[x].phy = pte[y].phy
      PROVE  x = y
  <2>1. PICK a, b : x = <<a, b>> /\ Held("entry", a, b, pte[x].phy)
    BY <1>2, <1>3
  <2>2. PICK c, d : y = <<c, d>> /\ Held("entry", c, d, pte[x].phy)
    BY <1>2, <1>3
  <2>3. a = c /\ b = d
    BY <1>1, <2>1, <2>2 DEF HoldInv
  <2> QED BY <2>1, <2>2, <2>3
<1>4. \A m \in Maps : pml4[m]["low"] # 0 =>
        Held("table", m, 0, pml4[m]["low"]) /\ pml4[m]["low"] \in 3 .. granted
  <2> SUFFICES ASSUME NEW m \in Maps, pml4[m]["low"] # 0
               PROVE  Held("table", m, 0, pml4[m]["low"]) /\ pml4[m]["low"] \in 3 .. granted
    OBVIOUS
  <2>1. Held("table", m, 0, pml4[m]["low"])
    BY DEF Held, Holder, InTable
  <2>2. PageOk("table", m, 0, pml4[m]["low"], granted)
    BY <1>1, <2>1 DEF HoldInv
  <2> QED BY <2>1, <2>2 DEF PageOk
<1>5. k["low"] # 0 => k["low"] \in 3 .. granted
  BY <1>4 DEF Maps
<1>6. ASSUME NEW x \in DOMAIN pte
      PROVE  pte[x].phy \notin {0, 1, 2} /\ \A m \in Maps : pte[x].phy # pml4[m]["low"]
  <2>1. PICK a, b : Held("entry", a, b, pte[x].phy)
    BY <1>2, <1>6
  <2>2. PageOk("entry", a, b, pte[x].phy, granted)
    BY <1>1, <2>1 DEF HoldInv
  <2>3. pte[x].phy \notin {0, 1, 2}
    BY <1>1, <2>2 DEF PageOk, DevicePage, ImagePage
  <2>4. ASSUME NEW m \in Maps, pte[x].phy = pml4[m]["low"] PROVE FALSE
    <3>1. Held("table", m, 0, pte[x].phy)
      BY <1>4, <2>3, <2>4
    <3>2. "entry" = "table"
      BY <1>1, <2>1, <3>1 DEF HoldInv
    <3> QED BY <3>2
  <2> QED BY <2>3, <2>4
<1>7. \A x \in DOMAIN pte : pte[x].phy \notin {k[s] : s \in Slots} \cup {u}
  BY <1>1, <1>6 DEF Slots, Maps
<1>8. \A s, t \in Slots : k[s] = k[t] /\ s # t => k[s] = 0
  BY <1>1, <1>5 DEF Slots
<1>9. u # 0 => \A s \in Slots : k[s] # u
  BY <1>1, TablesDiffer
<1> QED BY <1>3, <1>7, <1>8, <1>9 DEF PagesServeOnce

(* PagesServeOnce for any tasks and sizes: a page of the physical memory       *)
(* manager is behind one address or is one table.                              *)
THEOREM PagesServe == Spec => []PagesServeOnce
<1>1. ShapeInv /\ MapsInv /\ PagesInv => PagesServeOnce
  BY HoldersDiffer
<1> QED BY <1>1, PagesInvariance, PTL

EntriesKept == \A x \in DOMAIN pte : x \in DOMAIN pte' /\ pte'[x] = pte[x]

LEMMA EntriesStep ==
    ASSUME ShapeInv, PagesInv, Next
    PROVE  EntriesKept
<1>1. ASSUME NEW m, NEW virt, NEW phy, NEW w, SetEntry(m, virt, phy, w), ~ Present(m, virt)
      PROVE  EntriesKept
  BY <1>1, SetEntryFacts DEF EntryAdded, EntriesKept
<1>2. ASSUME UNCHANGED pte PROVE EntriesKept
  BY <1>2 DEF EntriesKept
<1>3. CASE MapPage
  BY <1>1, <1>3, MapsAbsent DEF MapPage
<1>4. CASE FaultFills
  BY <1>1, <1>4, FillsAbsent DEF FaultFills
<1>5. CASE FaultServed
  BY <1>1, <1>2, <1>5 DEF FaultServed
<1>6. CASE \/ lock \/ SpinTooMuch \/ unlock \/ (\E t \in Tasks : Tick(t)) \/ KernelTouch
           \/ page_table_next_level \/ FaultFails \/ iret \/ exception_handler \/ ExceptionEnds
           \/ HeapCall \/ Prints \/ ReadsDevice \/ UsesBuffer
           \/ (\E virt \in UserBytes \cup KernelBytes, write \in BOOLEAN : UserTouch(virt, write))
           \/ (\E length \in MmapLengths, w \in BOOLEAN : mmap(length, w))
           \/ NewUserTask \/ NewPml4 \/ LoadPage
  <2>1. UNCHANGED pte
    BY <1>6 DEF lock, SpinTooMuch, unlock, Tick, KernelTouch, page_table_next_level, FaultFails, iret,
                exception_handler, ExceptionEnds, HeapCall, Prints, ReadsDevice, UsesBuffer, InKernel,
                UserTouch, mmap, NewUserTask, NewPml4, LoadPage, memory
  <2> QED BY <1>2, <2>1
<1>7. CASE TakePage \/ SetTable \/ MapKernel \/ MmapAdds \/ Enqueue
  <2>1. UNCHANGED pte
    BY <1>7 DEF TakePage, SetTable, MapKernel, MmapAdds, Enqueue
  <2> QED BY <1>2, <2>1
<1> QED BY <1>3, <1>4, <1>5, <1>6, <1>7 DEF Next

(* BackedOnce for any tasks and sizes: no fault handler and no loader, however *)
(* it was interrupted, changes an entry that is there.                         *)
THEOREM Backed == Spec => BackedOnce
<1>1. ShapeInv /\ PagesInv /\ [Next]_vars =>
        [\A x \in DOMAIN pte : x \in DOMAIN pte' /\ pte'[x] = pte[x]]_vars
  BY EntriesStep DEF EntriesKept
<1> QED BY <1>1, PagesInvariance, PTL DEF Spec, BackedOnce

=============================================================================
