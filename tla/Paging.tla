-------------------------------- MODULE Paging --------------------------------
(* Page maps, page faults and the spinlocks around them: src/mem/vmm.cpp, the  *)
(* fault handlers of src/cpu/interrupts/idt.cpp, src/klib/lock.hpp, and the    *)
(* code that runs under these locks: heap calls, printf, new_user_task, mmap.  *)
(* One processor runs tasks (the others are halted); a tick may switch tasks   *)
(* whenever the interrupt flag is set.                                         *)
EXTENDS Integers, Sequences

CONSTANTS
    Tasks,           \* kernel_thread, the user task and the kernel's test tasks
    kernel_thread,   \* the boot code and then the task that makes the user task
    user,            \* the user task
    NoTask,
    PageSize,        \* bytes in a page (4096 in the code)
    HeapPages,       \* pages of the kernel heap (2^18 in the code)
    ProgramPages,    \* pages of the program and its stack
    MmapLengths,     \* the lengths the program asks mmap for
    MaxRanges        \* bound: calls of mmap

ASSUME TasksAssumption ==
    /\ kernel_thread \in Tasks /\ user \in Tasks /\ kernel_thread # user
    /\ NoTask \notin Tasks
ASSUME SizesAssumption ==
    /\ PageSize \in Nat \ {0} /\ HeapPages \in Nat \ {0} /\ ProgramPages \in Nat
    /\ MmapLengths \subseteq Nat /\ MaxRanges \in Nat

VARIABLES
    pml4,            \* of each page map, the table each slot points to, or 0
    pte,             \* the entries of the tables: <<table, page>> -> entry
    granted,         \* pages the physical memory manager has given away
    ranges,          \* the range list of the user task, newest first
    mmap_anon_base,
    keeper,          \* who keeps each lock
    intr,            \* the interrupt flag
    cur,             \* the task the processor runs
    calls,           \* each task's calls in progress, innermost last
    life,            \* of the user task: "none", "alive" or "dead"
    status           \* "ok", or how the kernel stopped

vars == <<pml4, pte, granted, ranges, mmap_anon_base, keeper, intr, cur, calls, life, status>>
memory == <<pml4, pte, granted, ranges, mmap_anon_base>>

-----------------------------------------------------------------------------
(* The address space: user pages, a device in the direct map, the kernel's     *)
(* image and the heap. A slot of a pml4 covers many pages; the levels below it *)
(* are one table here.                                                         *)
Maps == {"kernel_pagemap", "user_pagemap"}
Locks == {"alloc_lock", "print_lock", "pmm_lock"} \cup Maps
Slots == {"low", "hhdm", "top"}
KernelSlots == {"hhdm", "top"}

DevicePage == 1000
ImagePage == 2000
HeapPage == 2002
page(virt) == virt \div PageSize
first_byte(p) == p * PageSize
slot(virt) == IF page(virt) >= ImagePage THEN "top"
              ELSE IF page(virt) >= DevicePage THEN "hhdm" ELSE "low"

HeapBytes == first_byte(HeapPage) .. (first_byte(HeapPage + HeapPages) - 1)
ProgramBytes == 0 .. (first_byte(ProgramPages) - 1)

align_up(n) == ((n + PageSize - 1) \div PageSize) * PageSize

LongestMmap == CHOOSE n \in {align_up(k) : k \in MmapLengths \cup {0}} :
                 \A k \in MmapLengths : align_up(k) <= n

(* What the program asks mmap for stays in the lower half. syscall_mmap itself *)
(* sets no limit.                                                              *)
ASSUME LowerHalfAssumption ==
    /\ LongestMmap \in Nat /\ \A k \in MmapLengths : align_up(k) <= LongestMmap
    /\ first_byte(ProgramPages) + MaxRanges * LongestMmap + PageSize <= first_byte(DevicePage)

(* heap_begin is the last byte before the heap that the allocator is given. *)
KernelRanges ==
    << [base |-> first_byte(HeapPage) - 1, length |-> HeapPages * PageSize,
        writable |-> TRUE, type |-> "ANONYMOUS"],
       [base |-> first_byte(DevicePage), length |-> PageSize,
        writable |-> TRUE, type |-> "DIRECT"] >>

range_list(m) == IF m = "kernel_pagemap" THEN KernelRanges ELSE ranges

(* The first range of the list that holds virt, or no range. *)
NoRange == [base |-> 0, length |-> 0, writable |-> FALSE, type |-> "none"]

HoldsExclusive(r, virt) == virt >= r.base /\ virt < r.base + r.length

Holds(r, virt) == virt >= r.base /\ virt <= r.base + r.length

addr_to_range(m, virt) ==
    LET found == {i \in DOMAIN range_list(m) : Holds(range_list(m)[i], virt)}
    IN  IF found = {} THEN NoRange
        ELSE range_list(m)[CHOOSE i \in found : \A j \in found : i <= j]

(* What the processor finds for virt through map m. *)
Entry(m, virt) == <<pml4[m][slot(virt)], page(virt)>>
Present(m, virt) == Entry(m, virt) \in DOMAIN pte
SetEntry(m, virt, phy, w) ==
    pte' = [x \in DOMAIN pte \cup {Entry(m, virt)} |->
              IF x = Entry(m, virt) THEN [phy |-> phy, writable |-> w] ELSE pte[x]]

pagemap(t) == IF t = user THEN "user_pagemap" ELSE "kernel_pagemap"

-----------------------------------------------------------------------------
(* Calls. `fn` is the function, `at` where it is, `lock` the lock it takes (of *)
(* a page map function also the map), `virt` the address it works on, `got`    *)
(* what its last alloc_pages returned, `phy` and `writable` the entry map_page *)
(* is to set; `user_mode` and `flag` are what a fault's frame saves.           *)
Call(fn, at, lock, virt) ==
    [fn |-> fn, at |-> at, lock |-> lock, virt |-> virt, got |-> 0, phy |-> 0,
     writable |-> FALSE, user_mode |-> FALSE, flag |-> TRUE]

NoAddress == -1
NoLock == "none"
Heap(virt) == Call("heap", "lock", "alloc_lock", virt)
printf(virt) == Call("printf", "lock", "print_lock", virt)
alloc_pages == Call("alloc_pages", "lock", "pmm_lock", NoAddress)
Fault(m, virt, um) ==
    [Call("handle_page_fault", "lock", m, virt) EXCEPT !.user_mode = um, !.flag = intr]
map_page(phy, virt, w) ==
    [Call("map_page", "lock", "user_pagemap", virt) EXCEPT !.phy = phy, !.writable = w]
map_kernel == Call("map_kernel", "lock", "user_pagemap", NoAddress)

Top == calls[cur][Len(calls[cur])]
Busy == status = "ok" /\ calls[cur] # << >>
Idle == status = "ok" /\ calls[cur] = << >>
In(fn, at) == Busy /\ Top.fn = fn /\ Top.at = at

Outer == SubSeq(calls[cur], 1, Len(calls[cur]) - 1)
Begin(f) == calls' = [calls EXCEPT ![cur] = Append(@, f)]
Continue(f) == calls' = [calls EXCEPT ![cur] = Append(Outer, f)]
CallFrom(f, g) == calls' = [calls EXCEPT ![cur] = Outer \o <<f, g>>]
Return == calls' = [calls EXCEPT ![cur] = Outer]
ReturnTo(f) == calls' = [calls EXCEPT ![cur] = Append(SubSeq(@, 1, Len(@) - 2), f)]

(* vmm::init has mapped the kernel's image and physical memory; a test task    *)
(* starts by printing and then only draws.                                     *)
Init ==
    /\ pml4 = [m \in Maps |->
                 [s \in Slots |-> IF m = "user_pagemap" \/ s = "low" THEN 0
                                  ELSE IF s = "hhdm" THEN 1 ELSE 2]]
    /\ pte = [x \in {<<2, ImagePage>>} |-> [phy |-> -ImagePage, writable |-> TRUE]]
    /\ granted = 2
    /\ ranges = << >>
    /\ mmap_anon_base = 0
    /\ keeper = [l \in Locks |-> NoTask]
    /\ intr = TRUE
    /\ cur = kernel_thread
    /\ calls = [t \in Tasks |-> IF t \in {kernel_thread, user} THEN << >> ELSE <<printf(NoAddress)>>]
    /\ life = "none"
    /\ status = "ok"

-----------------------------------------------------------------------------
(* Spinlock::lock and unlock. *)
lockable == Busy /\ Top.at = "lock" /\ keeper[Top.lock] = NoTask

lockInterruptible ==
    /\ lockable
    /\ keeper' = [keeper EXCEPT ![Top.lock] = cur]
    /\ Continue([Top EXCEPT !.at = "body"])
    /\ UNCHANGED <<memory, intr, cur, life, status>>

lock ==
    /\ lockable
    /\ keeper' = [keeper EXCEPT ![Top.lock] = cur]
    /\ intr' = FALSE
    /\ Continue([Top EXCEPT !.at = "body"])
    /\ UNCHANGED <<memory, cur, life, status>>

(* With interrupts off nobody else can run: the lock is never released. *)
SpinTooMuch ==
    /\ Busy /\ Top.at = "lock" /\ keeper[Top.lock] # NoTask
    /\ intr' = FALSE
    /\ status' = "spun too much"
    /\ UNCHANGED <<memory, keeper, cur, calls, life>>

(* The function's guard goes out of scope: alloc_pages hands its page to the   *)
(* caller, a fault handler has yet to return from the interrupt, and the rest  *)
(* return.                                                                     *)
unlock ==
    /\ Busy /\ Top.at \in {"unlock", "unlock_failed"}
    /\ keeper' = [keeper EXCEPT ![Top.lock] = NoTask]
    /\ intr' = TRUE
    /\ CASE Top.fn = "alloc_pages" ->
              ReturnTo([calls[cur][Len(calls[cur]) - 1] EXCEPT !.got = Top.got])
         [] Top.fn = "handle_page_fault" ->
              Continue([Top EXCEPT !.at = IF Top.at = "unlock" THEN "iret" ELSE "exception"])
         [] OTHER -> Return
    /\ UNCHANGED <<memory, cur, life, status>>

(* scheduler_isr: any other task of the run queue; Sched says which. *)
Tick(t) ==
    /\ status = "ok" /\ intr
    /\ t # cur /\ (t = user => life = "alive")
    /\ cur' = t
    /\ UNCHANGED <<memory, keeper, intr, calls, life, status>>

-----------------------------------------------------------------------------
(* The kernel touches an address through the page map of the task it runs in;  *)
(* the handler looks for it in the kernel's.                                   *)
KernelTouch ==
    /\ Busy /\ Top.at = "body" /\ Top.fn \in {"heap", "printf", "access"}
    /\ IF Top.virt = NoAddress \/ Present(pagemap(cur), Top.virt)
       THEN /\ IF Top.fn = "access" THEN Return ELSE Continue([Top EXCEPT !.at = "unlock"])
            /\ UNCHANGED intr
       ELSE /\ Begin(Fault("kernel_pagemap", Top.virt, FALSE))
            /\ intr' = FALSE
    /\ UNCHANGED <<memory, keeper, cur, life, status>>

TakePage ==
    /\ In("alloc_pages", "body")
    /\ granted' = granted + 1
    /\ Continue([Top EXCEPT !.at = "unlock", !.got = granted + 1])
    /\ UNCHANGED <<pml4, pte, ranges, mmap_anon_base, keeper, intr, cur, life, status>>

(* page_table_next_level, when there is no table yet: what it read is not read *)
(* again after alloc_pages.                                                    *)
Walks == Busy /\ Top.at = "body" /\ Top.fn \in {"handle_page_fault", "map_page"}

NeedsPage(f) == CallFrom(f, alloc_pages)

page_table_next_level ==
    /\ Walks /\ pml4[Top.lock][slot(Top.virt)] = 0
    /\ NeedsPage([Top EXCEPT !.at = "table"])
    /\ UNCHANGED <<memory, keeper, intr, cur, life, status>>

SetTable ==
    /\ Busy /\ Top.at = "table"
    /\ pml4' = [pml4 EXCEPT ![Top.lock][slot(Top.virt)] = Top.got]
    /\ Continue([Top EXCEPT !.at = "body", !.got = 0])
    /\ UNCHANGED <<pte, granted, ranges, mmap_anon_base, keeper, intr, cur, life, status>>

HasTable == Walks /\ pml4[Top.lock][slot(Top.virt)] # 0

MapPage ==
    /\ HasTable /\ Top.fn = "map_page"
    /\ SetEntry(Top.lock, Top.virt, Top.phy, Top.writable)
    /\ Continue([Top EXCEPT !.at = "unlock"])
    /\ UNCHANGED <<pml4, granted, ranges, mmap_anon_base, keeper, intr, cur, life, status>>

MapKernelImageOnly ==
    /\ In("map_kernel", "body")
    /\ pml4' = [pml4 EXCEPT !["user_pagemap"]["top"] = pml4["kernel_pagemap"]["top"]]
    /\ Continue([Top EXCEPT !.at = "unlock"])
    /\ UNCHANGED <<pte, granted, ranges, mmap_anon_base, keeper, intr, cur, life, status>>

MapKernel ==
    /\ In("map_kernel", "body")
    /\ pml4' = [pml4 EXCEPT !["user_pagemap"] =
                  [s \in Slots |-> IF s \in KernelSlots THEN pml4["kernel_pagemap"][s] ELSE @[s]]]
    /\ Continue([Top EXCEPT !.at = "unlock"])
    /\ UNCHANGED <<pte, granted, ranges, mmap_anon_base, keeper, intr, cur, life, status>>

(* The rest of handle_page_fault. *)
FaultFails ==
    /\ HasTable /\ Top.fn = "handle_page_fault"
    /\ Present(Top.lock, Top.virt) \/ addr_to_range(Top.lock, Top.virt) = NoRange
    /\ Continue([Top EXCEPT !.at = "unlock_failed"])
    /\ UNCHANGED <<memory, keeper, intr, cur, life, status>>

FaultServedAgain ==
    LET range == addr_to_range(Top.lock, Top.virt)
    IN  /\ HasTable /\ Top.fn = "handle_page_fault"
        /\ range # NoRange
        /\ IF range.type = "ANONYMOUS"
           THEN NeedsPage([Top EXCEPT !.at = "fill", !.writable = range.writable]) /\ UNCHANGED pte
           ELSE /\ SetEntry(Top.lock, Top.virt, -page(Top.virt), range.writable)
                /\ Continue([Top EXCEPT !.at = "unlock"])
        /\ UNCHANGED <<pml4, granted, ranges, mmap_anon_base, keeper, intr, cur, life, status>>

FaultServed ==
    LET range == addr_to_range(Top.lock, Top.virt)
    IN  /\ HasTable /\ Top.fn = "handle_page_fault"
        /\ ~ Present(Top.lock, Top.virt) /\ range # NoRange
        /\ IF range.type = "ANONYMOUS"
           THEN NeedsPage([Top EXCEPT !.at = "fill", !.writable = range.writable]) /\ UNCHANGED pte
           ELSE /\ SetEntry(Top.lock, Top.virt, -page(Top.virt), range.writable)
                /\ Continue([Top EXCEPT !.at = "unlock"])
        /\ UNCHANGED <<pml4, granted, ranges, mmap_anon_base, keeper, intr, cur, life, status>>

FaultFills ==
    /\ In("handle_page_fault", "fill")
    /\ SetEntry(Top.lock, Top.virt, Top.got, Top.writable)
    /\ Continue([Top EXCEPT !.at = "unlock"])
    /\ UNCHANGED <<pml4, granted, ranges, mmap_anon_base, keeper, intr, cur, life, status>>

iret ==
    /\ In("handle_page_fault", "iret")
    /\ Return
    /\ intr' = Top.flag
    /\ UNCHANGED <<memory, keeper, cur, life, status>>

(* exception_handler prints, and ends the task or the kernel. *)
exception_handler ==
    /\ In("handle_page_fault", "exception")
    /\ CallFrom([Top EXCEPT !.at = "end"], printf(NoAddress))
    /\ UNCHANGED <<memory, keeper, intr, cur, life, status>>

ExceptionEnds ==
    /\ In("handle_page_fault", "end")
    /\ IF Top.user_mode
       THEN life' = "dead" /\ intr' = TRUE /\ UNCHANGED status
       ELSE status' = "cannot recover" /\ UNCHANGED <<life, intr>>
    /\ UNCHANGED <<memory, keeper, cur, calls>>

-----------------------------------------------------------------------------
(* What tasks do. kernel_thread uses the heap until it has made the user task, *)
(* prints and reads the device (the HPET) until then and after the user task's *)
(* death. System calls of the user task use the heap, copy to and from the     *)
(* program's buffers, or print one.                                            *)
InKernel(f) ==
    /\ Idle
    /\ cur = kernel_thread => life # "alive" /\ (f.fn = "heap" => life = "none")
    /\ cur = user => life = "alive"
    /\ Begin(f)
    /\ UNCHANGED <<memory, keeper, intr, cur, life, status>>

UserBytes == 0 .. (mmap_anon_base + PageSize - 1)
KernelBytes == HeapBytes \cup {first_byte(DevicePage), first_byte(ImagePage)}

HeapCall == cur \in {kernel_thread, user} /\ \E virt \in HeapBytes : InKernel(Heap(virt))
Prints == cur = kernel_thread /\ InKernel(printf(NoAddress))
ReadsDevice == cur = kernel_thread /\ InKernel(Call("access", "body", NoLock, first_byte(DevicePage)))
UsesBuffer ==
    /\ cur = user
    /\ \E virt \in UserBytes : \/ InKernel(Call("access", "body", NoLock, virt))
                               \/ InKernel(printf(virt))

(* The program touches its memory, or the kernel's: no entry of the kernel's   *)
(* half has PAGE_USER, so a touch there faults whatever is mapped.             *)
UserTouch(virt, write) ==
    /\ Idle /\ cur = user /\ life = "alive"
    /\ Present("user_pagemap", virt) =>
         slot(virt) \in KernelSlots \/ (write /\ ~ pte[Entry("user_pagemap", virt)].writable)
    /\ Begin(Fault("user_pagemap", virt, TRUE))
    /\ intr' = FALSE
    /\ UNCHANGED <<memory, keeper, cur, life, status>>

(* syscall_mmap. *)
mmap(length, w) ==
    /\ cur = user /\ Len(ranges) < MaxRanges
    /\ \E virt \in HeapBytes :
         /\ Idle /\ life = "alive"
         /\ calls' = [calls EXCEPT ![cur] =
              <<[Call("mmap", "add", NoLock, length) EXCEPT !.writable = w], Heap(virt)>>]
    /\ UNCHANGED <<memory, keeper, intr, cur, life, status>>

MmapAdds ==
    /\ In("mmap", "add")
    /\ ranges' = << [base |-> mmap_anon_base, length |-> align_up(Top.virt),
                     writable |-> Top.writable, type |-> "ANONYMOUS"] >> \o ranges
    /\ mmap_anon_base' = mmap_anon_base + align_up(Top.virt)
    /\ Return
    /\ UNCHANGED <<pml4, pte, granted, keeper, intr, cur, life, status>>

(* new_user_task: the pml4, the kernel's half, the pages of the program and    *)
(* of its stack, then the run queue.                                           *)
NewUserTask ==
    /\ Idle /\ cur = kernel_thread /\ life = "none"
    /\ \E virt \in HeapBytes :
         calls' = [calls EXCEPT ![cur] =
                     <<Call("new_user_task", "pml4", NoLock, 0), Heap(virt)>>]
    /\ UNCHANGED <<memory, keeper, intr, cur, life, status>>

NewPml4 ==
    /\ In("new_user_task", "pml4")
    /\ IF Top.got = 0 THEN NeedsPage(Top)
       ELSE CallFrom([Top EXCEPT !.at = "pages", !.got = 0], map_kernel)
    /\ UNCHANGED <<memory, keeper, intr, cur, life, status>>

LoadPageAllocatedOnce ==
    /\ In("new_user_task", "pages") /\ Top.virt \in ProgramBytes
    /\ IF Top.got = 0 THEN NeedsPage(Top)
       ELSE CallFrom([Top EXCEPT !.virt = @ + PageSize],
                     map_page(Top.got, Top.virt, Top.virt # 0))
    /\ UNCHANGED <<memory, keeper, intr, cur, life, status>>

LoadPage ==
    /\ In("new_user_task", "pages") /\ Top.virt \in ProgramBytes
    /\ IF Top.got = 0 THEN NeedsPage(Top)
       ELSE CallFrom([Top EXCEPT !.virt = @ + PageSize, !.got = 0],
                     map_page(Top.got, Top.virt, Top.virt # 0))
    /\ UNCHANGED <<memory, keeper, intr, cur, life, status>>

Enqueue ==
    /\ In("new_user_task", "pages") /\ Top.virt \notin ProgramBytes
    /\ mmap_anon_base' = Top.virt
    /\ life' = "alive"
    /\ Return
    /\ UNCHANGED <<pml4, pte, granted, ranges, keeper, intr, cur, status>>

Next ==
    \/ lock \/ SpinTooMuch \/ unlock
    \/ \E t \in Tasks : Tick(t)
    \/ KernelTouch \/ TakePage \/ page_table_next_level \/ SetTable \/ MapPage \/ MapKernel
    \/ FaultFails \/ FaultServed \/ FaultFills \/ iret \/ exception_handler \/ ExceptionEnds
    \/ HeapCall \/ Prints \/ ReadsDevice \/ UsesBuffer
    \/ \E virt \in UserBytes \cup KernelBytes, write \in BOOLEAN : UserTouch(virt, write)
    \/ \E length \in MmapLengths, w \in BOOLEAN : mmap(length, w)
    \/ MmapAdds \/ NewUserTask \/ NewPml4 \/ LoadPage \/ Enqueue

Spec == Init /\ [][Next]_vars

-----------------------------------------------------------------------------
(* Properties *)

(* Once an address is backed it keeps its page, with what was written there: a *)
(* second fault, such as a write to a page mapped read-only, puts no new page  *)
(* behind it, and neither does a handler interrupted after it looked.          *)
BackedOnce == [][\A x \in DOMAIN pte : x \in DOMAIN pte' /\ pte'[x] = pte[x]]_vars

(* A page from the physical memory manager serves one purpose: it is behind    *)
(* one address of one map, or is one table, however handlers and loaders that  *)
(* hold such pages are interrupted.                                            *)
PagesServeOnce ==
    LET tables == {pml4["kernel_pagemap"][s] : s \in Slots} \cup {pml4["user_pagemap"]["low"]}
    IN  /\ \A x, y \in DOMAIN pte : pte[x].phy = pte[y].phy => x = y
        /\ \A x \in DOMAIN pte : pte[x].phy \notin tables
        /\ \A s, t \in Slots : pml4["kernel_pagemap"][s] = pml4["kernel_pagemap"][t]
                                  /\ s # t => pml4["kernel_pagemap"][s] = 0
        /\ pml4["user_pagemap"]["low"] # 0
             => \A s \in Slots : pml4["kernel_pagemap"][s] # pml4["user_pagemap"]["low"]

(* map_kernel copies the kernel's slots once. No fault ever adds a slot of the *)
(* kernel's half later, so the user's map goes on showing the whole kernel.    *)
KernelVisible ==
    life # "none" =>
        \A s \in KernelSlots : pml4["user_pagemap"][s] = pml4["kernel_pagemap"][s]

(* unlock sets the interrupt flag even under another lock. The two locks that  *)
(* any code may need at any time hardly suffer from it: a task that keeps      *)
(* pmm_lock keeps the processor, and so does one that keeps print_lock, but    *)
(* when the fault under it is on a buffer of the program.                      *)
PrintsBuffer(t) == \E i \in DOMAIN calls[t] : calls[t][i].fn = "printf" /\ calls[t][i].virt # NoAddress

InnerLocksKeepProcessor ==
    /\ keeper["pmm_lock"] \in {NoTask, cur}
    /\ keeper["print_lock"] \in {NoTask, cur} \/ PrintsBuffer(keeper["print_lock"])

(* Every byte of the heap can be touched, the last one too, whose address is   *)
(* base + length of a range that begins one byte early: if the kernel dies of  *)
(* a fault, it was in a program's buffer.                                      *)
HeapFaultsAreServed ==
    status = "cannot recover" => slot(Top.virt) = "low"

(* The assertion in Spinlock::lock: nobody spins for ever. *)
NeverSpinsTooMuch == status # "spun too much"
=============================================================================
