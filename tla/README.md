# FishOS in TLA+

TLA+ specifications of the FishOS kernel: its modules, the TLC models that check
them on small instances, and TLAPS proofs of the results that matter most. All
source paths below are relative to the repository; the kernel is in `src/`, the
test program in `userspace/test/src/`.

## The system

FishOS is a small x86-64 kernel started by the Limine boot loader. `_start`
(`src/kernel.cpp`) sets up physical memory, page tables, the heap, the
processors, the interrupt controllers, the file system, the timer and the
scheduler; then the timer interrupt takes over and switches between two test
tasks, the kernel thread and, once the kernel thread has loaded it, one user
program.

| Component | State | Operations | Correct if |
|---|---|---|---|
| Physical memory (`mem/pmm.cpp`, `klib/bitmap.hpp`) | page bitmap, cursor `page_bitmap_index`, totals | `init`, `alloc_pages` | no page is granted twice, only usable pages are granted, the panic is justified |
| Spinlocks (`klib/lock.hpp`) | `locked`, spin count, the interrupt flag | `lock`, `unlock` | mutual exclusion, no self-deadlock |
| Heap (`mem/allocator.cpp`) | block headers between `head` and `tail` | `malloc`, `realloc`, `free` | allocations are disjoint, headers stay consistent, free memory is found again |
| Page maps (`mem/vmm.cpp`) | page tables, range lists, page map lock | `map_page`, `map_kernel`, `handle_page_fault`, `syscall_mmap` | a fault in a range is served, once, with a page of its own |
| Scheduler (`sched/sched.cpp`, `klib/list.hpp`) | run queue, saved registers, gs bases | `scheduler_isr`, `new_user_task`, `dequeue_and_die` | every task resumes where it was, nobody starves |
| Gates (`gate_wrappers.asm`, `syscall_entry.asm`, `idt.cpp`) | gs base, kernel gs base, stacks | interrupt and system call entry and exit | kernel code finds its task, user state comes back |
| Keyboard (`ps2/kbd/keyboard.cpp`) | ring buffer, two indices, shift state | `irq`, `init`, `read` | what was typed is read, once and in order |
| Interrupt routing (`interrupts.cpp`, `apic.cpp`, `acpi/tables.cpp`) | handlers, redirection entries, local vector table | `register_irq`, `allocate_vector`, `parse_madt` | an interrupt reaches its handler |
| Files (`fs/vfs.cpp`, `fs/tmpfs.cpp`, `fs/initramfs.cpp`) | node tree, file contents, descriptor tables | path lookup, open, read, write, seek, close | descriptors name what was opened, cursors follow the data |
| ELF loader (`userland/elf.cpp`) | mapped segments | `load` | each byte of a segment at its address |
| Containers (`klib/hashmap.hpp`, `klib/vector.hpp`) | slots, sizes | insert, get, grow | a map is a map |
| Terminal (`gfx/terminal.cpp`, `klib/cstdio.cpp`) | cursor, cells | `write_char`, scrolling | the cursor stays on the screen |
| Processor start (`cpu/cpu.cpp`, `cpu/gdt`) | shared GDT, task state segments | `smp_init`, `init` | each processor gets its own stacks |
| Timers (`sched/timer`) | frequency, the timer's entry | `init`, `oneshot` | the first tick comes |
| C++ runtime, boot protocol | guards, declarations | guard acquire and release | statics are initialised once |

How they meet:

* Everything allocates: the heap, the page maps and the scheduler take pages from
  the physical memory manager; kernel data structures come from the heap, whose
  pages appear on demand through a page fault in the kernel.
* The timer interrupt runs `scheduler_isr` on whatever was running. It finds the
  current task only through the gs base, which the gates and the system call
  entry exchange with the kernel gs base.
* The keyboard interrupt shares its ring with `read`, which a program reaches
  through the system call `read` on descriptor 0.
* The kernel thread watches the link fields of the user task to see it die.

What is hard here: interrupts between any two instructions of code that takes no
lock; several processors in `alloc_pages`; the pairing of the exchanges of the
gs bases over all sequences of ticks, faults and system calls; long histories of
heap operations; and boundaries of bitmaps, rings and ranges. `PROJECT.json`
lists each of these at its line, with the properties that watch it or the reason why
none does.

## The modules

### PMM, PageAllocator

`PMM` models `mem::pmm` with the bitmap and the spinlock it uses. Variables keep
the names of the code. `Init` is `init`: the size of the bitmap, its place in
the first entry that can hold it, the bits `fill` sets (and the one it misses:
`MissedByFill`), the usable pages cleared, the pages of the bitmap taken back.
`alloc_pages` is cut at every loop iteration: `Call`, `Acquire` (or `SpinOut`),
`ScanFree` / `ScanTake` / `ScanUsed` / `ScanEnd` for `inner_alloc`, `Retry` for
the second scan, `OutOfMemory` or `Return`. `held` is a history variable.

Pages are numbered; an address is a page number times the page size. Entries of
the memory map are page aligned, as the boot protocol says. `free_pages` is not
modelled: nothing calls it (and its loop condition `i < num_pages + i` never
fails). The assumption `MemMapsAssumption` excludes one kind of memory map: one
in which the partial last byte of the bitmap begins a page of its own, a page
`init` would not reserve.

`PageAllocator` is what callers rely on: a request gets a run of adjacent pages
nobody owns, or stops the machine if there is none. `PMM` implements it under
the mapping *free = pages with a clear bit*, *granted when the run is marked*.

### Keyboard, LineInput

`Keyboard` models the driver and its device. `KeyEvent` (external) puts a byte in
the controller; before `register_irq` its interrupt may be lost. `IrqControl`,
`IrqStore` and `IrqDrop` are the handler `irq`, one step each, because it runs
with interrupts disabled. `init` and `read` are cut at every access to shared
state, since the handler may run between any two of them: `InitRegister`,
`InitDrain`, `InitClear`; `ReadCall`, `ReadWait`, `ReadLoad`, `ReadAdvance`.
Scancodes are classes of keys by what the handler does with them.

`LineInput` is what a program may expect of standard input: a bounded queue,
delivered in order, each character once, a line or a buffer at a time. One
exception is in the specification because it is in the code: characters typed
between `register_irq` and the `memset` of `init` are delivered as NUL.
One reader is modelled, as there is one user task.

### Sched

`Sched` models one processor with its tasks. `at` is where each task really is,
`saved` is its `gpr_state`, `gs` and `kgs` are the two bases, `gs_base` the field
of the task, `next` and `prev` the links. `TimerTick` is a whole timer interrupt:
entry gate, `scheduler_isr`, exit gate. Where the code would follow a link that
leads to no task, or use a null gs base, an `...Astray` action ends in the status
the machine ends in (`"panic"`, or `"wild"` for an undefined pointer).
`DeviceIrq` is any other interrupt that returns to user code. `add_before` is
four actions, because `new_user_task` runs with interrupts enabled; removal is
one, because `dequeue_and_die` disables them. A system call and a fault keep
their return address on the kernel stack and the interrupt stack. An unset link
is null or junk, chosen in `Init`.

User code is two program points; that is enough to tell whether a task resumes
where it was. The pages, registers and floating-point state behind a frame are
not modelled.

### BuddyAlloc, Heap

`BuddyAlloc` models the heap. `hdr` is what each aligned address holds, read as a
header; `NextOf` is `Block::next`. The loops of `size_required`, `split_until`,
`find_best` and `coalescence` are `Looped`: one round of the loop, with its own
branches, taken a number of times after which it has ended (`RequestsEnd` below
proves that). Sizes are words: `Word` is 2^64 and `HalfWord` 2^63. Rounding a size
near the end of the address space wraps it around to a smallest block (the outcome
`"wild"`: the caller gets less than it asked for), and doubling beyond `HalfWord`
gives 0, so that `size_required` never ends (`Spins`, the outcome `"spins"`, with
`alloc_lock` held). After either there are no further steps. `malloc`,
`reallocInPlace`, `reallocMoves` and `free` are actions, each a whole call,
because `alloc_lock` is held throughout. An allocation's owner writes to all of
it, so headers inside it are gone. `realloc` is only called to grow a block (by
`Vector::push_back` and the `write` of tmpfs), and so it is here.

`Heap` is the promise: allocations are disjoint ranges inside the heap, and no
operation changes any but its own.

### Paging

`Paging` models page maps, page faults and the spinlocks around them, on the one
processor that runs tasks. `calls` is the stack of calls of each task: a heap
call or a `printf` touches an address, which may fault; the handler takes the
lock of a page map and calls `alloc_pages`, which takes another. `lock` clears
the interrupt flag `intr` and `unlock` sets it, whatever other locks are held, so
that `Tick` may switch tasks inside a fault handler or a heap call: the handler
read an entry before and writes it after. `page_table_next_level`, `SetTable`,
`FaultFails`, `FaultServed`, `FaultFills` and `iret` are the handler;
`NewUserTask` to `Enqueue` are the memory of a new user task; `mmap` and
`MmapAdds` are the system call. As in the code, a fault in the kernel is looked up
in the kernel's page map even if the address is the program's, and
`exception_handler` prints before it ends the task or the kernel. The program may
touch any byte of its own half and what the kernel has in the upper half
(`KernelBytes`: the heap, the device, the kernel's image); no entry there has
`PAGE_USER`, so such a touch faults whether or not the page is present, the handler
walks the tables the maps share, finds no range, and the task ends.

The four levels of tables are two here: the slots of the top table, which
`map_kernel` copies, and one table below each. Addresses are bytes, because ranges
compare bytes; of the flags only the writable one is kept. Zeroing of pages is
left out, as no property looks into a page, and so is the translation cache. The
choice of the next task is any other; `Sched` says which. Left out are touches of
slots of the upper half that the kernel has not filled, for which the handler adds a
table to the user's map before it fails, and buffers in the kernel's half given to
system calls, which no call checks. `LowerHalfAssumption`
says that the program and what it asks `mmap` for end below the device's addresses:
`syscall_mmap` itself sets no limit, and a program would need 128 TiB of mappings to
get there.

### Files

`Files` models the tree of nodes, tmpfs, the archive loader and the descriptors of
the user task. The hash map is modelled slot by slot (`insert`, `grow`, `get`),
with its count and its probing. `load_into` is one round of the loader's loop;
`path_to_node` is the lookup over the components of a path, `reduce_node` with the
field `redirect` that no constructor sets: one node of a run may have junk in it.
`openat` (with `AT_FDCWD` it is `open`), `close`, `read`, `pread`, `write_fd`
(`write`), `pwrite`, `seek` and `chdir` are actions, each a whole system call: one
task uses the table. `getcwd` only reads, and is an operator; its buffer's size is
left out. Calls that only return an error change nothing and are no action. Where
the code would use a null node the status becomes `"panic"`, where it would use
memory it does not own, `"wild"`, and where `realloc` never returns, `"spins"`
(`Unending` are the sizes for which `OperationsEnd` of `BuddyAlloc` says so; above
them a size wraps around to a block that is too small). Offsets wrap around (`Sum`).

The assumptions say what the inputs are. `NamesAssumption`: paths are made of
names. `SizeAssumption`: a new map has more than two slots, and a file can be no
longer than offsets can count. `ArchivesAssumption`: an archive is a list of blocks
in which every header is the first block or follows the data of an earlier header,
the data does not look like headers, and `./` is a directory.

### Processors, Routing, Loader, Startup

`Processors` models `smp_init` and `cpu::init` on all processors: each writes the
one descriptor of a task state segment in the shared GDT (`SetTss`), loads it
(`LoadTr`, which faults if another processor has just loaded the same one) and
takes its stacks. `Routing` models vectors and handlers, the root pointer with
its revision, signatures and checksums (`RsdpRefused` are the panics of
`parse_rsdp`, `RootTables` the list that the revision selects: another revision than
0 and 2 has none and is no error), the tables and MADT entries one at a time, redirection entries, the local vector table, calibration
(with 32-bit arithmetic) and `oneshot`. `Loader` models which byte of which segment
gets to which page. `Startup` puts them together in the order of `_start` and
`kernel_thread`: `stage` is how far the boot processor is, while the other
processors go on in parallel.

A checksum is right or wrong; a table is its signature and entries; a program's
bytes are their offsets in the file, so that a byte tells where it comes from.
Polarity and trigger mode of lines, end-of-interrupt and the PAT and system call
registers are left out.

## The runs

| Run | Model | What it shows |
|---|---|---|
| `pmm` | 3 processors, requests of 1 to 3 pages, 3 memory maps of 7 to 12 pages, 2-byte pages and 4-bit bytes | `NoPageGrantedTwice`, `GrantsAreRam`, `OutOfMemoryIsReal`, `MemoryIsAccounted`, the inductive invariant `IndInv`, `ImplementsPageAllocator`, `CallsEnd` |
| `keyboard` | ring of 3 slots, reads of 1 and 2 bytes, all kinds of keys | `LoadedIsHead`, `NoStuckShift`, `ImplementsLineInput`, `DropsOnlyWhenFull`, `BytesAreTaken`, `ReadReturns` |
| `sched` | 2 test tasks, the kernel thread, the user task | `BasesNameCurrent`, `RunQueueOk`, `RebootMeansDeath`, `KernelContextKept`, `DeadStaysDead`, `KernelTasksRun`, `DeathEndsInReboot` |
| `heap` | 32 bytes, alignment and header of 2, words below 128, requests of 1, 13, 14 and 30, around half a word and at its end | `OperationsEnd`, `HeadersTell`, `ImplementsHeap` |
| `sched_context` | as `sched` | finds `ContextKept` violated |
| `sched_gsbase` | as `sched` | finds `UserGsBaseKept` violated |
| `sched_enqueue` | as `sched` | finds `TickFindsTask` violated |
| `heap_buddies` | as `heap` | finds `NoBuddiesLeft` violated |
| `paging` | a test task, the kernel thread, the user task; 2-byte pages, a heap of 2 pages, a program of 2, 2 calls of `mmap` | `PagesServeOnce`, `KernelVisible`, `InnerLocksKeepProcessor`, `HeapFaultsAreServed`, `BackedOnce` |
| `paging_print` | as `paging`, without the test task, 1 call of `mmap` | finds `NeverSpinsTooMuch` violated |
| `files` | 6 names with colliding hashes, maps of 4 slots, 5 archives, offsets modulo 16, files of at most 5 bytes, 5 descriptors, 3 calls | `LookupIsResolve`, `ArchiveLoaded`, `CountIsActual`, `CwdSpelled`, `DescriptorsKeepFile` |
| `startup` | 3 processors with the boot processor anywhere in the list, 13 root pointers with their tables, 3 program files, 4-byte pages | `OwnTss`, `InterruptsReachHandlers`, `ProgramIsLoaded`, `BootEnds` |

Bounds. The memory maps were chosen for the cases of `init`: two usable areas
with the bitmap in the first; a first area too small for the bitmap; a size that
is no multiple of a byte, with the bit that `fill` misses on a page that is not
usable. Allocations only ever consume memory, so every run of the model ends
with memory gone, and the cursor passes every position on the way. In the
keyboard model two characters fill the ring, so it becomes full, empties and
wraps around. The scheduler's tasks are the ones the kernel starts. The heap
holds at most eight blocks; 13 and 14 share a block size (realloc in place), 14
and 30 fill their blocks exactly, 1 does not, so blocks that realloc leaves
behind have a size that is not rounded. With its header 62 is half a word exactly
(it fails), 63 and 124 are the least and the greatest request that never ends, 125
and 127 wrap around.

In `paging` every byte of two pages of heap can be the first to be touched, also
by two tasks at once; two ranges of length 0 and 1 give an empty range, adjacent
ranges and the byte after the last; read-only pages are written, and the program
touches every byte of the kernel's heap, its device and its image. One test task is
enough for a task that only prints. In `files` the map of the root grows, three
names share a slot and one probes around the end; the archives list files of none,
one and two bytes in 2-byte blocks, a file under a directory that is not listed, a
file twice, a link and a file that the heap has no room for; three calls suffice to close a descriptor below an open one
and open two more, to write at an offset that wraps around and to ask for more than
half of the address space. In `startup` there are root pointers of revisions 0, 1
and 2, each of them with one signature or checksum wrong as well; the tables come in both orders, with an override, several I/O controllers, a list
without HPET, one without MADT and bad ones; the programs have segments of one and
several pages, aligned or not, ending on a page or not, and sharing one. `Word` and
`MHz` stand for 2^32 and 10^6 on a smaller scale; the product of calibration does
not wrap around, as it does not in the code for a timer of less than 4 GHz.

Deadlock. Deadlock checking is off where the system may stop: after a panic or
when every caller is content (`pmm`), after a reboot or a crash (`sched`), after a
request that never ends or whose size wrapped (`heap`). In `paging` the kernel may
stop in a panic, in `files` the program may have made
all its calls, in `startup` the boot ends in the running program or a panic. In
`keyboard` it is replaced by the stronger `BytesAreTaken` and `ReadReturns`.

Fairness. `pmm`: weak fairness of each processor's steps, since a processor that
runs goes on running; no fairness of the lock, which the code does not give, and
none of the callers. `keyboard`: weak fairness of the handler, of init and of
the reader, since interrupts are enabled in both and the round robin goes on
running both; none of key presses or calls. `sched`: weak fairness of ticks,
since every tick arms the next one, and strong fairness of the kernel thread's
steps, since a quantum is much longer than one of them. `startup`: weak fairness of
the boot processor, which nothing stops, of the HPET's counter, and of the timer
once it is armed; none of the other processors.

### Where the code and its comments differ

* `sched_context`. The entry gate (`gate_wrappers.asm:5`) means to look at the
  code segment but looks at the instruction pointer, so the bases are never
  exchanged on entry. A tick in user code whose gs base is 0 saves nothing, and
  the program is resumed at an older point. For the same reason a fault in such
  user code finds no task and ends in a panic (`UserFaultAstray`), and a device
  interrupt in it leaves the next system call without one (`SyscallAstray`).
* `sched_gsbase`. A task preempted inside a system call is resumed with its own
  pointer as kernel gs base (`sched.cpp:200`), which `sysret` turns into the
  program's gs base. From then on both bases name the task, which hides the
  defect above.
* `sched_enqueue`. `add_before` publishes the new task before its own link is
  set, with the timer running (`list.hpp:28`).
* `heap_buddies`. `coalescence` pairs blocks from the head, falls out of step
  with the buddies and returns with two free halves unmerged, so that a request
  fails that they could serve.
* `paging_print`. `vprintf` reads its arguments under `print_lock`. A program that
  writes a buffer it has not touched yet to descriptor 1 makes the kernel fault
  there; the fault is looked up in the kernel's page map (`idt.cpp:102`), fails,
  and `exception_handler` waits in `printf` for the lock its own task keeps, until
  the lock's own check stops the kernel (`lock.hpp:21`).

`BasesNameCurrent` says what survives of the first two: whatever the gates do, no
task is ever mistaken for another, and kernel code always finds its own.

Properties of the newer modules are stated around other things the code does,
which no comment contradicts but which a reader should know:

* A fault of the kernel in any buffer of the program that was not touched yet, in
  `read` for instance, ends in "cannot recover", although the buffer is in a range
  of the task. `HeapFaultsAreServed` says that this is the only way to get there.
* A range holds the byte after its end (`vmm.cpp:177`). The heap's range begins one
  byte before the heap, so its last byte needs this; the page after the last
  mapping of a program is served too, with the flags of that mapping.
* A task that keeps `print_lock` can lose the processor if its buffer faults
  (`PrintsBuffer`), and any task can lose it with `alloc_lock` or the lock of a
  page map; another task that then wants the lock spins with interrupts off until
  the spin limit stops the kernel.
* Lookup of `"/"` fails: the root has no entry `""`. An archive entry whose
  directory is not listed is created under the name of the missing directory
  (`ParentsFirst` excludes it; what lies directly under the root, with or without
  `./`, needs nothing listed). A short read moves the cursor by the count asked
  for. A write behind the end leaves bytes nobody wrote.
* Descriptors 0 to 2 have no node: `read` of 1 or 2, `write` of 0 or 2, and `pread`
  and `pwrite` of any of them stop the kernel.
* `load` gives the last page of a segment that ends on a page, if it is not the
  first, no bytes of the file; the rest of a one-page segment gets the bytes that
  follow in the file; segments that share a page lose the earlier one; a segment
  that is not aligned is read from shifted offsets. `Ordinary` excludes these, and
  segments with more bytes in the file than in memory, which no linker makes.
* A boot processor that is not first in the list can load another's task state
  segment, or fault (`OwnTss` is stated for `bsp = 1`).
* Interrupts are sent to LAPIC 0 whatever the boot processor's number is, as
  `read_id` does not shift the register; pins are not counted from the base of their
  controller. `KeyboardPin` is the pin of line 1 when the controller starts at 0 and
  is the only one wired to it: otherwise nothing is promised.
* Without an HPET, calibration waits for a PIT whose handler nobody registers, and
  boot does not end; with a timer below 1 MHz `oneshot` arms nothing. `Complete`
  lists what boot needs.

## The proofs

Eight modules hold theorems. Each safety property that a passing run checks has
one; liveness stays with TLC. Every theorem holds for every
value of the constants that the named assumptions allow; TLC evaluates the
assumptions in every run.

**`PMM_proofs`**, for every set of processors, every memory map that satisfies
`MemMapsAssumption`, every set of request sizes and every page and byte size:

* `Invariance`: `Spec => []IndInv`, and `Types` from it;
* `GrantedOnce`, `GrantsRam`, `PanicIsJustified`: the safety properties above;
* `Accounted`: `MemoryIsAccounted`;
* `Refinement`: `Spec => ImplementsPageAllocator`.

`OutOfMemoryIsReal` is the one that needs an idea. The first scan covers memory
from the cursor to the end, the second from the beginning to where the first
began, and neither sees a run across that point. `CursorInv` is why none exists:
between calls the cursor stands at the beginning or just behind a page in use.
`Scanned` says what a scan in progress knows (the pages it counts are free, the
count began at the start or behind a page in use, no run lies behind the
cursor), `Exhausted` what a failed one has established; `LockInv` says that only
the holder of the lock is scanning, `MarkInv` that granted pages are marked and
that page 0 is (so that the answer 0 is no page), `RamInv` that clear bits are
usable pages. `IndInv` is their conjunction; TLC checks it as an invariant too.

`MemoryIsAccounted` says nothing while the lock is held, so it is not inductive.
`CountInv` (`CountsHold`) adds the pages that are marked and not yet counted
(`Pending`) and counts in pages, so that the steps need no products: a run that is
taken moves from free to pending, a return from pending to counted. The beginning
is the harder part: the pages of the bitmap are as many as `init` subtracts and all
of them usable (`ReservedFits`), because the entry it chose has room for them.

**`Sched_proofs`**, for any number of kernel tasks. `SwitchInvariance`
(`Spec => []SwitchInv`) gives `BasesAreRight` and `KernelContextsAreKept`.
`SwitchInv` adds to `BasesNameCurrent` what the scheduler will load: a task
suspended in user code has 0 or itself as saved gs base (`BasesInv`), and the saved
frame of a task suspended in the kernel is where it is (`SavedInv`).
`QueueInvariance` gives `QueueIsWhole` (`RunQueueOk`), `RebootFollowsDeath` and
`DeathIsFinal`. `QueueInv` says what the links are before each store of
`add_before`; the point is that the user task may be scheduled after the first
store but cannot die before the third: until then its own link leads to no task,
and following it ends the run in `DieAstray`.

**`Keyboard_proofs`**, for every size of the ring from 2 on. `KeyInvariance` gives
`Types`, `ShiftsAreHeld` (`NoStuckShift`), `HeadIsStable` (`LoadedIsHead`) and
`DropsWhenFull`; `Refinement` is `Spec => ImplementsLineInput`. The invariant is
that the reader, once it has seen the indices differ, owns the slot it reads
(`ReaderInv`), and that a press the handler has yet to see is of a key still down
(`ShiftInv`). The refinement rests on lemmas about what the ring holds between its
indices (`Contents`): a store appends, an advance takes the head, the `memset` of
`init` turns what waits into NULs.

**`Startup_proofs`**, for any number of processors, any tables and any program:
`TssIsOwn` (`OwnTss`), `LoadsProgram` (`ProgramIsLoaded`) and `InterruptsArrive`
(`InterruptsReachHandlers`), from one invariant for each of the modules `Startup`
composes. `ProcessorInv`: nobody else is started before the first processor's init
has returned, so it has the shared descriptor to itself. `LoaderInv`: no page
begins at `first_free_virt` or later, and each segment handled so far whose pages no
other has is in place; below it are lemmas about division by the page size (which
page holds a segment's last byte). `RoutingInv`: vectors are taken in order, and at
each stage the ones taken have their handlers. `LoaderAssumption` and
`RoutingAssumption` only give the files and tables their types.

**`Paging_proofs`, `PagingMaps_proofs`**, for any set of tasks, any sizes of heap,
program and page, and any number of mappings:

* `ShapeInvariance`: which call can be on top of which in each task's stack, and
  where the addresses lie that each of them works on (`ShapeInv`). All else is
  stated over the frames of these stacks.
* `LockInvariance` and `InnerLocksAreKept` (`InnerLocksKeepProcessor`): a call that
  is past its lock keeps it, alone (`LockInv`); and although `unlock` enables
  interrupts whatever else is held, `alloc_pages` calls nothing that unlocks
  (`PmmInv`), and `printf` only does so through a fault in a buffer (`PrintInv`).
* `KernelIsVisible` (`KernelVisible`). `MapsInv`: the kernel's half is complete
  before the first user map is made and no later fault adds a table there, so the
  copy `map_kernel` took cannot go stale.
* `HeapFaultsServed` (`HeapFaultsAreServed`). `ServedInv`: from the fault on an
  address of the heap or the device to the handler's look at the ranges, interrupts
  stay disabled, so the entry the processor missed is still missing, and a walk
  of the kernel's that fails is for the lower half. A program's fault in the upper
  half is never served (`FaultServedLow`): its ranges end at `mmap_anon_base`
  (`RangesBelow` in `ShapeInv`), and such a fault ends the task, not the kernel.
* `PagesServe` (`PagesServeOnce`) and `Backed` (`BackedOnce`). `PagesInv`: a page
  that `alloc_pages` has given away has exactly one holder, an entry, a table or a
  local of the call that asked for it (`HoldInv`), and what a walk read before it
  was interrupted still holds when it writes (`WalkInv`), because it keeps the lock
  of the page map in between; the loader, which keeps no lock between its pages,
  only maps pages above those that are there.

**`BuddyAlloc_proofs`**, for every size of the heap that `size_required` leaves as
it is, every alignment (which is also the size of a header), and requests of any
size that a word can hold (`GeometryAssumption`):

* `HeapInvariance`: `Spec => []HeapInv`, and `Types` and `HeadersAreRight`
  (`HeadersTell`) from it;
* `Refinement`: `Spec => ImplementsHeap`;
* `RequestsEnd` (`OperationsEnd`): `size_required` never ends exactly on the requests
  for more than half of the address space whose size does not wrap around (`pwrite`
  at such an offset makes one); in every other request every loop has ended within
  the rounds that the model gives it, so a bounded loop stands for the code's
  unbounded one.

The invariant `HeapInv` is about the row of blocks (`Row`): the block after each
block is in the row, no block begins inside another, and every block in use belongs
to one allocation with room for it (`Owns`). It does not say that sizes are powers
of two, because they are not: realloc leaves blocks whose size is not rounded, and
`find_best` merges blocks that are no buddies. `SizeRequiredIs` says what
`size_required` computes; `SplitRow`, `MergeRow`, `Placed`, `Released` and `Grown`
say that each way of changing headers keeps the row. The loops are handled by
induction over sets of numbers of rounds: the address of the block at hand grows in
each round of a pass, and each pass of `coalescence` that is repeated leaves fewer
blocks than it found.

**`Files_proofs`**, for every set of names and every hash of them, every archive
that `ArchivesAssumption` allows, any paths and sequences of calls:

* `CountsDescriptors` (`CountIsActual`) and `KeepsFile` (`DescriptorsKeepFile`), from
  `TableInv`: the table is a sequence, and no descriptor's node is the mark of a free
  slot, so that moving a cursor neither frees nor opens one. `AllocatedIsFree` is the
  lemma behind both: the first number that `allocate_fdnum` finds is free or the end
  of the table for every hint.
* `FileInvariance`, and from it `FindsNodes` (`LookupIsResolve`), `LoadsArchive`
  (`ArchiveLoaded`) and `SpellsCwd` (`CwdSpelled`).

`MapInv` is what makes the hash map right: a key has one entry, and at most one
entry is not counted (the one `insert` places after `grow` has counted the others
anew), so the load stays below the limit and an insert always finds an empty slot;
`Covers` says that the attempts for a key look at every slot. `InsertIs`, `GetIs`
and `GrowIs` say what the operations do to the entries, wherever they are. `TreeInv`
ties the maps to the nodes: the entries of a directory are the nodes made in it, a
parent is a directory and older than its children, dot entries redirect where they
say. `PathIs` follows `path_to_node` and the meaning of the path component by
component (`Found`). `LoadInv` says that the loader has not stepped over a header,
and that every header it has passed has its node; a node that exists is found by
the same path after later nodes are made (`MeaningKept`). `SpellMeans` shows by
induction over the order of creation that what `getcwd` writes means the node it
started from.

The prover's own induction theorems take a predicate, which its backends cannot
instantiate. Where these two modules need induction they state it for a set of
numbers (`Least`, `Induct`, `InductTo`), from the fact that `<` is well-founded on
the naturals.

Only model-checked: the liveness properties (`CallsEnd`, `BytesAreTaken`,
`ReadReturns`, `KernelTasksRun`, `DeathEndsInReboot`, `BootEnds`), which need
fairness and are beyond the prover.

## Not modelled

Left out, with the reason:

* the registers a program starts with; its stack pointer is the low end of its stack
  (`sched.cpp:92`), so that its first push is below it;
* the terminal and the framebuffer, and the formatting in `vprintf`: they decide
  what is shown, and nothing in the kernel reads it back;
* `pic.cpp`, `free_pages`, `physical_addr`, `HashMap::erase` and `for_each`: nothing
  calls them;
* guards of local statics: all of them are first used by the boot processor before
  others run code that uses them; the rest of the C++ runtime copies bytes or
  reports undefined behaviour;
* `limine.hpp`: vendored declarations;
* the copy that `fs_drivers` returns (`vfs.cpp:14`), whose destructor frees the table
  of the original: what happens then depends on the contents of heap blocks.
