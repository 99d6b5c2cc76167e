-------------------------------- MODULE Sched --------------------------------
(* The round-robin scheduler of src/sched/sched.cpp with the interrupt gates   *)
(* of src/cpu/interrupts/gate_wrappers.asm and the system call entry of        *)
(* src/cpu/syscall/syscall_entry.asm. One processor runs a few endless kernel  *)
(* tasks, the kernel thread, which creates the user task while the timer is    *)
(* already running, and that user task. The kernel finds the current task      *)
(* through the gs base, which the gates exchange with the kernel gs base.      *)
EXTENDS Integers, Sequences

CONSTANTS
    Workers,   \* the endless kernel tasks, in the order sched::init makes them
    K,         \* the kernel thread
    U          \* the user task

KernelTasks == {Workers[i] : i \in DOMAIN Workers} \cup {K}
Tasks == KernelTasks \cup {U}

(* Pointers that are no task: a null pointer, whatever an unset field holds,   *)
(* and the list head. Boot stands for the code that started the scheduler.     *)
NULL == "null"
Junk == "junk"
ListHead == "sched_list_head"
Boot == "boot"

ASSUME TasksAssumption ==
    /\ Workers \in Seq({Workers[i] : i \in DOMAIN Workers}) /\ Workers # <<>>
    /\ \A i, j \in DOMAIN Workers : Workers[i] = Workers[j] => i = j
    /\ K \notin {Workers[i] : i \in DOMAIN Workers} /\ U \notin KernelTasks
    /\ Tasks \cap {NULL, Junk, ListHead, Boot} = {}

Nodes == Tasks \cup {ListHead}

(* The code segment selectors: GDTSegment::KERNEL_CODE_64 and the user code    *)
(* segment with its privilege bits.                                            *)
KernelCode == "0x08"
UserCode   == "0x23"

(* Where a task can be: a worker's two halves; the kernel thread loading the   *)
(* program, at the four stores of add_before, watching, and rebooting; the     *)
(* program's code; a system call, a demand fault, a crash, the final halt.     *)
UserRips == {"u0", "u1"}
KernelRips == {"w0", "w1", "load", "enq1", "enq2", "enq3", "enq4", "watch", "reboot",
               "syscall", "fault", "crash", "die"}
Frames == [rip : UserRips, cs : {UserCode}] \cup [rip : KernelRips, cs : {KernelCode}]

User(r)   == [rip |-> r, cs |-> UserCode]
Kernel(r) == [rip |-> r, cs |-> KernelCode]
OtherHalf(r) == IF r = "u0" THEN "u1" ELSE "u0"

VARIABLES
    next, prev,   \* the links of sched_list_head and of every task's sched_list
    cur,          \* whose code the processor runs
    gs, kgs,      \* the gs base and the kernel gs base
    at,           \* where each task really is
    saved,        \* gpr_state: the registers the scheduler will load
    gs_base,      \* the user gs base the scheduler will load
    kstack,       \* the return address on the user task's kernel stack
    istack,       \* the return address on the interrupt stack (rsp0)
    status        \* "ok", or how the machine stopped

links == <<next, prev>>
bases == <<gs, kgs, gs_base>>
vars  == <<links, cur, bases, at, saved, kstack, istack, status>>

EntryPoint(t) ==
    CASE t = K -> Kernel("load")
      [] t = U -> User("u0")
      [] OTHER -> Kernel("w0")

Listed == Append(Workers, K)

Position(t) == CHOOSE i \in DOMAIN Listed : Listed[i] = t

(* The node after and the node before a listed task, and around the head. *)
After(n) ==
    CASE n = ListHead -> Listed[1]
      [] n = Listed[Len(Listed)] -> ListHead
      [] OTHER -> Listed[Position(n) + 1]
Before(n) ==
    CASE n = ListHead -> Listed[Len(Listed)]
      [] n = Listed[1] -> ListHead
      [] OTHER -> Listed[Position(n) - 1]

(* init, new_kernel_task and start have run; the user task's fields are set    *)
(* but its links are not. Kernel tasks never get a gs_base before their first  *)
(* switch.                                                                     *)
Init ==
    /\ \E junk \in {NULL, Junk} :
        /\ next = [n \in Nodes |-> IF n = U THEN junk ELSE After(n)]
        /\ prev = [n \in Nodes |-> IF n = U THEN junk ELSE Before(n)]
    /\ cur = Boot
    /\ gs = NULL /\ kgs = NULL
    /\ at = [t \in Tasks |-> EntryPoint(t)]
    /\ saved = at
    /\ gs_base = [t \in Tasks |-> IF t = U THEN NULL ELSE Junk]
    /\ kstack = "u0" /\ istack = "u0"
    /\ status = "ok"

Runs(t) == status = "ok" /\ cur = t

-----------------------------------------------------------------------------
(* The timer interrupt: gate, scheduler_isr, gate. *)

Frame == IF cur = Boot THEN Kernel("w0") ELSE at[cur]

(* The gate's two decisions to exchange the bases. On entry it compares the    *)
(* word above the error code, which is the instruction pointer; on exit the    *)
(* word above the instruction pointer, which is the code segment.              *)
SwapsOnEntry(f) == f.rip = UserCode
SwapsOnExit(f)  == f.cs = UserCode

(* The bases the handler sees. *)
EntryGs  == IF SwapsOnEntry(Frame) THEN kgs ELSE gs
EntryKgs == IF SwapsOnEntry(Frame) THEN gs ELSE kgs

(* The task the handler takes for the current one is saved; with a null gs     *)
(* base nothing is.                                                            *)
SavedThenLost == saved

SavedThen == [t \in Tasks |-> IF t = EntryGs THEN Frame ELSE saved[t]]
GsBaseThen == [t \in Tasks |-> IF t = EntryGs THEN EntryKgs ELSE gs_base[t]]

TargetAlwaysFirst == next[ListHead]

(* The task after the current one, or the first one. *)
Target ==
    IF EntryGs # NULL /\ next[EntryGs] \notin {NULL, ListHead}
    THEN next[EntryGs]
    ELSE next[ListHead]

(* The bases after the exit of the gate: for a user task they are exchanged. *)
GsForUnset(t) == gs

GsFor(t) == IF SwapsOnExit(SavedThen[t]) THEN GsBaseThen[t] ELSE t

KgsForUnchecked(t) == IF SwapsOnExit(SavedThen[t]) THEN t ELSE GsBaseThen[t]

KgsFor(t) == t

TimerTick ==
    /\ status = "ok"
    /\ Target \in Tasks
    /\ saved' = SavedThen
    /\ gs_base' = GsBaseThen
    /\ cur' = Target
    /\ at' = [at EXCEPT ![Target] = SavedThen[Target]]
    /\ gs' = GsFor(Target)
    /\ kgs' = KgsFor(Target)
    /\ UNCHANGED <<links, kstack, istack, status>>

(* The link the handler follows leads to no task. *)
TimerTickAstray ==
    /\ status = "ok"
    /\ Target \notin Tasks
    /\ status' = IF Target = ListHead THEN "panic" ELSE "wild"
    /\ UNCHANGED <<links, cur, bases, at, saved, kstack, istack>>

(* A device interrupt that returns to user code. In kernel code it changes     *)
(* nothing here.                                                               *)
DeviceIrq ==
    /\ Runs(U)
    /\ at[U].cs = UserCode
    /\ gs' = IF SwapsOnExit(at[U]) THEN EntryKgs ELSE EntryGs
    /\ kgs' = IF SwapsOnExit(at[U]) THEN EntryGs ELSE EntryKgs
    /\ UNCHANGED <<links, cur, gs_base, at, saved, kstack, istack, status>>

-----------------------------------------------------------------------------
(* The kernel tasks. *)

Goto(t, r) == at' = [at EXCEPT ![t] = Kernel(r)]

WorkerStep ==
    /\ cur \in KernelTasks \ {K} /\ status = "ok"
    /\ Goto(cur, IF at[cur].rip = "w0" THEN "w1" ELSE "w0")
    /\ UNCHANGED <<links, cur, bases, saved, kstack, istack, status>>

KAt(r) == Runs(K) /\ at[K].rip = r

(* The program is loaded; new_user_task calls add_before. *)
KLoad ==
    /\ KAt("load") /\ Goto(K, "enq1")
    /\ UNCHANGED <<links, cur, bases, saved, kstack, istack, status>>

(* The four stores of add_before, with interrupts enabled between them. *)
AddBefore1 ==
    /\ KAt("enq1") /\ Goto(K, "enq2")
    /\ next' = [next EXCEPT ![prev[ListHead]] = U]
    /\ UNCHANGED <<prev, cur, bases, saved, kstack, istack, status>>

AddBefore2 ==
    /\ KAt("enq2") /\ Goto(K, "enq3")
    /\ prev' = [prev EXCEPT ![U] = prev[ListHead]]
    /\ UNCHANGED <<next, cur, bases, saved, kstack, istack, status>>

AddBefore3Skipped ==
    /\ KAt("enq3") /\ Goto(K, "enq4")
    /\ UNCHANGED <<links, cur, bases, saved, kstack, istack, status>>

AddBefore3 ==
    /\ KAt("enq3") /\ Goto(K, "enq4")
    /\ next' = [next EXCEPT ![U] = ListHead]
    /\ UNCHANGED <<prev, cur, bases, saved, kstack, istack, status>>

AddBefore4 ==
    /\ KAt("enq4") /\ Goto(K, "watch")
    /\ prev' = [prev EXCEPT ![ListHead] = U]
    /\ UNCHANGED <<next, cur, bases, saved, kstack, istack, status>>

AddBefore == AddBefore1 \/ AddBefore2 \/ AddBefore3 \/ AddBefore4

(* The kernel thread halts until an interrupt, sees the user task unlinked,    *)
(* and reboots.                                                                *)
SawDeathAsEmpty == next[U] = U

SawDeath == next[U] = NULL

KSeesDeath ==
    /\ KAt("watch") /\ SawDeath /\ Goto(K, "reboot")
    /\ UNCHANGED <<links, cur, bases, saved, kstack, istack, status>>

KReboot ==
    /\ KAt("reboot")
    /\ status' = "reboot"
    /\ UNCHANGED <<links, cur, bases, at, saved, kstack, istack>>

-----------------------------------------------------------------------------
(* The user task. *)

InUser == Runs(U) /\ at[U].cs = UserCode
UAt(r) == Runs(U) /\ at[U].rip = r

UserStep ==
    /\ InUser
    /\ at' = [at EXCEPT ![U] = User(OtherHalf(at[U].rip))]
    /\ UNCHANGED <<links, cur, bases, saved, kstack, istack, status>>

(* swapgs, then the stack pointer is saved and loaded through gs. *)
SyscallEnter ==
    /\ InUser /\ kgs # NULL
    /\ gs' = kgs /\ kgs' = gs
    /\ kstack' = OtherHalf(at[U].rip)
    /\ Goto(U, "syscall")
    /\ UNCHANGED <<links, cur, gs_base, saved, istack, status>>

(* The same with a null kernel gs base: a page fault in the kernel. *)
SyscallAstray ==
    /\ InUser /\ kgs = NULL
    /\ gs' = kgs /\ kgs' = gs
    /\ status' = "panic"
    /\ UNCHANGED <<links, cur, gs_base, at, saved, kstack, istack>>

SyscallReturn ==
    /\ UAt("syscall")
    /\ gs' = kgs /\ kgs' = gs
    /\ at' = [at EXCEPT ![U] = User(kstack)]
    /\ UNCHANGED <<links, cur, gs_base, saved, kstack, istack, status>>

(* An exception in user code: a demand fault the memory manager resolves, or a *)
(* crash. Both handlers look up the task through the gs base.                  *)
UserFault(r) ==
    /\ InUser /\ EntryGs # NULL
    /\ gs' = EntryGs /\ kgs' = EntryKgs
    /\ istack' = at[U].rip
    /\ Goto(U, r)
    /\ UNCHANGED <<links, cur, gs_base, saved, kstack, status>>

UserFaultAstray ==
    /\ InUser /\ EntryGs = NULL
    /\ status' = "panic"
    /\ UNCHANGED <<links, cur, bases, at, saved, kstack, istack>>

FaultReturn ==
    /\ UAt("fault")
    /\ gs' = kgs /\ kgs' = gs
    /\ at' = [at EXCEPT ![U] = User(istack)]
    /\ UNCHANGED <<links, cur, gs_base, saved, kstack, istack, status>>

(* dequeue_and_die, from the exit system call or after a crash, with           *)
(* interrupts disabled. Links that were never set are followed all the same.   *)
DieStillLinked ==
    /\ UAt("syscall") \/ UAt("crash")
    /\ next[gs] \in Nodes /\ prev[gs] \in Nodes
    /\ prev' = [prev EXCEPT ![next[gs]] = prev[gs], ![gs] = NULL]
    /\ next' = [next EXCEPT ![gs] = NULL]
    /\ Goto(U, "die")
    /\ UNCHANGED <<cur, bases, saved, kstack, istack, status>>

Die ==
    /\ UAt("syscall") \/ UAt("crash")
    /\ next[gs] \in Nodes /\ prev[gs] \in Nodes
    /\ prev' = [prev EXCEPT ![next[gs]] = prev[gs], ![gs] = NULL]
    /\ next' = [next EXCEPT ![prev[gs]] = next[gs], ![gs] = NULL]
    /\ Goto(U, "die")
    /\ UNCHANGED <<cur, bases, saved, kstack, istack, status>>

DieAstray ==
    /\ UAt("syscall") \/ UAt("crash")
    /\ ~ (next[gs] \in Nodes /\ prev[gs] \in Nodes)
    /\ status' = "wild"
    /\ UNCHANGED <<links, cur, bases, at, saved, kstack, istack>>

-----------------------------------------------------------------------------
Tick == TimerTick \/ TimerTickAstray
KStep == KLoad \/ AddBefore \/ KSeesDeath \/ KReboot
UStep ==
    \/ UserStep \/ SyscallEnter \/ SyscallAstray \/ SyscallReturn
    \/ UserFault("fault") \/ UserFault("crash") \/ UserFaultAstray \/ FaultReturn
    \/ Die \/ DieAstray

Next == Tick \/ DeviceIrq \/ WorkerStep \/ KStep \/ UStep

Spec == Init /\ [][Next]_vars

(* The timer is armed again by every tick and interrupts are enabled in every  *)
(* task's loop, so ticks go on; a quantum of 1/300 s lets the kernel thread    *)
(* make progress whenever it runs.                                             *)
FairSpec == Spec /\ WF_vars(Tick) /\ SF_vars(KStep)

-----------------------------------------------------------------------------
(* Properties *)

TypeOK ==
    /\ next \in [Nodes -> Nodes \cup {NULL, Junk}]
    /\ prev \in [Nodes -> Nodes \cup {NULL, Junk}]
    /\ cur \in Tasks \cup {Boot}
    /\ gs \in Tasks \cup {NULL} /\ kgs \in Tasks \cup {NULL}
    /\ at \in [Tasks -> Frames] /\ saved \in [Tasks -> Frames]
    /\ gs_base \in [Tasks -> Tasks \cup {NULL, Junk}]
    /\ kstack \in UserRips /\ istack \in UserRips
    /\ status \in {"ok", "panic", "wild", "reboot"}

(* Kernel code always finds the task it runs for in the gs base. In user code  *)
(* at least one of the two bases is the task and neither is another task's, so *)
(* whatever the gates exchange, no task is ever mistaken for another.          *)
BasesNameCurrent ==
    status = "ok" /\ cur # Boot =>
        /\ {gs, kgs} \subseteq {NULL, cur}
        /\ at[cur].cs = KernelCode => gs = cur
        /\ at[cur].cs = UserCode => cur \in {gs, kgs}

(* A task that is suspended in the kernel stays where it is until it resumes,  *)
(* and resumes there: no tick loses or mixes up kernel contexts.               *)
KernelContextKept ==
    [][\A t \in Tasks \ {cur} : at[t].cs = KernelCode => at'[t] = at[t]]_vars

(* The tasks that are linked, in the order they were created. *)
Queue == IF at[U].rip = "die" \/ next[U] \in {NULL, Junk} THEN Listed ELSE Append(Listed, U)

(* Outside the stores of add_before the forward links lead from the head       *)
(* through every live task, in the order of creation, back to the head; also   *)
(* when the user task dies before the last store.                              *)
RunQueueOk ==
    status = "ok" /\ at[K].rip \notin {"enq2", "enq3"} =>
        /\ next[ListHead] = Queue[1]
        /\ next[Queue[Len(Queue)]] = ListHead
        /\ \A i \in 1 .. (Len(Queue) - 1) : next[Queue[i]] = Queue[i + 1]

(* A task that has died is not scheduled again. *)
DeadStaysDead ==
    [][at[U].rip = "die" => at'[U] = at[U] /\ (cur # U => cur' # U)]_vars

(* The kernel thread reboots only after the user task has died. *)
RebootMeansDeath == at[K].rip = "reboot" => at[U].rip = "die"

(* Every kernel task runs again and again while the machine is up. *)
KernelTasksRun == \A t \in KernelTasks : []<>(cur = t \/ status # "ok")

(* The death of the user task is followed by a reboot. *)
DeathEndsInReboot == at[U].rip = "die" ~> status # "ok"

-----------------------------------------------------------------------------
(* The inductive invariant behind the safety properties of the switch. *)

(* Kernel tasks are only ever in kernel code. *)
SegmentInv == \A t \in KernelTasks : at[t].cs = KernelCode /\ saved[t].cs = KernelCode

(* The bases, where they are now and where the scheduler will take them from. *)
BasesInv ==
    status = "ok" =>
        /\ BasesNameCurrent
        /\ cur = Boot => gs = NULL /\ kgs = NULL
        /\ \A t \in Tasks : saved[t].cs = UserCode => gs_base[t] \in {NULL, t}

(* What the scheduler will load is where a task suspended in the kernel is. *)
SavedInv ==
    status = "ok" =>
        \A t \in Tasks \ {cur} : at[t].cs = KernelCode => saved[t] = at[t]

(* What every reachable state of the scheduler satisfies: the strengthening of *)
(* BasesNameCurrent that the gates, the ticks and the system calls preserve.   *)
SwitchInv == TypeOK /\ SegmentInv /\ BasesInv /\ SavedInv

-----------------------------------------------------------------------------
(* What comments of the source say and the code does not do. *)

(* "copy the saved registers into the current task": a task that is suspended  *)
(* resumes where it was, in user code too. The gate, whose comment says "check *)
(* if code segment is user", looks at another word on entry and leaves the     *)
(* scheduler with the program's own gs base.                                   *)
ContextKept == [][\A t \in Tasks \ {cur} : at'[t] = at[t]]_vars

(* "this was the regular gs base ... will be swapped to be the regular gs      *)
(* base": while a system call runs, the kernel gs base holds the program's own *)
(* gs base, which is 0 from the start.                                         *)
UserGsBaseKept == UAt("syscall") => kgs = NULL

(* "switch to the next task": the link a tick follows leads to a task. *)
TickFindsTask == status = "ok" => Target \in Tasks

=============================================================================
