---------------------------- MODULE Sched_proofs ----------------------------
(* Proofs about the scheduler, for any number of kernel tasks. *)
EXTENDS Sched, TLAPS

(* The special pointers are different from each other and from every task. *)
LEMMA Pointers ==
    /\ NULL \notin Tasks /\ Junk \notin Tasks /\ ListHead \notin Tasks /\ Boot \notin Tasks
    /\ NULL # Junk /\ NULL # ListHead /\ NULL # Boot /\ Junk # ListHead
    /\ KernelTasks \subseteq Tasks /\ K \in KernelTasks /\ U \in Tasks /\ U \notin KernelTasks
    /\ Tasks = KernelTasks \cup {U}
BY TasksAssumption DEF Tasks, KernelTasks, NULL, Junk, ListHead, Boot

(* A frame's two kinds, and what the constructors build. *)
LEMMA FrameFacts ==
    /\ \A f \in Frames : f.cs \in {KernelCode, UserCode} /\ f.rip # UserCode
    /\ \A f \in Frames : f.cs = UserCode => f.rip \in UserRips
    /\ \A f \in Frames : f.rip \in KernelRips => f.cs = KernelCode
    /\ \A r \in UserRips : User(r) \in Frames /\ User(r).cs = UserCode
    /\ \A r \in KernelRips : Kernel(r) \in Frames /\ Kernel(r).cs = KernelCode
    /\ KernelCode # UserCode
BY DEF Frames, UserRips, KernelRips, KernelCode, UserCode, User, Kernel

(* The gate never exchanges the bases on entry: what it compares with the user *)
(* code segment is an instruction pointer.                                     *)
LEMMA NoSwapOnEntry ==
    ASSUME TypeOK
    PROVE  /\ Frame \in Frames
           /\ EntryGs = gs /\ EntryKgs = kgs
<1>1. Frame \in Frames
  BY FrameFacts DEF Frame, TypeOK, KernelRips
<1> QED BY <1>1, FrameFacts DEF EntryGs, EntryKgs, SwapsOnEntry

(* The initial list links listed tasks and the head only. *)
LEMMA InitialLinks ==
    \A n \in KernelTasks \cup {ListHead} : After(n) \in Nodes /\ Before(n) \in Nodes
<1>1. /\ Listed \in Seq(KernelTasks)
      /\ Len(Listed) \in Nat /\ Len(Listed) >= 1
      /\ DOMAIN Listed = 1 .. Len(Listed)
      /\ \A i \in 1 .. Len(Listed) : Listed[i] \in KernelTasks
  BY TasksAssumption DEF Listed, KernelTasks
<1>2. \A t \in KernelTasks : \E i \in 1 .. Len(Listed) : Listed[i] = t
  <2>1. Workers \in Seq(KernelTasks) /\ K \in KernelTasks
    BY TasksAssumption DEF KernelTasks
  <2>2. Len(Listed) = Len(Workers) + 1 /\ Listed[Len(Workers) + 1] = K /\ Len(Workers) \in Nat
    BY <2>1 DEF Listed
  <2>3. \A i \in 1 .. Len(Workers) : Listed[i] = Workers[i]
    BY <2>1 DEF Listed
  <2>4. DOMAIN Workers = 1 .. Len(Workers)
    BY <2>1
  <2> QED BY <2>2, <2>3, <2>4 DEF KernelTasks
<1>3. \A t \in KernelTasks : Position(t) \in 1 .. Len(Listed) /\ Listed[Position(t)] = t
  BY <1>1, <1>2 DEF Position
<1>4. KernelTasks \subseteq Nodes /\ ListHead \in Nodes /\ ListHead \notin KernelTasks
  BY Pointers DEF Nodes
<1>5. Listed[1] \in Nodes /\ Listed[Len(Listed)] \in Nodes
  BY <1>1, <1>4
<1>6. ASSUME NEW t \in KernelTasks, t # Listed[Len(Listed)]
      PROVE  Listed[Position(t) + 1] \in Nodes
  BY <1>1, <1>3, <1>4, <1>6
<1>7. ASSUME NEW t \in KernelTasks, t # Listed[1]
      PROVE  Listed[Position(t) - 1] \in Nodes
  BY <1>1, <1>3, <1>4, <1>7
<1> QED BY <1>4, <1>5, <1>6, <1>7 DEF After, Before

(* The state the scheduler is started in satisfies the invariant. *)
LEMMA InitSwitchInv == Init => SwitchInv
<1> SUFFICES ASSUME Init PROVE SwitchInv
  OBVIOUS
<1>1. \A t \in Tasks : EntryPoint(t) \in Frames
  BY FrameFacts DEF EntryPoint, UserRips, KernelRips
<1>2. \A t \in KernelTasks : EntryPoint(t).cs = KernelCode
  BY FrameFacts, Pointers DEF EntryPoint, KernelRips
<1>3. PICK junk \in {NULL, Junk} :
        /\ next = [n \in Nodes |-> IF n = U THEN junk ELSE After(n)]
        /\ prev = [n \in Nodes |-> IF n = U THEN junk ELSE Before(n)]
  BY DEF Init
<1>4. \A n \in Nodes : n # U => n \in KernelTasks \cup {ListHead}
  BY Pointers DEF Nodes
<1>5. TypeOK
  BY <1>1, <1>3, <1>4, InitialLinks DEF Init, TypeOK, UserRips
<1>6. SegmentInv
  BY <1>2, Pointers DEF Init, SegmentInv
<1>7. BasesInv
  <2>1. \A t \in Tasks : saved[t].cs = UserCode => t = U
    BY <1>2, FrameFacts, Pointers DEF Init
  <2> QED BY <2>1 DEF Init, BasesInv, BasesNameCurrent
<1>8. SavedInv
  BY DEF Init, SavedInv
<1> QED BY <1>5, <1>6, <1>7, <1>8 DEF SwitchInv

-----------------------------------------------------------------------------
(* A tick. *)
LEMMA TickSwitchInv ==
    ASSUME SwitchInv, TimerTick
    PROVE  SwitchInv'
<1> USE DEF SwitchInv
<1>1. Frame \in Frames /\ EntryGs = gs /\ EntryKgs = kgs
  BY NoSwapOnEntry
<1>2. SavedThen \in [Tasks -> Frames] /\ GsBaseThen \in [Tasks -> Tasks \cup {NULL, Junk}]
  BY <1>1 DEF SavedThen, GsBaseThen, TypeOK
<1>3. \A t \in Tasks : SavedThen[t].cs = UserCode => GsBaseThen[t] \in {NULL, t}
  <2> SUFFICES ASSUME NEW t \in Tasks, SavedThen[t].cs = UserCode
               PROVE  GsBaseThen[t] \in {NULL, t}
    OBVIOUS
  <2>1. CASE t = gs
    <3>1. cur # Boot /\ cur = gs /\ kgs \in {NULL, cur}
      BY <2>1, Pointers DEF TimerTick, BasesInv, BasesNameCurrent
    <3> QED BY <1>1, <2>1, <3>1 DEF GsBaseThen
  <2>2. CASE t # gs
    BY <1>1, <2>2 DEF GsBaseThen, SavedThen, TimerTick, BasesInv
  <2> QED BY <2>1, <2>2
<1>4. Target \in Tasks /\ cur' = Target /\ status' = "ok" /\ saved' = SavedThen
      /\ gs_base' = GsBaseThen
  BY DEF TimerTick
<1>5. at' \in [Tasks -> Frames] /\ at'[Target] = SavedThen[Target]
      /\ \A t \in Tasks : t # Target => at'[t] = at[t]
  BY <1>2, <1>4 DEF TimerTick, TypeOK
<1>6. gs' \in {NULL, Target} /\ kgs' = Target
      /\ (SavedThen[Target].cs # UserCode => gs' = Target)
  BY <1>3, <1>4 DEF TimerTick, GsFor, KgsFor, SwapsOnExit
<1>7. TypeOK'
  BY <1>2, <1>4, <1>5, <1>6 DEF TimerTick, TypeOK, links
<1>8. SegmentInv'
  <2>1. \A t \in KernelTasks : SavedThen[t].cs = KernelCode
    <3> SUFFICES ASSUME NEW t \in KernelTasks PROVE SavedThen[t].cs = KernelCode
      OBVIOUS
    <3>1. CASE t = gs
      <4>1. cur = t /\ cur # Boot
        BY <3>1, Pointers DEF TimerTick, BasesInv, BasesNameCurrent
      <4>2. Frame.cs = KernelCode
        BY <4>1 DEF Frame, SegmentInv
      <4> QED BY <1>1, <3>1, <4>2, Pointers DEF SavedThen
    <3>2. CASE t # gs
      BY <1>1, <3>2, Pointers DEF SavedThen, SegmentInv
    <3> QED BY <3>1, <3>2
  <2> QED BY <1>4, <1>5, <2>1, Pointers DEF SegmentInv
<1>9. BasesInv'
  <2>1. Target # Boot /\ at'[cur'] = SavedThen[Target]
    BY <1>4, <1>5, Pointers
  <2>2. BasesNameCurrent'
    BY <1>4, <1>6, <2>1, FrameFacts DEF BasesNameCurrent
  <2> QED BY <1>3, <1>4, <2>1, <2>2 DEF BasesInv
<1>10. SavedInv'
  <2> SUFFICES ASSUME NEW t \in Tasks, t # Target, at[t].cs = KernelCode
               PROVE  SavedThen[t] = at[t]
    BY <1>4, <1>5 DEF SavedInv
  <2>1. CASE t = cur
    <3>1. gs = cur /\ Frame = at[t]
      BY <2>1, Pointers DEF TimerTick, BasesInv, BasesNameCurrent, Frame
    <3> QED BY <1>1, <2>1, <3>1 DEF SavedThen
  <2>2. CASE t # cur
    <3>1. t # gs
      BY <2>2, Pointers DEF TimerTick, BasesInv, BasesNameCurrent
    <3> QED BY <1>1, <2>2, <3>1 DEF SavedThen, SavedInv, TimerTick
  <2> QED BY <2>1, <2>2
<1> QED BY <1>7, <1>8, <1>9, <1>10

-----------------------------------------------------------------------------
(* Steps of the running task. *)

(* A step that moves only the running task preserves the invariant when it     *)
(* leaves the bases as BasesNameCurrent wants them.                            *)
LEMMA OwnStep ==
    ASSUME SwitchInv, status = "ok", cur \in Tasks, NEW f \in Frames,
           at' = [at EXCEPT ![cur] = f],
           cur \in KernelTasks => f.cs = KernelCode,
           {gs', kgs'} \subseteq {NULL, cur},
           f.cs = KernelCode => gs' = cur,
           f.cs = UserCode => cur \in {gs', kgs'},
           next' \in [Nodes -> Nodes \cup {NULL, Junk}],
           prev' \in [Nodes -> Nodes \cup {NULL, Junk}],
           kstack' \in UserRips, istack' \in UserRips,
           UNCHANGED <<cur, saved, gs_base, status>>
    PROVE  SwitchInv'
<1> USE DEF SwitchInv
<1>1. at' \in [Tasks -> Frames] /\ at'[cur] = f /\ \A t \in Tasks : t # cur => at'[t] = at[t]
  BY DEF TypeOK
<1>2. TypeOK'
  BY <1>1 DEF TypeOK
<1>3. SegmentInv'
  BY <1>1, Pointers DEF SegmentInv
<1>4. BasesInv'
  BY <1>1, Pointers DEF BasesInv, BasesNameCurrent
<1>5. SavedInv'
  BY <1>1 DEF SavedInv
<1> QED BY <1>2, <1>3, <1>4, <1>5

(* The kernel tasks' steps leave the bases alone. *)
LEMMA KernelSwitchInv ==
    ASSUME SwitchInv, WorkerStep \/ KLoad \/ AddBefore \/ KSeesDeath
    PROVE  SwitchInv'
<1>1. status = "ok" /\ cur \in KernelTasks /\ cur \in Tasks
  BY Pointers DEF WorkerStep, KLoad, AddBefore, AddBefore1, AddBefore2, AddBefore3,
                  AddBefore4, KSeesDeath, KAt, Runs
<1>2. PICK r \in KernelRips : at' = [at EXCEPT ![cur] = Kernel(r)]
  <2>1. CASE WorkerStep
    BY <2>1 DEF WorkerStep, Goto, KernelRips
  <2>2. CASE KLoad \/ AddBefore \/ KSeesDeath
    BY <2>2 DEF KLoad, AddBefore, AddBefore1, AddBefore2, AddBefore3, AddBefore4,
                KSeesDeath, KAt, Runs, Goto, KernelRips
  <2> QED BY <2>1, <2>2
<1>3. UNCHANGED <<gs, kgs, gs_base, cur, saved, kstack, istack, status>>
  BY DEF WorkerStep, KLoad, AddBefore, AddBefore1, AddBefore2, AddBefore3, AddBefore4,
         KSeesDeath, bases
<1>4. next' \in [Nodes -> Nodes \cup {NULL, Junk}]
  BY Pointers DEF SwitchInv, TypeOK, WorkerStep, KLoad, AddBefore, AddBefore1, AddBefore2,
         AddBefore3, AddBefore4, KSeesDeath, links, Nodes
<1>5. prev' \in [Nodes -> Nodes \cup {NULL, Junk}]
  BY Pointers DEF SwitchInv, TypeOK, WorkerStep, KLoad, AddBefore, AddBefore1, AddBefore2,
         AddBefore3, AddBefore4, KSeesDeath, links, Nodes
<1>6. Kernel(r) \in Frames /\ Kernel(r).cs = KernelCode /\ KernelCode # UserCode
  BY FrameFacts
<1>7. gs' = cur /\ {gs', kgs'} \subseteq {NULL, cur}
  BY <1>1, <1>3, Pointers DEF SwitchInv, BasesInv, BasesNameCurrent, SegmentInv
<1>8. kstack' \in UserRips /\ istack' \in UserRips
  BY <1>3 DEF SwitchInv, TypeOK
<1> QED BY <1>1, <1>2, <1>3, <1>4, <1>5, <1>6, <1>7, <1>8, OwnStep

(* What holds when the user task runs. *)
LEMMA UserBases ==
    ASSUME SwitchInv, Runs(U)
    PROVE  /\ status = "ok" /\ cur = U /\ cur \in Tasks /\ cur \notin KernelTasks /\ cur # Boot
           /\ {gs, kgs} \subseteq {NULL, U}
           /\ at[U] \in Frames
           /\ at[U].cs = KernelCode => gs = U
           /\ at[U].cs = UserCode => U \in {gs, kgs} /\ at[U].rip \in UserRips
           /\ at[U].rip \in KernelRips => at[U].cs = KernelCode
           /\ EntryGs = gs /\ EntryKgs = kgs
<1>1. status = "ok" /\ cur = U /\ cur \in Tasks /\ cur \notin KernelTasks /\ cur # Boot
  BY Pointers DEF Runs
<1>2. at[U] \in Frames
  BY Pointers DEF SwitchInv, TypeOK
<1>3. EntryGs = gs /\ EntryKgs = kgs
  BY NoSwapOnEntry DEF SwitchInv
<1> QED BY <1>1, <1>2, <1>3, FrameFacts DEF SwitchInv, BasesInv, BasesNameCurrent

(* The user task's steps: system calls, faults and device interrupts move or   *)
(* exchange the bases, of which one is always the task.                        *)
LEMMA UserSwitchInv ==
    ASSUME SwitchInv,
           \/ UserStep \/ SyscallEnter \/ SyscallReturn \/ FaultReturn \/ Die
           \/ UserFault("fault") \/ UserFault("crash")
    PROVE  SwitchInv'
<1>1. Runs(U)
  BY DEF UserStep, SyscallEnter, SyscallReturn, FaultReturn, Die, UserFault, InUser, UAt
<1>2. UNCHANGED <<cur, saved, gs_base, status>>
  BY DEF UserStep, SyscallEnter, SyscallReturn, FaultReturn, Die, UserFault, bases
<1>3. next' \in [Nodes -> Nodes \cup {NULL, Junk}] /\ prev' \in [Nodes -> Nodes \cup {NULL, Junk}]
  <2>1. CASE Die
    <3>1. next' \in [Nodes -> Nodes \cup {NULL, Junk}]
      BY <2>1 DEF Die, SwitchInv, TypeOK
    <3>2. prev' \in [Nodes -> Nodes \cup {NULL, Junk}]
      BY <2>1 DEF Die, SwitchInv, TypeOK
    <3> QED BY <3>1, <3>2
  <2>2. CASE ~ Die
    BY <2>2 DEF UserStep, SyscallEnter, SyscallReturn, FaultReturn, UserFault, links,
                SwitchInv, TypeOK
  <2> QED BY <2>1, <2>2
<1>4. \A r : OtherHalf(r) \in UserRips
  BY DEF OtherHalf, UserRips
<1>5. kstack' \in UserRips /\ istack' \in UserRips
  <2>1. CASE UserFault("fault") \/ UserFault("crash")
    BY <2>1, <1>1, UserBases DEF UserFault, InUser, SwitchInv, TypeOK
  <2>2. CASE UserStep \/ SyscallEnter \/ SyscallReturn \/ FaultReturn \/ Die
    BY <2>2, <1>4 DEF UserStep, SyscallEnter, SyscallReturn, FaultReturn, Die, SwitchInv, TypeOK
  <2> QED BY <2>1, <2>2
<1>6. PICK f \in Frames :
        /\ at' = [at EXCEPT ![cur] = f]
        /\ {gs', kgs'} \subseteq {NULL, cur}
        /\ f.cs = KernelCode => gs' = cur
        /\ f.cs = UserCode => cur \in {gs', kgs'}
  <2>1. CASE UserStep
    <3>1. User(OtherHalf(at[U].rip)) \in Frames /\ User(OtherHalf(at[U].rip)).cs = UserCode
      BY <1>4, FrameFacts
    <3> QED BY <2>1, <3>1, <1>1, UserBases, FrameFacts DEF UserStep, InUser, bases
  <2>2. CASE SyscallEnter
    <3>1. Kernel("syscall") \in Frames /\ Kernel("syscall").cs = KernelCode
      BY FrameFacts DEF KernelRips
    <3> QED BY <2>2, <3>1, <1>1, UserBases, FrameFacts DEF SyscallEnter, InUser, Goto
  <2>3. CASE SyscallReturn
    <3>1. User(kstack) \in Frames /\ User(kstack).cs = UserCode
      BY FrameFacts DEF SwitchInv, TypeOK
    <3>2. at[U].cs = KernelCode
      BY <2>3, <1>1, UserBases DEF SyscallReturn, UAt, KernelRips
    <3> QED BY <2>3, <3>1, <3>2, <1>1, UserBases, FrameFacts DEF SyscallReturn
  <2>4. CASE FaultReturn
    <3>1. User(istack) \in Frames /\ User(istack).cs = UserCode
      BY FrameFacts DEF SwitchInv, TypeOK
    <3>2. at[U].cs = KernelCode
      BY <2>4, <1>1, UserBases DEF FaultReturn, UAt, KernelRips
    <3> QED BY <2>4, <3>1, <3>2, <1>1, UserBases, FrameFacts DEF FaultReturn
  <2>5. CASE Die
    <3>1. Kernel("die") \in Frames /\ Kernel("die").cs = KernelCode
      BY FrameFacts DEF KernelRips
    <3>2. at[U].cs = KernelCode
      BY <2>5, <1>1, UserBases DEF Die, UAt, KernelRips
    <3> QED BY <2>5, <3>1, <3>2, <1>1, UserBases, FrameFacts DEF Die, Goto, bases
  <2>6. ASSUME NEW r \in {"fault", "crash"}, UserFault(r)
        PROVE  \E f \in Frames :
                 /\ at' = [at EXCEPT ![cur] = f]
                 /\ {gs', kgs'} \subseteq {NULL, cur}
                 /\ f.cs = KernelCode => gs' = cur
                 /\ f.cs = UserCode => cur \in {gs', kgs'}
    <3>1. Kernel(r) \in Frames /\ Kernel(r).cs = KernelCode
      BY <2>6, FrameFacts DEF KernelRips
    <3> QED BY <2>6, <3>1, <1>1, UserBases, FrameFacts DEF UserFault, Goto
  <2> QED BY <2>1, <2>2, <2>3, <2>4, <2>5, <2>6
<1> QED BY <1>1, <1>2, <1>3, <1>5, <1>6, UserBases, OwnStep

(* A device interrupt in user code moves nothing but the bases. *)
LEMMA DeviceSwitchInv ==
    ASSUME SwitchInv, DeviceIrq
    PROVE  SwitchInv'
<1>1. Runs(U) /\ at[U].cs = UserCode
  BY DEF DeviceIrq
<1>2. {gs', kgs'} \subseteq {NULL, U} /\ U \in {gs', kgs'}
  BY <1>1, UserBases DEF DeviceIrq
<1>3. at' = [at EXCEPT ![U] = at[U]]
  BY DEF DeviceIrq, SwitchInv, TypeOK
<1>4. /\ UNCHANGED <<cur, saved, gs_base, status>>
      /\ next' \in [Nodes -> Nodes \cup {NULL, Junk}]
      /\ prev' \in [Nodes -> Nodes \cup {NULL, Junk}]
      /\ kstack' \in UserRips /\ istack' \in UserRips
  BY DEF DeviceIrq, links, SwitchInv, TypeOK
<1> QED BY <1>1, <1>2, <1>3, <1>4, UserBases, OwnStep, FrameFacts

(* Steps that stop the machine. *)
LEMMA StopSwitchInv ==
    ASSUME SwitchInv,
           TimerTickAstray \/ KReboot \/ SyscallAstray \/ UserFaultAstray \/ DieAstray
    PROVE  SwitchInv'
<1>1. status' \in {"panic", "wild", "reboot"} /\ status' # "ok"
  BY DEF TimerTickAstray, KReboot, SyscallAstray, UserFaultAstray, DieAstray
<1>2. TypeOK' /\ SegmentInv'
  BY <1>1 DEF SwitchInv, TypeOK, SegmentInv, TimerTickAstray, KReboot, SyscallAstray,
              UserFaultAstray, DieAstray, links, bases
<1> QED BY <1>1, <1>2 DEF SwitchInv, BasesInv, SavedInv

(* The inductive step. *)
LEMMA NextSwitchInv == SwitchInv /\ [Next]_vars => SwitchInv'
<1> SUFFICES ASSUME SwitchInv, [Next]_vars PROVE SwitchInv'
  OBVIOUS
<1>1. CASE UNCHANGED vars
  BY <1>1 DEF vars, links, bases, SwitchInv, TypeOK, SegmentInv, BasesInv,
              BasesNameCurrent, SavedInv
<1>2. CASE Tick
  BY <1>2, TickSwitchInv, StopSwitchInv DEF Tick
<1>3. CASE DeviceIrq
  BY <1>3, DeviceSwitchInv
<1>4. CASE WorkerStep
  BY <1>4, KernelSwitchInv
<1>5. CASE KStep
  BY <1>5, KernelSwitchInv, StopSwitchInv DEF KStep
<1>6. CASE UStep
  BY <1>6, UserSwitchInv, StopSwitchInv DEF UStep
<1> QED BY <1>1, <1>2, <1>3, <1>4, <1>5, <1>6 DEF Next

(* Every reachable state of the scheduler satisfies the invariant. *)
THEOREM SwitchInvariance == Spec => []SwitchInv
  BY InitSwitchInv, NextSwitchInv, PTL DEF Spec

(* Kernel code finds its own task in the gs base and no base is ever another   *)
(* task's, although the gates exchange the bases only on the way out.          *)
THEOREM BasesAreRight == Spec => []BasesNameCurrent
<1>1. SwitchInv => BasesNameCurrent
  BY DEF SwitchInv, BasesInv, BasesNameCurrent
<1> QED BY SwitchInvariance, <1>1, PTL

(* No step moves a task that is suspended in the kernel: it resumes with the   *)
(* context it was interrupted in.                                              *)
THEOREM KernelContextsAreKept == Spec => KernelContextKept
<1>1. SwitchInv /\ [Next]_vars
        => [\A t \in Tasks \ {cur} : at[t].cs = KernelCode => at'[t] = at[t]]_vars
  <2> SUFFICES ASSUME SwitchInv, Next, NEW t \in Tasks, t # cur, at[t].cs = KernelCode
               PROVE  at'[t] = at[t]
    OBVIOUS
  <2>1. CASE TimerTick
    <3>1. t # gs /\ saved[t] = at[t]
      BY <2>1, Pointers DEF TimerTick, SwitchInv, BasesInv, BasesNameCurrent, SavedInv
    <3>2. SavedThen[t] = at[t]
      BY <3>1, NoSwapOnEntry DEF SwitchInv, SavedThen
    <3> QED BY <2>1, <3>2 DEF TimerTick, SwitchInv, TypeOK
  <2>2. CASE TimerTickAstray \/ KReboot \/ SyscallAstray \/ UserFaultAstray \/ DieAstray
             \/ DeviceIrq
    BY <2>2 DEF TimerTickAstray, KReboot, SyscallAstray, UserFaultAstray, DieAstray, DeviceIrq
  <2>3. CASE WorkerStep \/ KLoad \/ AddBefore \/ KSeesDeath
    BY <2>3 DEF WorkerStep, KLoad, AddBefore, AddBefore1, AddBefore2, AddBefore3, AddBefore4,
                KSeesDeath, KAt, Runs, Goto, SwitchInv, TypeOK
  <2>4. CASE UserStep \/ SyscallEnter \/ SyscallReturn \/ FaultReturn \/ Die
             \/ UserFault("fault") \/ UserFault("crash")
    BY <2>4 DEF UserStep, SyscallEnter, SyscallReturn, FaultReturn, Die, UserFault,
                InUser, UAt, Runs, Goto, SwitchInv, TypeOK
  <2> QED BY <2>1, <2>2, <2>3, <2>4 DEF Next, Tick, KStep, UStep
<1> QED BY SwitchInvariance, <1>1, PTL DEF Spec, KernelContextKept

-----------------------------------------------------------------------------
(* The run queue. *)

KRips == {"load", "enq1", "enq2", "enq3", "enq4", "watch", "reboot"}

(* The user task is linked behind the kernel thread, or has unlinked itself    *)
(* for good.                                                                   *)
Alive == at[U].rip # "die" /\ next[K] = U /\ next[U] = ListHead /\ prev[U] = K
Dead  == at[U].rip = "die" /\ next[K] = ListHead /\ next[U] = NULL

(* The links as the stores of add_before and of dequeue_and_die leave them, by *)
(* the store the kernel thread comes to next. The user task can be scheduled   *)
(* after the first store, but cannot die before the third.                     *)
QueueInv ==
    /\ at[K].rip \in KRips
    /\ saved[U].rip = "die" => at[U].rip = "die"
    /\ \A n \in (KernelTasks \ {K}) \cup {ListHead} : next[n] = After(n)
    /\ at[K].rip \in {"load", "enq1"} => next[K] = ListHead /\ cur # U
    /\ at[K].rip \in {"enq2", "enq3"} => next[K] = U
    /\ at[K].rip \in {"load", "enq1", "enq2", "enq3"} =>
         next[U] \in {NULL, Junk} /\ at[U].rip # "die"
    /\ at[K].rip \in {"load", "enq1", "enq2", "enq3", "enq4"} => prev[ListHead] = K
    /\ at[K].rip = "enq3" => prev[U] = K
    /\ at[K].rip \in {"enq4", "watch"} => Alive \/ Dead
    /\ at[K].rip = "reboot" => Dead

(* The kernel tasks in a row: the row ends with the kernel thread, and After   *)
(* steps along it.                                                             *)
LEMMA ListedFacts ==
    /\ Len(Listed) \in Nat /\ Len(Listed) >= 2
    /\ \A i \in 1 .. Len(Listed) : Listed[i] \in KernelTasks
    /\ Listed[Len(Listed)] = K
    /\ After(ListHead) = Listed[1] /\ After(K) = ListHead
    /\ \A i \in 1 .. (Len(Listed) - 1) : Listed[i] # K /\ After(Listed[i]) = Listed[i + 1]
    /\ \A t \in KernelTasks \ {K} : After(t) \in KernelTasks
<1>1. Workers \in Seq(KernelTasks) /\ K \in KernelTasks /\ Len(Workers) \in Nat
      /\ Len(Workers) >= 1 /\ DOMAIN Workers = 1 .. Len(Workers)
  BY TasksAssumption DEF KernelTasks
<1>2. /\ Len(Listed) = Len(Workers) + 1 /\ Listed[Len(Workers) + 1] = K
      /\ \A i \in 1 .. Len(Workers) : Listed[i] = Workers[i]
      /\ DOMAIN Listed = 1 .. Len(Listed)
  BY <1>1 DEF Listed
<1>3. \A i \in 1 .. Len(Listed) : Listed[i] \in KernelTasks
  BY <1>1, <1>2
<1>4. \A i, j \in 1 .. Len(Listed) : Listed[i] = Listed[j] => i = j
  <2> SUFFICES ASSUME NEW i \in 1 .. Len(Listed), NEW j \in 1 .. Len(Listed),
                      Listed[i] = Listed[j]
               PROVE  i = j
    OBVIOUS
  <2>1. \A k \in 1 .. Len(Workers) : Workers[k] # K
    BY <1>1, TasksAssumption
  <2>2. CASE i \in 1 .. Len(Workers) /\ j \in 1 .. Len(Workers)
    BY <1>1, <1>2, <2>2, TasksAssumption
  <2>3. CASE i = Len(Workers) + 1 \/ j = Len(Workers) + 1
    BY <1>1, <1>2, <2>1, <2>3
  <2> QED BY <1>1, <1>2, <2>2, <2>3
<1>5. \A i \in 1 .. Len(Listed) : Position(Listed[i]) = i
  BY <1>2, <1>4 DEF Position
<1>6. \A i \in 1 .. Len(Listed) : Listed[i] # ListHead
  BY <1>3, Pointers
<1>7. \A i \in 1 .. (Len(Listed) - 1) : Listed[i] # K /\ After(Listed[i]) = Listed[i + 1]
  <2> TAKE i \in 1 .. (Len(Listed) - 1)
  <2>1. i \in 1 .. Len(Listed) /\ i # Len(Listed) /\ Len(Listed) \in 1 .. Len(Listed)
    BY <1>1, <1>2
  <2>2. Listed[i] # Listed[Len(Listed)]
    BY <1>4, <2>1
  <2> QED BY <1>2, <1>5, <1>6, <2>1, <2>2 DEF After
<1>8. After(ListHead) = Listed[1] /\ After(K) = ListHead
  BY <1>1, <1>2, Pointers DEF After
<1>9. \A t \in KernelTasks \ {K} : After(t) \in KernelTasks
  <2> SUFFICES ASSUME NEW t \in KernelTasks, t # K PROVE After(t) \in KernelTasks
    OBVIOUS
  <2>1. PICK i \in 1 .. Len(Workers) : Workers[i] = t
    BY <1>1 DEF KernelTasks
  <2>2. i \in 1 .. (Len(Listed) - 1) /\ i + 1 \in 1 .. Len(Listed) /\ Listed[i] = t
    BY <1>1, <1>2, <2>1
  <2> QED BY <1>3, <1>7, <2>2
<1> QED BY <1>1, <1>2, <1>3, <1>7, <1>8, <1>9

(* The list the scheduler starts with. *)
LEMMA InitQueueInv == Init => QueueInv
<1> SUFFICES ASSUME Init PROVE QueueInv
  OBVIOUS
<1>1. PICK junk \in {NULL, Junk} :
        /\ next = [n \in Nodes |-> IF n = U THEN junk ELSE After(n)]
        /\ prev = [n \in Nodes |-> IF n = U THEN junk ELSE Before(n)]
  BY DEF Init
<1>2. at[K] = Kernel("load") /\ at[U] = User("u0") /\ saved = at /\ K # U
  BY Pointers DEF Init, EntryPoint
<1>3. at[K].rip = "load" /\ at[U].rip = "u0"
  BY <1>2 DEF Kernel, User
<1>4. next[U] = junk /\ U \in Nodes /\ \A n \in KernelTasks \cup {ListHead} : next[n] = After(n)
  BY <1>1, Pointers DEF Nodes
<1>5. next[K] = ListHead
  BY <1>4, ListedFacts, Pointers
<1>6. prev[ListHead] = K
  BY <1>1, ListedFacts, Pointers DEF Nodes, Before
<1>7. cur # U
  BY Pointers DEF Init
<1> QED BY <1>2, <1>3, <1>4, <1>5, <1>6, <1>7 DEF QueueInv, KRips

(* A tick moves no task that is in the kernel, whichever task it goes to. *)
LEMMA TickKeepsKernel ==
    ASSUME SwitchInv, TimerTick, NEW t \in Tasks, at[t].cs = KernelCode
    PROVE  SavedThen[t] = at[t] /\ at'[t] = at[t]
<1>1. SavedThen[t] = at[t]
  <2>1. EntryGs = gs /\ status = "ok"
    BY NoSwapOnEntry DEF SwitchInv, TimerTick
  <2>2. CASE t = cur
    <3>1. gs = cur /\ Frame = at[t]
      BY <2>1, <2>2, Pointers DEF SwitchInv, BasesInv, BasesNameCurrent, Frame
    <3> QED BY <2>1, <2>2, <3>1 DEF SavedThen
  <2>3. CASE t # cur
    <3>1. t # gs
      BY <2>1, <2>3, Pointers DEF SwitchInv, BasesInv, BasesNameCurrent
    <3> QED BY <2>1, <2>3, <3>1 DEF SavedThen, SwitchInv, SavedInv
  <2> QED BY <2>2, <2>3
<1> QED BY <1>1 DEF TimerTick, SwitchInv, TypeOK

(* A tick goes to the user task only while it is linked. *)
LEMMA TickFindsLinked ==
    ASSUME SwitchInv, QueueInv, TimerTick, cur' = U
    PROVE  next[K] = U
<1>1. EntryGs = gs /\ cur' = Target /\ gs \in Tasks \cup {NULL}
  BY NoSwapOnEntry DEF SwitchInv, TimerTick, TypeOK
<1>2. next[ListHead] \in KernelTasks
  BY ListedFacts DEF QueueInv
<1>3. gs \in Tasks /\ next[gs] = U
  BY <1>1, <1>2, Pointers DEF Target
<1>4. gs \notin KernelTasks \ {K}
  BY <1>3, ListedFacts, Pointers DEF QueueInv
<1>5. gs # U
  <2>1. next[U] # U
    BY Pointers DEF QueueInv, KRips, Alive, Dead
  <2> QED BY <1>3, <2>1
<1> QED BY <1>3, <1>4, <1>5, Pointers

(* A step that changes no link and leaves both the kernel thread and the death *)
(* of the user task alone.                                                     *)
LEMMA QuietQueueInv ==
    ASSUME QueueInv, UNCHANGED links, at'[K] = at[K],
           at'[U].rip = "die" <=> at[U].rip = "die",
           saved'[U].rip = "die" => at[U].rip = "die",
           at[K].rip \in {"load", "enq1"} => cur' # U
    PROVE  QueueInv'
BY DEF QueueInv, links, Alive, Dead

LEMMA TickQueueInv ==
    ASSUME SwitchInv, QueueInv, TimerTick
    PROVE  QueueInv'
<1>1. at[K].cs = KernelCode /\ K \in Tasks /\ U \in Tasks
  BY Pointers DEF SwitchInv, SegmentInv
<1>2. at'[K] = at[K] /\ UNCHANGED links
  BY <1>1, TickKeepsKernel DEF TimerTick
<1>3. at[U].rip = "die" => at'[U].rip = "die" /\ at[U].cs = KernelCode
  <2> SUFFICES ASSUME at[U].rip = "die" PROVE at'[U].rip = "die" /\ at[U].cs = KernelCode
    OBVIOUS
  <2>1. at[U].cs = KernelCode
    BY <1>1, FrameFacts DEF SwitchInv, TypeOK, KernelRips
  <2> QED BY <1>1, <2>1, TickKeepsKernel
<1>4. SavedThen[U].rip = "die" => at[U].rip = "die"
  <2>1. EntryGs = gs /\ status = "ok"
    BY NoSwapOnEntry DEF SwitchInv, TimerTick
  <2>2. CASE U = gs
    <3>1. cur = U /\ Frame = at[U]
      BY <2>1, <2>2, Pointers DEF SwitchInv, BasesInv, BasesNameCurrent, Frame
    <3> QED BY <1>1, <2>1, <2>2, <3>1 DEF SavedThen
  <2>3. CASE U # gs
    BY <1>1, <2>1, <2>3 DEF SavedThen, QueueInv
  <2> QED BY <2>2, <2>3
<1>5. at'[U].rip = "die" => at[U].rip = "die"
  <2>1. at'[U] = at[U] \/ at'[U] = SavedThen[U]
    BY <1>1 DEF TimerTick, SwitchInv, TypeOK
  <2> QED BY <1>4, <2>1
<1>6. at[K].rip \in {"load", "enq1"} => cur' # U
  BY TickFindsLinked, Pointers DEF QueueInv
<1>7. saved' = SavedThen
  BY DEF TimerTick
<1> QED BY <1>2, <1>3, <1>4, <1>5, <1>6, <1>7, QuietQueueInv

(* The kernel tasks' steps: the four stores, in their order, around whatever   *)
(* the user task has done since the first.                                     *)
LEMMA KernelQueueInv ==
    ASSUME SwitchInv, QueueInv, WorkerStep \/ KLoad \/ AddBefore \/ KSeesDeath
    PROVE  QueueInv'
<1> USE DEF SwitchInv
<1>1. /\ next \in [Nodes -> Nodes \cup {NULL, Junk}] /\ prev \in [Nodes -> Nodes \cup {NULL, Junk}]
      /\ at \in [Tasks -> Frames]
      /\ U \in Nodes /\ K \in Nodes /\ ListHead \in Nodes /\ KernelTasks \subseteq Nodes
      /\ U \notin KernelTasks /\ K \in KernelTasks /\ ListHead \notin KernelTasks
      /\ U # ListHead /\ U # NULL /\ K # U /\ K \in Tasks /\ U \in Tasks
  BY Pointers DEF TypeOK, Nodes
<1>2. CASE WorkerStep
  <2>1. UNCHANGED <<next, prev, saved, cur>> /\ at'[K] = at[K] /\ at'[U] = at[U]
    BY <1>1, <1>2 DEF WorkerStep, Goto, links
  <2> QED BY <2>1, QuietQueueInv DEF QueueInv, links
<1>3. ASSUME NEW r \in KRips, Goto(K, r)
      PROVE  at'[K].rip = r /\ at'[U] = at[U]
  BY <1>1, <1>3 DEF Goto, Kernel
<1>4. CASE KLoad
  <2>1. at[K].rip = "load" /\ at'[K].rip = "enq1" /\ at'[U] = at[U]
        /\ UNCHANGED <<next, prev, saved, cur>>
    BY <1>3, <1>4 DEF KLoad, KAt, KRips, links
  <2> QED BY <2>1 DEF QueueInv, KRips
<1>5. CASE AddBefore1
  <2>1. at[K].rip = "enq1" /\ at'[K].rip = "enq2" /\ at'[U] = at[U]
        /\ UNCHANGED <<prev, saved, cur>>
    BY <1>3, <1>5 DEF AddBefore1, KAt, KRips
  <2>2. next' = [next EXCEPT ![K] = U]
    BY <1>5, <2>1 DEF AddBefore1, QueueInv
  <2>3. next'[K] = U /\ \A n \in Nodes \ {K} : next'[n] = next[n]
    BY <1>1, <2>2
  <2> QED BY <1>1, <2>1, <2>3 DEF QueueInv, KRips
<1>6. CASE AddBefore2
  <2>1. at[K].rip = "enq2" /\ at'[K].rip = "enq3" /\ at'[U] = at[U]
        /\ UNCHANGED <<next, saved, cur>>
    BY <1>3, <1>6 DEF AddBefore2, KAt, KRips
  <2>2. prev' = [prev EXCEPT ![U] = K]
    BY <1>6, <2>1 DEF AddBefore2, QueueInv
  <2>3. prev'[U] = K /\ prev'[ListHead] = prev[ListHead]
    BY <1>1, <2>2
  <2> QED BY <1>1, <2>1, <2>3 DEF QueueInv, KRips
<1>7. CASE AddBefore3
  <2>1. at[K].rip = "enq3" /\ at'[K].rip = "enq4" /\ at'[U] = at[U]
        /\ UNCHANGED <<prev, saved, cur>>
    BY <1>3, <1>7 DEF AddBefore3, KAt, KRips
  <2>2. next'[U] = ListHead /\ \A n \in Nodes \ {U} : next'[n] = next[n]
    BY <1>1, <1>7 DEF AddBefore3
  <2>3. Alive'
    BY <1>1, <2>1, <2>2 DEF QueueInv, Alive
  <2> QED BY <1>1, <2>1, <2>2, <2>3 DEF QueueInv, KRips
<1>8. CASE AddBefore4
  <2>1. at[K].rip = "enq4" /\ at'[K].rip = "watch" /\ at'[U] = at[U]
        /\ UNCHANGED <<next, saved, cur>>
    BY <1>3, <1>8 DEF AddBefore4, KAt, KRips
  <2>2. prev'[U] = prev[U]
    BY <1>1, <1>8 DEF AddBefore4
  <2>3. Alive' \/ Dead'
    BY <2>1, <2>2 DEF QueueInv, Alive, Dead
  <2> QED BY <2>1, <2>3 DEF QueueInv, KRips
<1>9. CASE KSeesDeath
  <2>1. at[K].rip = "watch" /\ at'[K].rip = "reboot" /\ at'[U] = at[U] /\ next[U] = NULL
        /\ UNCHANGED <<next, prev, saved, cur>>
    BY <1>3, <1>9 DEF KSeesDeath, SawDeath, KAt, KRips, links
  <2>2. Dead
    BY <2>1, Pointers DEF QueueInv, Alive
  <2> QED BY <2>1, <2>2 DEF QueueInv, KRips, Dead
<1> QED BY <1>2, <1>4, <1>5, <1>6, <1>7, <1>8, <1>9 DEF AddBefore

(* The user task's steps, of which only dequeue_and_die writes links. *)
LEMMA UserQueueInv ==
    ASSUME SwitchInv, QueueInv,
           \/ UserStep \/ SyscallEnter \/ SyscallReturn \/ FaultReturn \/ Die
           \/ UserFault("fault") \/ UserFault("crash")
    PROVE  QueueInv'
<1>1. Runs(U) /\ cur = U
  BY DEF UserStep, SyscallEnter, SyscallReturn, FaultReturn, Die, UserFault, InUser, UAt, Runs
<1>2. UNCHANGED <<cur, saved>>
  BY DEF UserStep, SyscallEnter, SyscallReturn, FaultReturn, Die, UserFault
<1>3. /\ at \in [Tasks -> Frames] /\ K \in Tasks /\ U \in Tasks /\ K # U
      /\ next \in [Nodes -> Nodes \cup {NULL, Junk}] /\ prev \in [Nodes -> Nodes \cup {NULL, Junk}]
      /\ U \in Nodes /\ K \in Nodes /\ ListHead \in Nodes /\ KernelTasks \subseteq Nodes
      /\ U \notin KernelTasks /\ ListHead \notin KernelTasks
      /\ U # ListHead /\ U # NULL /\ K # ListHead /\ NULL \notin Nodes
  BY Pointers DEF SwitchInv, TypeOK, Nodes
<1>4. at[U].rip # "die"
  BY <1>1, FrameFacts, UserBases
     DEF UserStep, SyscallEnter, SyscallReturn, FaultReturn, Die, UserFault, InUser, UAt, UserRips
<1>5. at'[K] = at[K]
  BY <1>3 DEF UserStep, SyscallEnter, SyscallReturn, FaultReturn, Die, UserFault, Goto
<1>6. CASE Die
  <2>1. gs = U
    BY <1>1, <1>6, UserBases DEF Die, UAt, KernelRips
  <2>2. next[U] \in Nodes
    BY <1>6, <2>1 DEF Die
  <2>3. at[K].rip \in {"enq4", "watch"} /\ Alive
    BY <1>4, <2>2, Pointers DEF QueueInv, KRips, Dead, Nodes
  <2>4. next' = [next EXCEPT ![K] = ListHead, ![U] = NULL]
        /\ prev' = [prev EXCEPT ![ListHead] = K, ![U] = NULL]
    BY <1>6, <2>1, <2>3 DEF Die, Alive
  <2>5. next'[K] = ListHead /\ next'[U] = NULL /\ prev'[ListHead] = K
        /\ \A n \in Nodes \ {K, U} : next'[n] = next[n]
    BY <1>3, <2>4
  <2>6. at'[U].rip = "die"
    BY <1>3, <1>6 DEF Die, Goto, Kernel
  <2>7. Dead'
    BY <2>5, <2>6 DEF Dead
  <2> QED BY <1>2, <1>3, <1>5, <2>3, <2>5, <2>6, <2>7 DEF QueueInv, KRips
<1>7. CASE ~ Die
  <2>1. UNCHANGED links
    BY <1>7 DEF UserStep, SyscallEnter, SyscallReturn, FaultReturn, UserFault
  <2>2. at'[U].rip # "die"
    <3>1. \A r : OtherHalf(r) \in UserRips
      BY DEF OtherHalf, UserRips
    <3>2. "die" \notin UserRips /\ kstack \in UserRips /\ istack \in UserRips
      BY DEF SwitchInv, TypeOK, UserRips
    <3> QED BY <1>3, <1>7, <3>1, <3>2
         DEF UserStep, SyscallEnter, SyscallReturn, FaultReturn, UserFault, Goto, User, Kernel
  <2> QED BY <1>1, <1>2, <1>4, <1>5, <2>1, <2>2, QuietQueueInv DEF QueueInv
<1> QED BY <1>6, <1>7

(* The rest writes neither links nor frames. *)
LEMMA StillQueueInv ==
    ASSUME QueueInv,
           \/ TimerTickAstray \/ KReboot \/ SyscallAstray \/ UserFaultAstray \/ DieAstray
           \/ DeviceIrq
    PROVE  QueueInv'
<1>1. UNCHANGED <<links, at, saved, cur>>
  BY DEF TimerTickAstray, KReboot, SyscallAstray, UserFaultAstray, DieAstray, DeviceIrq
<1> QED BY <1>1, QuietQueueInv DEF QueueInv

LEMMA NextQueueInv == SwitchInv /\ QueueInv /\ [Next]_vars => QueueInv'
<1> SUFFICES ASSUME SwitchInv, QueueInv, [Next]_vars PROVE QueueInv'
  OBVIOUS
<1>1. CASE UNCHANGED vars
  BY <1>1, QuietQueueInv DEF vars, QueueInv
<1>2. CASE Next
  BY <1>2, TickQueueInv, KernelQueueInv, UserQueueInv, StillQueueInv DEF Next, Tick, KStep, UStep
<1> QED BY <1>1, <1>2

(* Every reachable state has the links the stores have come to. *)
THEOREM QueueInvariance == Spec => []QueueInv
<1>1. SwitchInv /\ SwitchInv' /\ QueueInv /\ [Next]_vars => QueueInv'
  BY NextQueueInv
<1> QED BY SwitchInvariance, InitQueueInv, <1>1, PTL DEF Spec

(* The scheduler's state keeps its types. *)
THEOREM Types == Spec => []TypeOK
<1>1. SwitchInv => TypeOK
  BY DEF SwitchInv
<1> QED BY SwitchInvariance, <1>1, PTL

(* Outside two of the stores of add_before the forward links lead through all  *)
(* live tasks and back to the head, also when the user task dies before the    *)
(* last store.                                                                 *)
THEOREM QueueIsWhole == Spec => []RunQueueOk
<1>1. QueueInv => RunQueueOk
  <2> SUFFICES ASSUME QueueInv, at[K].rip \notin {"enq2", "enq3"}
               PROVE  /\ next[ListHead] = Queue[1]
                      /\ next[Queue[Len(Queue)]] = ListHead
                      /\ \A i \in 1 .. (Len(Queue) - 1) : next[Queue[i]] = Queue[i + 1]
    BY DEF RunQueueOk
  <2>1. next[ListHead] = Listed[1]
        /\ \A i \in 1 .. (Len(Listed) - 1) : next[Listed[i]] = Listed[i + 1]
    BY ListedFacts DEF QueueInv
  <2>2. CASE next[K] = ListHead /\ Queue = Listed
    BY <2>1, <2>2, ListedFacts
  <2>3. CASE next[K] = U /\ next[U] = ListHead /\ Queue = Append(Listed, U)
    <3>1. Listed \in Seq(KernelTasks)
      BY TasksAssumption DEF Listed, KernelTasks
    <3>2. Len(Queue) = Len(Listed) + 1 /\ Queue[Len(Listed) + 1] = U
          /\ \A i \in 1 .. Len(Listed) : Queue[i] = Listed[i]
      BY <2>3, <3>1
    <3>3. Queue[1] = Listed[1]
      BY <3>2, ListedFacts
    <3>4. ASSUME NEW i \in 1 .. (Len(Queue) - 1) PROVE next[Queue[i]] = Queue[i + 1]
      <4>1. CASE i = Len(Listed)
        BY <2>3, <3>2, <4>1, ListedFacts
      <4>2. CASE i # Len(Listed)
        <5>1. i \in 1 .. (Len(Listed) - 1) /\ i + 1 \in 1 .. Len(Listed) /\ i \in 1 .. Len(Listed)
          BY <3>2, <4>2, ListedFacts
        <5> QED BY <2>1, <3>2, <5>1
      <4> QED BY <4>1, <4>2
    <3> QED BY <2>1, <2>3, <3>2, <3>3, <3>4
  <2>4. (next[K] = ListHead /\ Queue = Listed)
        \/ (next[K] = U /\ next[U] = ListHead /\ Queue = Append(Listed, U))
    BY Pointers DEF QueueInv, KRips, Alive, Dead, Queue
  <2> QED BY <2>2, <2>3, <2>4
<1> QED BY QueueInvariance, <1>1, PTL

(* The kernel thread takes the null link it watches for only when the user     *)
(* task has died, never for a link add_before has yet to set.                  *)
THEOREM RebootFollowsDeath == Spec => []RebootMeansDeath
<1>1. QueueInv => RebootMeansDeath
  BY DEF QueueInv, Dead, RebootMeansDeath
<1> QED BY QueueInvariance, <1>1, PTL

(* Once dead, the user task is neither moved nor chosen by a tick again. *)
THEOREM DeathIsFinal == Spec => DeadStaysDead
<1>1. SwitchInv /\ QueueInv /\ [Next]_vars
        => [at[U].rip = "die" => at'[U] = at[U] /\ (cur # U => cur' # U)]_vars
  <2> SUFFICES ASSUME SwitchInv, QueueInv, Next, at[U].rip = "die"
               PROVE  at'[U] = at[U] /\ (cur # U => cur' # U)
    OBVIOUS
  <2>1. at[U].cs = KernelCode /\ U \in Tasks /\ K # U /\ U \notin KernelTasks
    BY FrameFacts, Pointers DEF SwitchInv, TypeOK, KernelRips
  <2>2. CASE TimerTick
    <3>1. Dead
      BY DEF QueueInv, KRips, Alive
    <3>2. next[K] # U
      BY <3>1, Pointers DEF Dead
    <3> QED BY <2>1, <2>2, <3>2, TickKeepsKernel, TickFindsLinked
  <2>3. CASE TimerTickAstray \/ KReboot \/ SyscallAstray \/ UserFaultAstray \/ DieAstray
             \/ DeviceIrq
    BY <2>3 DEF TimerTickAstray, KReboot, SyscallAstray, UserFaultAstray, DieAstray, DeviceIrq
  <2>4. CASE WorkerStep \/ KLoad \/ AddBefore \/ KSeesDeath
    BY <2>1, <2>4 DEF WorkerStep, KLoad, AddBefore, AddBefore1, AddBefore2, AddBefore3, AddBefore4,
                KSeesDeath, KAt, Runs, Goto, SwitchInv, TypeOK
  <2>5. CASE UserStep \/ SyscallEnter \/ SyscallReturn \/ FaultReturn \/ Die
             \/ UserFault("fault") \/ UserFault("crash")
    BY <2>1, <2>5, FrameFacts DEF UserStep, SyscallEnter, SyscallReturn, FaultReturn, Die, UserFault,
                InUser, UAt, Runs
  <2> QED BY <2>2, <2>3, <2>4, <2>5 DEF Next, Tick, KStep, UStep
<1> QED BY SwitchInvariance, QueueInvariance, <1>1, PTL DEF Spec, DeadStaysDead

=============================================================================
