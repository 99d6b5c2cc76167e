------------------------------ MODULE Processors ------------------------------
(* The start of the processors: smp_init and init of src/cpu/cpu.cpp and       *)
(* load_tss of src/cpu/gdt/gdt.cpp. All processors share one GDT.              *)
EXTENDS Integers, Sequences

CONSTANTS
    CpuCount,        \* processors the boot loader lists
    NoCpu
ASSUME CpuAssumption == CpuCount \in Nat \ {0} /\ NoCpu \notin 1 .. CpuCount

VARIABLES
    bsp,             \* the place in the list of the one that boots
    listed,          \* how far smp_init has gone through the list
    init_at,         \* of each processor, where it is in init
    gdt_tss,         \* whose task state segment gdt[5] and gdt[6] describe
    gdt_busy,        \* the descriptor's busy bit, which ltr sets
    task_register,   \* of each processor, whose segment it uses
    rsp0,            \* the stack in each segment for interrupts from user mode
    stacks           \* stacks given away

processorVars == <<bsp, listed, init_at, gdt_tss, gdt_busy, task_register, rsp0, stacks>>

Cpus == 1 .. CpuCount

ProcessorsInit ==
    /\ bsp \in Cpus
    /\ listed = 0
    /\ init_at = [c \in Cpus |-> "parked"]
    /\ gdt_tss = NoCpu
    /\ gdt_busy = FALSE
    /\ task_register = [c \in Cpus |-> NoCpu]
    /\ rsp0 = [c \in Cpus |-> 0]
    /\ stacks = 0

(* smp_init gives the next processor of the list its work; itself it calls     *)
(* init and does not go on before that has returned.                           *)
StartsNextAtOnce ==
    /\ listed < CpuCount
    /\ listed' = listed + 1
    /\ init_at' = [init_at EXCEPT ![listed + 1] = "gdt"]
    /\ UNCHANGED <<bsp, gdt_tss, gdt_busy, task_register, rsp0, stacks>>

StartsNext ==
    /\ listed < CpuCount
    /\ init_at[bsp] \in {"parked", "done"}
    /\ listed' = listed + 1
    /\ init_at' = [init_at EXCEPT ![listed + 1] = "gdt"]
    /\ UNCHANGED <<bsp, gdt_tss, gdt_busy, task_register, rsp0, stacks>>

AllStarted == listed = CpuCount /\ init_at[bsp] = "done"

(* load_tss writes the descriptor, not busy, and loads it. The high halves of  *)
(* all segments' addresses are equal: they are in the kernel heap.             *)
SetTss(c) ==
    /\ init_at[c] = "gdt"
    /\ gdt_tss' = c
    /\ gdt_busy' = FALSE
    /\ init_at' = [init_at EXCEPT ![c] = "ltr"]
    /\ UNCHANGED <<bsp, listed, task_register, rsp0, stacks>>

(* ltr of a busy descriptor is a general protection fault. *)
LoadTr(c) ==
    /\ init_at[c] = "ltr"
    /\ IF gdt_busy
       THEN init_at' = [init_at EXCEPT ![c] = "fault"] /\ UNCHANGED <<gdt_busy, task_register>>
       ELSE /\ gdt_busy' = TRUE
            /\ task_register' = [task_register EXCEPT ![c] = gdt_tss]
            /\ init_at' = [init_at EXCEPT ![c] = "stacks"]
    /\ UNCHANGED <<bsp, listed, gdt_tss, rsp0, stacks>>

(* The rest of init: two stacks into its own segment, and its own registers.   *)
(* All but the one that boots then halt with interrupts off.                   *)
SetStacks(c) ==
    /\ init_at[c] = "stacks"
    /\ rsp0' = [rsp0 EXCEPT ![c] = stacks + 1]
    /\ stacks' = stacks + 2
    /\ init_at' = [init_at EXCEPT ![c] = IF c = bsp THEN "done" ELSE "halted"]
    /\ UNCHANGED <<bsp, listed, gdt_tss, gdt_busy, task_register>>

CpuStep(c) == SetTss(c) \/ LoadTr(c) \/ SetStacks(c)
=============================================================================
