------------------------------- MODULE Startup --------------------------------
(* The kernel from _start to the first program: src/kernel.cpp, in its order,  *)
(* with the processors starting in parallel. Memory, the heap, the file tree   *)
(* and the scheduler that it sets up on the way have modules of their own.     *)
EXTENDS Processors, Routing, Loader

CONSTANTS Features, ResponseSets   \* what the kernel asks the boot loader for, and may get
ASSUME FeaturesAssumption == \A responses \in ResponseSets : responses \subseteq Features

VARIABLES responses, stage
vars == <<processorVars, routingVars, loaderVars, responses, stage>>

Init ==
    /\ ProcessorsInit /\ RoutingInit /\ LoaderInit
    /\ responses \in ResponseSets
    /\ stage = "start"

Goes(from, to) == stage = from /\ stage' = to

(* _start. *)
CheckFeatures ==
    /\ Goes("start", IF Features \subseteq responses THEN "processors" ELSE "panic")
    /\ UNCHANGED <<processorVars, routingVars, loaderVars, responses>>

StartProcessors ==
    \/ /\ stage = "processors" /\ StartsNext
       /\ UNCHANGED <<routingVars, loaderVars, responses, stage>>
    \/ /\ AllStarted /\ Goes("processors", "rsdp")
       /\ UNCHANGED <<processorVars, routingVars, loaderVars, responses>>

(* A fault of the one that boots is the end; the others end alone. *)
ProcessorRuns(c) ==
    /\ stage # "panic" /\ CpuStep(c)
    /\ stage' = IF init_at'[bsp] = "fault" THEN "panic" ELSE stage
    /\ UNCHANGED <<routingVars, loaderVars, responses>>

(* acpi::parse_rsdp. *)
ParseRsdp ==
    \/ /\ RsdpRefused /\ Goes("rsdp", "panic")
       /\ UNCHANGED <<processorVars, routingVars, loaderVars, responses>>
    \/ /\ ParseRoot /\ Goes("rsdp", "tables")
       /\ UNCHANGED <<processorVars, loaderVars, responses>>

(* A table that cannot be used stops the kernel, and so do the timer's         *)
(* registers before LAPIC::prepare.                                            *)
Unusable == ~ Table.checksum \/ (Table.signature = "HPET" /\ Table.address_space = "other")

ParseTables ==
    \/ /\ stage = "tables" /\ tables # << >> /\ ~ Unusable /\ ParseTable
       /\ UNCHANGED <<processorVars, loaderVars, responses, stage>>
    \/ /\ tables # << >> /\ Unusable /\ Goes("tables", "panic")
       /\ UNCHANGED <<processorVars, routingVars, loaderVars, responses>>
    \/ /\ tables = << >> /\ ~ lapic_prepared /\ Goes("tables", "panic")
       /\ UNCHANGED <<processorVars, routingVars, loaderVars, responses>>
    \/ /\ tables = << >> /\ lapic_prepared /\ TimerInit /\ Goes("tables", "calibration")
       /\ UNCHANGED <<processorVars, loaderVars, responses>>

Timers ==
    \/ /\ Calibrate /\ Goes("calibration", "scheduler")
       /\ UNCHANGED <<processorVars, loaderVars, responses>>
    \/ /\ oneshot(1000) /\ Goes("scheduler", "armed")
       /\ UNCHANGED <<processorVars, loaderVars, responses>>

Counts ==
    /\ stage = "calibration" /\ HpetCounts
    /\ UNCHANGED <<processorVars, loaderVars, responses, stage>>

(* The timer's interrupt: scheduler_isr, if that is what it calls, gets to     *)
(* kernel_thread.                                                              *)
TimerFires ==
    /\ armed > 0 /\ ~ lvt["TIMER"].mask /\ HandlerOf(lvt["TIMER"].vector) = "scheduler_isr"
    /\ Goes("armed", "kernel_thread")
    /\ UNCHANGED <<processorVars, routingVars, loaderVars, responses>>

(* kernel_thread: the keyboard, then the program, if there is one.            *)
KeyboardInit ==
    /\ register_irq(1, "kbd_irq") /\ Goes("kernel_thread", "program")
    /\ UNCHANGED <<processorVars, loaderVars, responses>>

LoadProgram ==
    \/ /\ ~ Loadable /\ Goes("program", "panic")
       /\ UNCHANGED <<processorVars, routingVars, loaderVars, responses>>
    \/ /\ Loadable /\ LoadHeader /\ stage = "program"
       /\ UNCHANGED <<processorVars, routingVars, responses, stage>>
    \/ /\ Loadable /\ MakeStack /\ Goes("program", "running")
       /\ UNCHANGED <<processorVars, routingVars, responses>>

Boots == \/ CheckFeatures \/ StartProcessors \/ ParseRsdp \/ ParseTables
         \/ Timers \/ KeyboardInit \/ LoadProgram

Next == Boots \/ Counts \/ TimerFires \/ \E c \in Cpus : ProcessorRuns(c)

(* The processor that boots runs on, the HPET counts and a timer fires.        *)
Fairness ==
    /\ WF_vars(Boots) /\ WF_vars(Counts) /\ WF_vars(TimerFires)
    /\ WF_vars(ProcessorRuns(bsp))

Spec == Init /\ [][Next]_vars /\ Fairness

-----------------------------------------------------------------------------
(* Properties *)

(* When the boot loader lists the processor that boots first, it ends with its *)
(* own task state segment and a stack nobody else has, whatever the others do  *)
(* to the descriptor they share with it.                                       *)
OwnTss ==
    bsp = 1 /\ init_at[bsp] = "done" =>
        /\ task_register[bsp] = bsp
        /\ \A c \in Cpus \ {bsp} : rsp0[c] # rsp0[bsp]

(* Whatever the order of the firmware's tables and of their entries, each      *)
(* interrupt the kernel uses gets to its handler: the timer's, the spurious    *)
(* one, and the keyboard's if its I/O controller starts at 0 and is the only   *)
(* one it is wired to, and then on the processor that boots if that one's      *)
(* number is 0.                                                                *)
KeyboardPin == {x \in Wired(1) : ioapics[x[1]].gsi_base = 0 /\ Wired(1) = {x}}

InterruptsReachHandlers ==
    stage \in {"program", "running"} =>
        /\ ~ lvt["TIMER"].mask /\ HandlerOf(lvt["TIMER"].vector) = "scheduler_isr"
        /\ HandlerOf(lvt["SPURIOUS"].vector) = "spurious"
        /\ \A x \in KeyboardPin : /\ x \in DOMAIN redirection
                                  /\ HandlerOf(redirection[x].vector) = "kbd_irq"
                                  /\ bsp_id = 0 => redirection[x].dest = bsp_id

(* The kernel gets to the program, when it is given all it asks for, a sound   *)
(* root pointer to a MADT and an HPET, a timer of at least 1 MHz, and is       *)
(* listed first.                                                               *)
Signatures == {RootTables[i].signature : i \in DOMAIN RootTables}
Complete ==
    /\ bsp = 1 /\ Features \subseteq responses /\ Loadable
    /\ ~ RsdpRefused /\ {"APIC", "HPET"} \subseteq Signatures
    /\ \A i \in DOMAIN RootTables :
         RootTables[i].checksum /\ RootTables[i].address_space # "other"
    /\ \A ticks \in Measured : (ticks * 160) % Word >= MHz

BootEnds == Complete => <>(stage = "running")
=============================================================================
