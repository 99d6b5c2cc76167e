------------------------------- MODULE Routing --------------------------------
(* From a device's interrupt to its handler: the vectors of idt.cpp, the       *)
(* routing of interrupts.cpp and apic.cpp (src/cpu/interrupts), the tables of  *)
(* src/acpi/tables.cpp and the timers of src/sched/timer.                      *)
EXTENDS Integers, Sequences

CONSTANTS
    LastVector,      \* vectors are 0 to this (255 in the code)
    FirstVector,     \* the first one that is not an exception (32 in the code)
    Firmwares,       \* the root pointers the boot loader may pass, with what they lead to
    BspIds,          \* the LAPIC numbers the processor that boots may have
    Measured,        \* timer ticks that calibration may count
    Word, MHz,       \* 2^32 and 10^6 in the code
    StallTicks       \* ticks of the HPET in 100 ms

Irqs == 0 .. 15

(* The fields of the tables that are used; seen are the entries already parsed. *)
Entries ==
    [type : {"LAPIC"}, id : 0 .. 255, acpi_id : 0 .. 255, enabled : BOOLEAN]
    \cup [type : {"IOAPIC"}, gsi_base : Nat, max_entries : Nat]
    \cup [type : {"OVERRIDE"}, irq : Irqs, gsi : Nat]
    \cup [type : {"NMI"}, processor_id : 0 .. 255, lint : {0, 1}]
    \cup [type : {"ADDR"}]
Sdts == [signature : STRING, entries : Seq(Entries), seen : Seq(Entries), checksum : BOOLEAN,
         address_space : STRING]

(* The root pointer, the rest of it that revision 2 has, and the two lists of  *)
(* tables it may lead to.                                                      *)
Roots == [signature : STRING, checksum : BOOLEAN, tables : Seq(Sdts)]
Rsdps == [signature : STRING, checksum : BOOLEAN, revision : 0 .. 255,
          extended_checksum : BOOLEAN, rsdt : Roots, xsdt : Roots]

ASSUME RoutingAssumption ==
    /\ FirstVector \in Nat /\ LastVector \in Nat
    /\ FirstVector < LastVector /\ MHz > 0 /\ Word > 0
    /\ Firmwares \subseteq Rsdps
    /\ Measured \subseteq Nat /\ StallTicks \in Nat /\ BspIds \subseteq 0 .. 255

VARIABLES
    rsdp,            \* the root pointer
    tables,          \* tables of the list still to parse; the first may be half parsed
    bsp_id,          \* the LAPIC number of the processor that boots
    bitmap,          \* vectors in use
    idt_handlers,    \* of each vector, its handler
    lapics, ioapics, \* the controllers found, in order
    irq_to_gsi,      \* of each legacy interrupt, its global number
    redirection,     \* entries set in the I/O controllers: <<controller, pin>> -> entry
    lvt,             \* the local controller's vector table
    lapic_prepared,  \* its registers are mapped
    hpet,            \* "none", or its main counter
    freq,
    armed            \* ticks of the timer's last oneshot

routingVars == <<tables, rsdp, bsp_id, bitmap, idt_handlers, lapics, ioapics, irq_to_gsi,
                 redirection, lvt, lapic_prepared, hpet, freq, armed>>

NoHandler == "none"
NoHpet == -1
Lvts == {"CMCI", "TIMER", "PERF", "THERMAL", "ERROR", "LINT0", "LINT1", "SPURIOUS"}
Masked == [vector |-> 0, nmi |-> FALSE, mask |-> TRUE]
Unmasked(vector) == [vector |-> vector, nmi |-> FALSE, mask |-> FALSE]

(* load_idt takes the exceptions' vectors. *)
RoutingInit ==
    /\ rsdp \in Firmwares
    /\ tables = << >>
    /\ bsp_id \in BspIds
    /\ bitmap = 0 .. FirstVector - 1
    /\ idt_handlers = [v \in 0 .. LastVector |->
                         IF v = 14 THEN "page_fault_handler"
                         ELSE IF v < FirstVector THEN "exception_handler" ELSE NoHandler]
    /\ lapics = << >> /\ ioapics = << >>
    /\ irq_to_gsi = [i \in Irqs |-> i]
    /\ redirection = << >>
    /\ lvt = [r \in Lvts |-> Masked]
    /\ lapic_prepared = FALSE
    /\ hpet = NoHpet
    /\ freq = 0
    /\ armed = 0

-----------------------------------------------------------------------------
(* The lowest free vector; none is a panic. *)
FreeVectors == (FirstVector .. LastVector) \ bitmap
allocate_vector == CHOOSE v \in FreeVectors : \A w \in FreeVectors : v <= w

(* allocate_vector and load_idt_handler. *)
TakeVectorUnmarked(handler) ==
    /\ FreeVectors # {}
    /\ idt_handlers' = [idt_handlers EXCEPT ![allocate_vector] = handler]
    /\ UNCHANGED bitmap

TakeVector(handler) ==
    /\ FreeVectors # {}
    /\ idt_handlers' = [idt_handlers EXCEPT ![allocate_vector] = handler]
    /\ bitmap' = bitmap \cup {allocate_vector}

(* The register holds the number in its top byte, and is not shifted: it is    *)
(* compared as it is, and as a destination only its low byte is left.          *)
read_id == bsp_id * 16777216
destination == read_id % 256

(* register_irq: the pin is the global number, whatever the controller's base. *)
register_irq(irq, handler) ==
    LET gsi == irq_to_gsi[irq]
        serving == {i \in DOMAIN ioapics : gsi >= ioapics[i].gsi_base
                                           /\ gsi < ioapics[i].gsi_base + ioapics[i].max_entries}
        chosen == <<CHOOSE i \in serving : \A j \in serving : i <= j, gsi>>
    IN  /\ TakeVector(handler)
        /\ redirection' =
             IF serving = {} THEN redirection
             ELSE [x \in DOMAIN redirection \cup {chosen} |->
                     IF x = chosen THEN [vector |-> allocate_vector, dest |-> destination]
                     ELSE redirection[x]]
        /\ UNCHANGED <<tables, rsdp, bsp_id, lapics, ioapics, irq_to_gsi, lvt, lapic_prepared,
                       hpet, freq, armed>>

-----------------------------------------------------------------------------
(* parse_rsdp before its loops: what is missing or does not add up is a panic. *)
(* Revision 0 has its tables in the RSDT and revision 2 in the XSDT; any other *)
(* has none, and is no error.                                                  *)
Sound(root, signature) == root.signature = signature /\ root.checksum

RsdpRefused ==
    \/ ~ Sound(rsdp, "RSD PTR ")
    \/ rsdp.revision = 0 /\ ~ Sound(rsdp.rsdt, "RSDT")
    \/ rsdp.revision = 2 /\ ~ (rsdp.extended_checksum /\ Sound(rsdp.xsdt, "XSDT"))

RootTables ==
    CASE rsdp.revision = 0 -> rsdp.rsdt.tables
      [] rsdp.revision = 2 -> rsdp.xsdt.tables
      [] OTHER -> << >>

ParseRoot ==
    /\ ~ RsdpRefused
    /\ tables' = RootTables
    /\ UNCHANGED <<rsdp, bsp_id, bitmap, idt_handlers, lapics, ioapics, irq_to_gsi, redirection,
                   lvt, lapic_prepared, hpet, freq, armed>>

(* Its loops go through the tables with parse_sdt. *)
Table == Head(tables)
NextTable == tables' = Tail(tables)

(* The first loop of parse_madt, an entry at a time. *)
ParseEntry ==
    LET entry == Head(Table.entries)
    IN  /\ tables # << >> /\ Table.checksum /\ Table.signature = "APIC" /\ Table.entries # << >>
        /\ tables' = [tables EXCEPT ![1].entries = Tail(@), ![1].seen = Append(@, entry)]
        /\ lapics' = IF entry.type = "LAPIC" /\ entry.enabled
                     THEN Append(lapics, [id |-> entry.id, acpi_id |-> entry.acpi_id]) ELSE lapics
        /\ ioapics' = IF entry.type = "IOAPIC"
                      THEN Append(ioapics, [gsi_base |-> entry.gsi_base,
                                            max_entries |-> entry.max_entries]) ELSE ioapics
        /\ irq_to_gsi' = IF entry.type = "OVERRIDE"
                         THEN [irq_to_gsi EXCEPT ![entry.irq] = entry.gsi] ELSE irq_to_gsi
        /\ UNCHANGED <<rsdp, bsp_id, bitmap, idt_handlers, redirection, lvt, lapic_prepared,
                       hpet, freq, armed>>

(* The rest of parse_madt: the pins for non-maskable interrupts, in the order  *)
(* of the entries, every other vector masked, and enable.                      *)
own_acpi_id ==
    LET own == {i \in DOMAIN lapics : lapics[i].id = read_id}
    IN  IF own = {} THEN 0 ELSE lapics[CHOOSE i \in own : \A j \in own : i <= j].acpi_id

FinishMadt ==
    LET mine(entry) == entry.type = "NMI" /\ entry.processor_id \in {255, own_acpi_id}
        nmis == SelectSeq(Table.seen, mine)
        lint == IF nmis[Len(nmis)].lint = 0 THEN "LINT0" ELSE "LINT1"
    IN  /\ tables # << >> /\ Table.checksum /\ Table.signature = "APIC" /\ Table.entries = << >>
        /\ lapic_prepared' = TRUE
        /\ TakeVector("spurious")
        /\ lvt' = [r \in Lvts |->
                     IF r = "SPURIOUS" THEN Unmasked(allocate_vector)
                     ELSE IF r \in {"LINT0", "LINT1"} /\ nmis = << >> THEN lvt[r]
                     ELSE IF nmis # << >> /\ r = lint THEN [vector |-> 254, nmi |-> TRUE, mask |-> FALSE]
                     ELSE Masked]
        /\ NextTable
        /\ UNCHANGED <<rsdp, bsp_id, lapics, ioapics, irq_to_gsi, redirection, hpet, freq, armed>>

(* hpet::init starts the counter from 0. *)
ParseHpetNotInitialized ==
    /\ tables # << >> /\ Table.checksum /\ Table.signature = "HPET"
    /\ NextTable
    /\ UNCHANGED <<rsdp, bsp_id, bitmap, idt_handlers, lapics, ioapics, irq_to_gsi, redirection,
                   lvt, lapic_prepared, hpet, freq, armed>>

ParseHpet ==
    /\ tables # << >> /\ Table.checksum /\ Table.signature = "HPET"
    /\ hpet' = 0
    /\ NextTable
    /\ UNCHANGED <<rsdp, bsp_id, bitmap, idt_handlers, lapics, ioapics, irq_to_gsi, redirection,
                   lvt, lapic_prepared, freq, armed>>

SkipTable ==
    /\ tables # << >> /\ Table.checksum /\ Table.signature \notin {"APIC", "HPET"}
    /\ NextTable
    /\ UNCHANGED <<rsdp, bsp_id, bitmap, idt_handlers, lapics, ioapics, irq_to_gsi, redirection,
                   lvt, lapic_prepared, hpet, freq, armed>>

ParseTable == ParseEntry \/ FinishMadt \/ ParseHpet \/ SkipTable

-----------------------------------------------------------------------------
(* apic_timer::init up to the wait; the HPET's count from here on matters.     *)
TimerInit ==
    /\ TakeVector("scheduler_isr")
    /\ lvt' = [lvt EXCEPT !["TIMER"] = [Masked EXCEPT !.vector = allocate_vector]]
    /\ hpet' = IF hpet = NoHpet THEN hpet ELSE 0
    /\ UNCHANGED <<tables, rsdp, bsp_id, lapics, ioapics, irq_to_gsi, redirection, lapic_prepared,
                   freq, armed>>

(* The HPET counts on by itself; stall_ns waits for it. Without one, the wait  *)
(* is for the PIT, whose handler nobody registered: it never ends.             *)
HpetCounts ==
    /\ hpet # NoHpet /\ hpet < StallTicks
    /\ hpet' = hpet + 1
    /\ UNCHANGED <<tables, rsdp, bsp_id, bitmap, idt_handlers, lapics, ioapics, irq_to_gsi,
                   redirection, lvt, lapic_prepared, freq, armed>>

Calibrate ==
    /\ hpet # NoHpet /\ hpet >= StallTicks
    /\ \E ticks \in Measured : freq' = (ticks * 10 * 16) % Word
    /\ lvt' = [lvt EXCEPT !["TIMER"].mask = TRUE]
    /\ UNCHANGED <<tables, rsdp, bsp_id, bitmap, idt_handlers, lapics, ioapics, irq_to_gsi,
                   redirection, lapic_prepared, hpet, armed>>

(* oneshot: no interrupt comes when the count is 0. *)
oneshot(us) ==
    /\ armed' = (us * (freq \div MHz)) % Word
    /\ lvt' = [lvt EXCEPT !["TIMER"].mask = FALSE]
    /\ UNCHANGED <<tables, rsdp, bsp_id, bitmap, idt_handlers, lapics, ioapics, irq_to_gsi,
                   redirection, lapic_prepared, hpet, freq>>

-----------------------------------------------------------------------------
(* What the hardware does with an interrupt. *)
HandlerOf(vector) == idt_handlers[vector]

(* The controller and the pin of a legacy interrupt. *)
Wired(irq) ==
    {<<i, irq_to_gsi[irq] - ioapics[i].gsi_base>> : i \in
       {j \in DOMAIN ioapics : irq_to_gsi[irq] \in ioapics[j].gsi_base
                                 .. ioapics[j].gsi_base + ioapics[j].max_entries - 1}}
=============================================================================
