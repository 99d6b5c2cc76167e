------------------------------- MODULE Keyboard -------------------------------
(* The PS/2 keyboard driver, ps2::kbd of src/ps2/kbd/keyboard.cpp: the         *)
(* interrupt handler fills a ring buffer that one reader drains by spinning on *)
(* the two indices, with no lock. The handler runs between any two steps of    *)
(* the reader or of init.                                                      *)
EXTENDS Integers, Sequences

CONSTANTS
    buffer_size,   \* slots of the ring buffer (256 in the code)
    Counts,        \* the buffer sizes a program passes to read
    Keys           \* the key events of this keyboard, some of Scancodes

(* Scancodes by what the handler does with them: "letter" stands for every key *)
(* whose character depends on shift, "enter" for every other character,        *)
(* "other" for the presses and releases that have no effect.                   *)
KeyDown == {"letter", "enter", "lshift", "rshift"}
KeyUp   == {"other", "lshift-up", "rshift-up", "caps-up"}
Scancodes == KeyDown \cup KeyUp

ASSUME SizeAssumption ==
    /\ buffer_size \in Nat \ {0, 1}
    /\ Counts \subseteq Nat \ {0}
    /\ Keys \subseteq Scancodes

NUL == "NUL"
Newline == "newline"
Chars == {"a", "A", Newline}

VARIABLES
    data, full,           \* the controller's output byte, and whether it is unread
    latched,              \* a keyboard interrupt is waiting to be taken
    down,                 \* history: the shift keys held down
    buffer, buffer_write_index, buffer_read_index,
    left_shift, right_shift, caps_lock,
    phase,                \* the step of init that comes next
    reader,               \* the step of read that comes next; "out" outside it
    count, c, buf         \* read's argument, its local and what it has stored

device == <<data, full, latched, down>>
ring   == <<buffer, buffer_write_index, buffer_read_index>>
shifts == <<left_shift, right_shift, caps_lock>>
call   == <<reader, count, c, buf>>
vars   == <<device, ring, shifts, phase, call>>

(* A byte may be waiting since before the kernel ran, with its interrupt       *)
(* still pending or already lost.                                              *)
Init ==
    /\ data \in {"letter", "other"} \cap Keys /\ full \in BOOLEAN
    /\ latched \in BOOLEAN /\ (latched => full)
    /\ down = {}
    /\ buffer = [k \in 0 .. (buffer_size - 1) |-> NUL]
    /\ buffer_write_index = 0 /\ buffer_read_index = 0
    /\ left_shift = FALSE /\ right_shift = FALSE /\ caps_lock = FALSE
    /\ phase = "register"
    /\ reader = "out" /\ count = 0 /\ c = NUL /\ buf = <<>>

-----------------------------------------------------------------------------
(* The keyboard and its controller. The controller offers the next byte when   *)
(* the last one was read; an interrupt is taken before the next byte arrives.  *)
(* While the line is not routed (before register_irq) its edge may be lost.    *)
KeyEvent(s) ==
    /\ ~ full /\ ~ latched
    /\ s = "lshift-up" => "lshift" \in down
    /\ s = "rshift-up" => "rshift" \in down
    /\ data' = s
    /\ full' = TRUE
    /\ latched' \in IF phase = "register" THEN BOOLEAN ELSE {TRUE}
    /\ down' = CASE s \in {"lshift", "rshift"} -> down \cup {s}
                 [] s = "lshift-up" -> down \ {"lshift"}
                 [] s = "rshift-up" -> down \ {"rshift"}
                 [] OTHER -> down
    /\ UNCHANGED <<ring, shifts, phase, call>>

-----------------------------------------------------------------------------
(* The interrupt handler, irq. *)

is_caps == caps_lock # (left_shift \/ right_shift)

(* The scancode map with the shift state applied; NUL for a key without a      *)
(* character.                                                                  *)
CharOf(s) ==
    CASE s = "letter" -> IF is_caps THEN "A" ELSE "a"
      [] s = "enter"  -> Newline
      [] OTHER        -> NUL

NextSlotNoWrap(i) == i + 1

NextSlot(i) == (i + 1) % buffer_size

NeverFull == FALSE

FullTooSoon == NextSlot(NextSlot(buffer_write_index)) = buffer_read_index

Full == NextSlot(buffer_write_index) = buffer_read_index

(* Taking the interrupt reads the controller's byte. *)
TakeByte ==
    /\ latched
    /\ phase # "register"
    /\ latched' = FALSE
    /\ full' = FALSE
    /\ UNCHANGED <<data, down>>

LeftShiftStuck(s) == IF s = "lshift" THEN TRUE ELSE left_shift
LeftShift(s) == IF s = "lshift" THEN TRUE ELSE IF s = "lshift-up" THEN FALSE ELSE left_shift
RightShift(s) == IF s = "rshift" THEN TRUE ELSE IF s = "rshift-up" THEN FALSE ELSE right_shift

(* A key with no character: the shift state follows, caps lock toggles when    *)
(* its key is released.                                                        *)
IrqControl ==
    /\ TakeByte
    /\ CharOf(data) = NUL
    /\ left_shift' = LeftShift(data)
    /\ right_shift' = RightShift(data)
    /\ caps_lock' = (caps_lock # (data = "caps-up"))
    /\ UNCHANGED <<ring, phase, call>>

IrqStore ==
    /\ TakeByte
    /\ CharOf(data) # NUL
    /\ ~ Full
    /\ buffer' = [buffer EXCEPT ![buffer_write_index] = CharOf(data)]
    /\ buffer_write_index' = NextSlot(buffer_write_index)
    /\ UNCHANGED <<buffer_read_index, shifts, phase, call>>

IrqDrop ==
    /\ TakeByte
    /\ CharOf(data) # NUL
    /\ Full
    /\ UNCHANGED <<ring, shifts, phase, call>>

Irq == IrqControl \/ IrqStore \/ IrqDrop

-----------------------------------------------------------------------------
(* init, run by the kernel thread with interrupts enabled. *)

InitRegister ==
    /\ phase = "register"
    /\ phase' = "drain"
    /\ UNCHANGED <<device, ring, shifts, call>>

InitDrainSkipped ==
    /\ phase = "drain"
    /\ phase' = "clear"
    /\ UNCHANGED <<device, ring, shifts, call>>

(* Reading the port takes the byte but not the interrupt behind it. *)
InitDrain ==
    /\ phase = "drain"
    /\ full' = FALSE
    /\ phase' = "clear"
    /\ UNCHANGED <<data, latched, down, ring, shifts, call>>

(* The memset leaves the indices alone: characters stored since register_irq   *)
(* stay queued and become NUL.                                                 *)
InitClear ==
    /\ phase = "clear"
    /\ buffer' = [k \in DOMAIN buffer |-> NUL]
    /\ phase' = "ready"
    /\ UNCHANGED <<device, buffer_write_index, buffer_read_index, shifts, call>>

-----------------------------------------------------------------------------
(* read, called by the program's read of standard input. *)

ReadCall(n) ==
    /\ phase = "ready"
    /\ reader = "out"
    /\ reader' = "wait"
    /\ count' = n
    /\ buf' = <<>>
    /\ UNCHANGED <<device, ring, shifts, phase, c>>

(* The spin loop is left when the indices differ. *)
ReadWait ==
    /\ reader = "wait"
    /\ buffer_read_index # buffer_write_index
    /\ reader' = "load"
    /\ UNCHANGED <<device, ring, shifts, phase, count, c, buf>>

ReadLoad ==
    /\ reader = "load"
    /\ c' = buffer[buffer_read_index]
    /\ reader' = "advance"
    /\ UNCHANGED <<device, ring, shifts, phase, count, buf>>

(* Store the character, release its slot, and return after a newline or a full *)
(* buffer.                                                                     *)
ReadAdvanceAlways ==
    /\ reader = "advance"
    /\ buf' = Append(buf, c)
    /\ buffer_read_index' = NextSlot(buffer_read_index)
    /\ reader' = IF Len(buf') = count THEN "out" ELSE "wait"
    /\ UNCHANGED <<device, buffer, buffer_write_index, shifts, phase, count, c>>

ReadAdvance ==
    /\ reader = "advance"
    /\ buf' = Append(buf, c)
    /\ buffer_read_index' = NextSlot(buffer_read_index)
    /\ reader' = IF c = Newline \/ Len(buf') = count THEN "out" ELSE "wait"
    /\ UNCHANGED <<device, buffer, buffer_write_index, shifts, phase, count, c>>

-----------------------------------------------------------------------------
Setup == InitRegister \/ InitDrain \/ InitClear
Reader == ReadWait \/ ReadLoad \/ ReadAdvance

Next ==
    \/ \E s \in Keys : KeyEvent(s)
    \/ Irq
    \/ Setup
    \/ \E n \in Counts : ReadCall(n)
    \/ Reader

Spec == Init /\ [][Next]_vars

(* Interrupts are enabled throughout init and during a system call, and the    *)
(* round-robin scheduler goes on running the kernel thread and the reader.     *)
(* Nothing forces a key to be pressed or a program to read.                    *)
FairSpec == Spec /\ WF_vars(Irq) /\ WF_vars(Setup) /\ WF_vars(Reader)

-----------------------------------------------------------------------------
(* Properties *)

TypeOK ==
    /\ data \in Scancodes /\ full \in BOOLEAN /\ latched \in BOOLEAN
    /\ down \subseteq {"lshift", "rshift"}
    /\ buffer \in [0 .. (buffer_size - 1) -> Chars \cup {NUL}]
    /\ buffer_write_index \in 0 .. (buffer_size - 1)
    /\ buffer_read_index \in 0 .. (buffer_size - 1)
    /\ {left_shift, right_shift, caps_lock} \subseteq BOOLEAN
    /\ phase \in {"register", "drain", "clear", "ready"}
    /\ reader \in {"out", "wait", "load", "advance"}
    /\ count \in Counts \cup {0}
    /\ c \in Chars \cup {NUL}
    /\ buf \in Seq(Chars \cup {NUL}) /\ Len(buf) <= count

(* The ring's contents from the read index to the write index. *)
Queued ==
    [k \in 1 .. ((buffer_write_index - buffer_read_index) % buffer_size) |->
        buffer[(buffer_read_index + k - 1) % buffer_size]]

LI == INSTANCE LineInput WITH
        Capacity <- buffer_size - 1,
        queue <- Queued,
        settled <- (phase = "ready"),
        reading <- (reader # "out"),
        want <- count,
        got <- buf

(* With the handler running between any two steps of read, and at any point of *)
(* init, the ring is a queue: each accepted character reaches the program      *)
(* once, in order, and read returns after a newline or a full buffer.          *)
ImplementsLineInput == LI!Spec

(* irq discards a character only when buffer_size - 1 characters wait. *)
DropsOnlyWhenFull ==
    [][latched /\ ~ latched' /\ CharOf(data) # NUL /\ Queued' = Queued
        => Len(Queued) = buffer_size - 1]_vars

(* The character read holds in its local is still the one at the head of the   *)
(* ring when it releases the slot: irq cannot have overwritten it.             *)
LoadedIsHead == reader = "advance" => Queued # <<>> /\ c = Head(Queued)

(* A shift state the driver believes in is a key that is held, or whose        *)
(* release the handler is about to see: no shift stays on for good.            *)
NoStuckShift ==
    /\ left_shift => "lshift" \in down \/ (latched /\ data = "lshift-up")
    /\ right_shift => "rshift" \in down \/ (latched /\ data = "rshift-up")

(* A byte in the controller is taken, so the next key can be seen: without the *)
(* drain of init a byte whose interrupt was lost would wedge the keyboard.     *)
BytesAreTaken == full ~> ~ full

(* A read returns once a newline is queued or its buffer can be filled. *)
ReadReturns ==
    reader # "out" /\ (\/ \E k \in DOMAIN Queued : Queued[k] = Newline
                       \/ Len(Queued) >= count - Len(buf))
        ~> reader = "out"

=============================================================================
