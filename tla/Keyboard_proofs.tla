--------------------------- MODULE Keyboard_proofs ---------------------------
(* Proofs about the PS/2 keyboard driver, for any size of its ring buffer. *)
EXTENDS Keyboard, SequenceTheorems, TLAPS

Slots == 0 .. (buffer_size - 1)
Cells == Chars \cup {NUL}

(* What a ring holds between a read and a write index. *)
Contents(b, w, r) ==
    [k \in 1 .. ((w - r) % buffer_size) |-> b[(r + k - 1) % buffer_size]]

(* Once init is over and a read has begun, the reader holds a slot from the    *)
(* moment it sees the indices differ.                                          *)
ReaderInv ==
    /\ reader # "out" => phase = "ready" /\ Len(buf) < count
    /\ reader \in {"load", "advance"} => buffer_read_index # buffer_write_index
    /\ reader = "advance" => c = buffer[buffer_read_index]

(* No shift is on before the interrupt is routed, and a press the handler is   *)
(* about to see is of a key that is still down: no second key event can come   *)
(* before the first is taken.                                                  *)
ShiftInv ==
    /\ phase = "register" => ~ left_shift /\ ~ right_shift
    /\ latched /\ data \in {"lshift", "rshift"} => data \in down
    /\ NoStuckShift

KeyInv == TypeOK /\ ReaderInv /\ ShiftInv

-----------------------------------------------------------------------------
(* The ring as a queue. *)

(* What the remainder is on the range that sums and differences of two indices *)
(* reach.                                                                      *)
LEMMA Wrapped ==
    ASSUME NEW n \in Nat, n > 0, NEW x \in Int, -n < x, x < 2 * n
    PROVE  x % n = IF x < 0 THEN x + n ELSE IF x < n THEN x ELSE x - n
<1>1. CASE 0 <= x /\ x < n
  BY <1>1
<1>2. CASE n <= x
  BY <1>2
<1>3. CASE x < 0
  BY <1>3
<1> QED BY <1>1, <1>2, <1>3

(* Stepping an index stays in the ring and wraps at its end. *)
LEMMA NextSlotFacts ==
    ASSUME NEW i \in Slots
    PROVE  /\ NextSlot(i) \in Slots
           /\ NextSlot(i) = IF i + 1 < buffer_size THEN i + 1 ELSE 0
<1>1. (i + 1) % buffer_size = IF i + 1 < buffer_size THEN i + 1 ELSE i + 1 - buffer_size
  BY SizeAssumption, Wrapped DEF Slots
<1> QED BY <1>1, SizeAssumption DEF NextSlot, Slots

(* The contents are a sequence, as long as the distance of the indices.        *)
LEMMA ContentsFacts ==
    ASSUME NEW b \in [Slots -> Cells], NEW w \in Slots, NEW r \in Slots
    PROVE  /\ Contents(b, w, r) \in Seq(Cells)
           /\ Len(Contents(b, w, r)) = IF w >= r THEN w - r ELSE w - r + buffer_size
           /\ \A k \in 1 .. Len(Contents(b, w, r)) :
                /\ (IF r + k - 1 < buffer_size THEN r + k - 1 ELSE r + k - 1 - buffer_size) \in Slots
                /\ Contents(b, w, r)[k] =
                     b[IF r + k - 1 < buffer_size THEN r + k - 1 ELSE r + k - 1 - buffer_size]
<1> DEFINE n == IF w >= r THEN w - r ELSE w - r + buffer_size
           at(k) == IF r + k - 1 < buffer_size THEN r + k - 1 ELSE r + k - 1 - buffer_size
<1>1. (w - r) % buffer_size = n /\ n \in Nat /\ n < buffer_size
  BY SizeAssumption, Wrapped DEF Slots
<1>2. \A k \in 1 .. n : (r + k - 1) % buffer_size = at(k) /\ at(k) \in Slots
  <2> TAKE k \in 1 .. n
  <2>1. r + k - 1 \in Int /\ 0 <= r + k - 1 /\ r + k - 1 < 2 * buffer_size
    BY <1>1, SizeAssumption DEF Slots
  <2> QED BY <2>1, SizeAssumption, Wrapped DEF Slots
<1> HIDE DEF n, at
<1>3. Contents(b, w, r) = [k \in 1 .. n |-> b[at(k)]]
  BY <1>1, <1>2 DEF Contents
<1>4. \A k \in 1 .. n : b[at(k)] \in Cells
  BY <1>2
<1>5. Contents(b, w, r) \in Seq(Cells) /\ Len(Contents(b, w, r)) = n
  BY <1>1, <1>3, <1>4
<1> QED BY <1>2, <1>3, <1>5 DEF n, at

(* Storing at the write index appends, unless the ring is full. *)
LEMMA ContentsStore ==
    ASSUME NEW b \in [Slots -> Cells], NEW w \in Slots, NEW r \in Slots, NEW ch \in Cells,
           NextSlot(w) # r
    PROVE  Contents([b EXCEPT ![w] = ch], NextSlot(w), r) = Append(Contents(b, w, r), ch)
<1> DEFINE b2 == [b EXCEPT ![w] = ch]
           old == Contents(b, w, r)
           new == Contents(b2, NextSlot(w), r)
           at(k) == IF r + k - 1 < buffer_size THEN r + k - 1 ELSE r + k - 1 - buffer_size
<1>1. b2 \in [Slots -> Cells] /\ NextSlot(w) \in Slots
  BY NextSlotFacts
<1>2. old \in Seq(Cells) /\ new \in Seq(Cells)
  BY <1>1, ContentsFacts
<1>3. Len(new) = Len(old) + 1
  <2>1. Len(old) = IF w >= r THEN w - r ELSE w - r + buffer_size
    BY ContentsFacts
  <2>2. Len(new) = IF NextSlot(w) >= r THEN NextSlot(w) - r ELSE NextSlot(w) - r + buffer_size
    BY <1>1, ContentsFacts
  <2>3. NextSlot(w) = IF w + 1 < buffer_size THEN w + 1 ELSE 0
    BY NextSlotFacts
  <2> HIDE DEF old, new
  <2> QED BY <2>1, <2>2, <2>3, SizeAssumption DEF Slots
<1>4. at(Len(old) + 1) = w /\ \A k \in 1 .. Len(old) : at(k) # w
  BY ContentsFacts, SizeAssumption DEF Slots
<1>5. \A k \in 1 .. Len(new) : at(k) \in Slots /\ new[k] = b2[at(k)]
  BY <1>1, ContentsFacts
<1>6. \A k \in 1 .. Len(old) : at(k) \in Slots /\ old[k] = b[at(k)]
  BY ContentsFacts
<1>7. Append(old, ch) \in Seq(Cells) /\ Len(Append(old, ch)) = Len(old) + 1
      /\ Len(old) \in Nat
  BY <1>2
<1> HIDE DEF old, new, at
<1>8. \A k \in 1 .. Len(new) : new[k] = Append(old, ch)[k]
  <2> TAKE k \in 1 .. Len(new)
  <2>1. CASE k = Len(old) + 1
    <3>1. new[k] = ch
      BY <1>4, <1>5, <2>1
    <3> QED BY <1>2, <2>1, <3>1
  <2>2. CASE k \in 1 .. Len(old)
    <3>1. new[k] = b[at(k)]
      BY <1>4, <1>5, <2>2
    <3>2. old[k] = b[at(k)]
      BY <1>6, <2>2
    <3> QED BY <1>2, <2>2, <3>1, <3>2
  <2> QED BY <1>3, <1>7, <2>1, <2>2
<1>9. new = Append(old, ch)
  BY <1>2, <1>3, <1>7, <1>8, SeqEqual
<1> QED BY <1>9 DEF old, new

(* Releasing the slot at the read index takes the head. *)
LEMMA ContentsRelease ==
    ASSUME NEW b \in [Slots -> Cells], NEW w \in Slots, NEW r \in Slots, w # r
    PROVE  /\ Contents(b, w, r) # <<>>
           /\ Head(Contents(b, w, r)) = b[r]
           /\ Contents(b, w, NextSlot(r)) = Tail(Contents(b, w, r))
<1> DEFINE old == Contents(b, w, r)
           new == Contents(b, w, NextSlot(r))
<1>1. NextSlot(r) \in Slots
  BY NextSlotFacts
<1>2. old \in Seq(Cells) /\ new \in Seq(Cells)
  BY <1>1, ContentsFacts
<1>3. Len(old) \in Nat /\ Len(old) >= 1 /\ Len(new) = Len(old) - 1
  <2>1. Len(old) = IF w >= r THEN w - r ELSE w - r + buffer_size
    BY ContentsFacts
  <2>2. Len(new) = IF w >= NextSlot(r) THEN w - NextSlot(r) ELSE w - NextSlot(r) + buffer_size
    BY <1>1, ContentsFacts
  <2>3. NextSlot(r) = IF r + 1 < buffer_size THEN r + 1 ELSE 0
    BY NextSlotFacts
  <2> HIDE DEF old, new
  <2> QED BY <2>1, <2>2, <2>3, SizeAssumption DEF Slots
<1>4. old[1] = b[r]
  BY <1>3, ContentsFacts, SizeAssumption DEF Slots
<1>5. \A k \in 1 .. Len(new) : new[k] = old[k + 1]
  <2> TAKE k \in 1 .. Len(new)
  <2>1. k + 1 \in 1 .. Len(old)
    BY <1>3
  <2>2. new[k] = b[IF NextSlot(r) + k - 1 < buffer_size THEN NextSlot(r) + k - 1
                   ELSE NextSlot(r) + k - 1 - buffer_size]
    BY <1>1, ContentsFacts
  <2>3. old[k + 1] = b[IF r + (k + 1) - 1 < buffer_size THEN r + (k + 1) - 1
                       ELSE r + (k + 1) - 1 - buffer_size]
    BY <2>1, ContentsFacts
  <2>4. Len(new) < buffer_size - 1
    BY <1>3, ContentsFacts, SizeAssumption DEF Slots
  <2>5. (IF NextSlot(r) + k - 1 < buffer_size THEN NextSlot(r) + k - 1
                   ELSE NextSlot(r) + k - 1 - buffer_size)
        = (IF r + (k + 1) - 1 < buffer_size THEN r + (k + 1) - 1
                       ELSE r + (k + 1) - 1 - buffer_size)
    <3>1. NextSlot(r) = IF r + 1 < buffer_size THEN r + 1 ELSE 0
      BY NextSlotFacts
    <3>2. k \in Nat /\ k >= 1 /\ k < buffer_size
      BY <1>3, <2>4, SizeAssumption
    <3> HIDE DEF new
    <3>3. CASE r + 1 < buffer_size
      BY <3>1, <3>2, <3>3, SizeAssumption DEF Slots
    <3>4. CASE r = buffer_size - 1
      BY <3>1, <3>2, <3>4, SizeAssumption DEF Slots
    <3> QED BY <3>3, <3>4, SizeAssumption DEF Slots
  <2> QED BY <2>2, <2>3, <2>5
<1> HIDE DEF old, new
<1>6. old # <<>> /\ Head(old) = b[r]
  BY <1>2, <1>3, <1>4
<1>7. Tail(old) \in Seq(Cells) /\ Len(Tail(old)) = Len(new)
      /\ \A k \in 1 .. Len(Tail(old)) : Tail(old)[k] = old[k + 1]
  BY <1>2, <1>3, <1>6, HeadTailProperties
<1>8. new = Tail(old)
  BY <1>2, <1>5, <1>7, SeqEqual
<1> QED BY <1>6, <1>8 DEF old, new

(* Wiping every slot wipes every queued character and keeps their number. *)
LEMMA ContentsClear ==
    ASSUME NEW b \in [Slots -> Cells], NEW w \in Slots, NEW r \in Slots
    PROVE  Contents([k \in DOMAIN b |-> NUL], w, r)
             = [k \in DOMAIN Contents(b, w, r) |-> NUL]
<1>1. (w - r) % buffer_size \in Nat
  BY SizeAssumption, Wrapped DEF Slots
<1>2. \A k \in 1 .. ((w - r) % buffer_size) : (r + k - 1) % buffer_size \in DOMAIN b
  BY <1>1, SizeAssumption DEF Slots
<1> QED BY <1>1, <1>2 DEF Contents

(* Queued is the contents of the ring. *)
LEMMA QueuedIsContents ==
    Queued = Contents(buffer, buffer_write_index, buffer_read_index)
BY DEF Queued, Contents
-----------------------------------------------------------------------------
(* The inductive invariant. *)

(* What the handler stores is a character, or nothing. *)
LEMMA CharFacts ==
    /\ CharOf(data) \in Cells
    /\ CharOf(data) # NUL => CharOf(data) \in Chars
    /\ Newline \in Chars /\ NUL \notin Chars
    /\ CharOf(data) # NUL <=> data \in {"letter", "enter"}
<1>1. CASE data = "letter"
  BY <1>1 DEF CharOf, Cells, Chars, NUL, Newline
<1>2. CASE data = "enter"
  BY <1>2 DEF CharOf, Cells, Chars, NUL, Newline
<1>3. CASE data \notin {"letter", "enter"}
  BY <1>3 DEF CharOf, Cells, Chars, NUL, Newline
<1> QED BY <1>1, <1>2, <1>3

LEMMA InitKeyInv == Init => KeyInv
<1> SUFFICES ASSUME Init PROVE KeyInv
  OBVIOUS
<1>1. TypeOK
  <2>1. data \in Scancodes
    BY DEF Init, Scancodes, KeyDown, KeyUp
  <2>2. 0 \in Slots /\ buffer \in [Slots -> Cells]
    BY SizeAssumption DEF Init, Slots, Cells
  <2>3. buf \in Seq(Cells) /\ Len(buf) <= count /\ c \in Cells
    BY DEF Init, Cells
  <2>4. {left_shift, right_shift, caps_lock} \subseteq BOOLEAN
    BY DEF Init
  <2>5. down \subseteq {"lshift", "rshift"} /\ count \in Counts \cup {0}
    BY DEF Init
  <2> QED BY <2>1, <2>2, <2>3, <2>4, <2>5 DEF Init, TypeOK, Slots, Cells
<1>2. ReaderInv
  BY DEF Init, ReaderInv
<1>3. ShiftInv
  BY DEF Init, ShiftInv, NoStuckShift
<1> QED BY <1>1, <1>2, <1>3 DEF KeyInv

(* A key event. *)
LEMMA KeyEventKeyInv ==
    ASSUME KeyInv, NEW s \in Keys, KeyEvent(s)
    PROVE  KeyInv'
<1> USE DEF KeyInv
<1>1. TypeOK'
  BY SizeAssumption DEF KeyEvent, TypeOK, ring, shifts, call
<1>2. ReaderInv'
  BY DEF KeyEvent, ReaderInv, ring, call
<1>3. ShiftInv'
  BY DEF KeyEvent, ShiftInv, NoStuckShift, TypeOK, shifts
<1> QED BY <1>1, <1>2, <1>3

(* The handler, between any two steps of init and of read. *)
LEMMA IrqKeyInv ==
    ASSUME KeyInv, Irq
    PROVE  KeyInv'
<1> USE DEF KeyInv
<1>1. CASE IrqControl
  <2>1. TypeOK'
    BY <1>1 DEF IrqControl, TakeByte, TypeOK, ring, call, LeftShift, RightShift
  <2>2. ReaderInv'
    BY <1>1 DEF IrqControl, ReaderInv, ring, call
  <2>3. ShiftInv'
    BY <1>1 DEF IrqControl, TakeByte, ShiftInv, NoStuckShift, TypeOK, LeftShift, RightShift
  <2> QED BY <2>1, <2>2, <2>3
<1>2. CASE IrqStore
  <2>1. TypeOK'
    <3>1. buffer' \in [Slots -> Cells] /\ buffer_write_index' \in Slots
      BY <1>2, CharFacts, NextSlotFacts DEF IrqStore, TypeOK, Slots, Cells
    <3> QED BY <1>2, <3>1 DEF IrqStore, TakeByte, TypeOK, shifts, call, Slots, Cells
  <2>2. ReaderInv'
    BY <1>2 DEF IrqStore, ReaderInv, Full, call, TypeOK
  <2>3. ShiftInv'
    <3>1. data \in {"letter", "enter"}
      BY <1>2, CharFacts DEF IrqStore
    <3> QED BY <1>2, <3>1 DEF IrqStore, TakeByte, ShiftInv, NoStuckShift, shifts
  <2> QED BY <2>1, <2>2, <2>3
<1>3. CASE IrqDrop
  <2>1. TypeOK'
    BY <1>3 DEF IrqDrop, TakeByte, TypeOK, ring, shifts, call
  <2>2. ReaderInv'
    BY <1>3 DEF IrqDrop, ReaderInv, ring, call
  <2>3. ShiftInv'
    <3>1. data \in {"letter", "enter"}
      BY <1>3, CharFacts DEF IrqDrop
    <3> QED BY <1>3, <3>1 DEF IrqDrop, TakeByte, ShiftInv, NoStuckShift, shifts
  <2> QED BY <2>1, <2>2, <2>3
<1> QED BY <1>1, <1>2, <1>3 DEF Irq

(* init. *)
LEMMA SetupKeyInv ==
    ASSUME KeyInv, Setup
    PROVE  KeyInv'
<1> USE DEF KeyInv
<1>1. CASE InitRegister
  BY <1>1 DEF InitRegister, TypeOK, ReaderInv, ShiftInv, NoStuckShift, device, ring, shifts, call
<1>2. CASE InitDrain
  BY <1>2 DEF InitDrain, TypeOK, ReaderInv, ShiftInv, NoStuckShift, device, ring, shifts, call
<1>3. CASE InitClear
  <2>1. buffer' \in [Slots -> Cells]
    BY <1>3 DEF InitClear, TypeOK, Slots, Cells
  <2>2. reader = "out"
    BY <1>3 DEF InitClear, ReaderInv
  <2>3. TypeOK'
    BY <1>3, <2>1 DEF InitClear, TypeOK, device, shifts, call, Slots, Cells
  <2>4. ReaderInv'
    BY <1>3, <2>2 DEF InitClear, ReaderInv, call
  <2>5. ShiftInv'
    BY <1>3 DEF InitClear, ShiftInv, NoStuckShift, device, shifts
  <2> QED BY <2>3, <2>4, <2>5
<1> QED BY <1>1, <1>2, <1>3 DEF Setup

(* read. *)
LEMMA ReaderKeyInv ==
    ASSUME KeyInv, (\E n \in Counts : ReadCall(n)) \/ Reader
    PROVE  KeyInv'
<1> USE DEF KeyInv
<1>1. ASSUME NEW n \in Counts, ReadCall(n) PROVE KeyInv'
  BY <1>1, SizeAssumption
     DEF ReadCall, TypeOK, ReaderInv, ShiftInv, NoStuckShift, device, ring, shifts
<1>2. CASE ReadWait
  BY <1>2 DEF ReadWait, TypeOK, ReaderInv, ShiftInv, NoStuckShift, device, ring, shifts
<1>3. CASE ReadLoad
  BY <1>3 DEF ReadLoad, TypeOK, ReaderInv, ShiftInv, NoStuckShift, device, ring, shifts
<1>4. CASE ReadAdvance
  <2>1. buffer_read_index' \in Slots
    BY <1>4, NextSlotFacts DEF ReadAdvance, TypeOK, Slots
  <2>2. buf' \in Seq(Cells) /\ Len(buf') = Len(buf) + 1 /\ Len(buf) \in Nat
    BY <1>4 DEF ReadAdvance, TypeOK, Cells
  <2>3. count \in Nat /\ Len(buf) < count
    BY <1>4, SizeAssumption DEF ReadAdvance, TypeOK, ReaderInv
  <2>4. TypeOK'
    BY <1>4, <2>1, <2>2, <2>3 DEF ReadAdvance, TypeOK, device, shifts, Slots, Cells
  <2>5. ReaderInv'
    BY <1>4, <2>2, <2>3 DEF ReadAdvance, ReaderInv
  <2>6. ShiftInv'
    BY <1>4 DEF ReadAdvance, ShiftInv, NoStuckShift, device, shifts
  <2> QED BY <2>4, <2>5, <2>6
<1> QED BY <1>1, <1>2, <1>3, <1>4 DEF Reader

(* The invariant holds of every state of the driver, whatever is typed, and    *)
(* wherever in init and read the handler runs.                                 *)
THEOREM KeyInvariance == Spec => []KeyInv
<1>1. KeyInv /\ [Next]_vars => KeyInv'
  <2> SUFFICES ASSUME KeyInv, [Next]_vars PROVE KeyInv'
    OBVIOUS
  <2>1. CASE UNCHANGED vars
    BY <2>1 DEF vars, device, ring, shifts, call, KeyInv, TypeOK, ReaderInv, ShiftInv, NoStuckShift
  <2> QED BY <2>1, KeyEventKeyInv, IrqKeyInv, SetupKeyInv, ReaderKeyInv DEF Next
<1> QED BY InitKeyInv, <1>1, PTL DEF Spec

(* The ring's indices, the driver's flags and the reader's locals keep their   *)
(* types: no index ever leaves the buffer.                                     *)
THEOREM Types == Spec => []TypeOK
BY KeyInvariance, PTL DEF KeyInv

(* No shift stays on for good: a shift state the driver believes in is of a    *)
(* key that is held or whose release is about to be handled.                   *)
THEOREM ShiftsAreHeld == Spec => []NoStuckShift
<1>1. KeyInv => NoStuckShift
  BY DEF KeyInv, ShiftInv
<1> QED BY <1>1, KeyInvariance, PTL

(* The handler never overwrites the slot that read is copying from. *)
THEOREM HeadIsStable == Spec => []LoadedIsHead
<1>1. KeyInv => LoadedIsHead
  <2> SUFFICES ASSUME KeyInv, reader = "advance" PROVE Queued # <<>> /\ c = Head(Queued)
    BY DEF LoadedIsHead
  <2>1. buffer_write_index # buffer_read_index /\ c = buffer[buffer_read_index]
    BY DEF KeyInv, ReaderInv
  <2>2. buffer \in [Slots -> Cells] /\ buffer_write_index \in Slots /\ buffer_read_index \in Slots
    BY DEF KeyInv, TypeOK, Slots, Cells
  <2> QED BY <2>1, <2>2, ContentsRelease, QueuedIsContents
<1> QED BY <1>1, KeyInvariance, PTL

-----------------------------------------------------------------------------
(* What one step does to the queue. *)

(* The queue's length, and when the handler's test says it is full. *)
LEMMA QueuedFacts ==
    ASSUME TypeOK
    PROVE  /\ Queued \in Seq(Cells)
           /\ Full => Len(Queued) = buffer_size - 1
           /\ ~ Full => Len(Queued) < buffer_size - 1
<1> DEFINE w == buffer_write_index
           r == buffer_read_index
<1>1. buffer \in [Slots -> Cells] /\ w \in Slots /\ r \in Slots
  BY DEF TypeOK, Slots, Cells
<1>2. Queued \in Seq(Cells) /\ Len(Queued) = IF w >= r THEN w - r ELSE w - r + buffer_size
  BY <1>1, ContentsFacts, QueuedIsContents
<1>3. NextSlot(w) = IF w + 1 < buffer_size THEN w + 1 ELSE 0
  BY <1>1, NextSlotFacts
<1> QED BY <1>1, <1>2, <1>3, SizeAssumption DEF Full, Slots

LEMMA StoreQueued ==
    ASSUME KeyInv, IrqStore
    PROVE  Queued' = Append(Queued, CharOf(data))
<1>1. buffer \in [Slots -> Cells] /\ buffer_write_index \in Slots /\ buffer_read_index \in Slots
  BY DEF KeyInv, TypeOK, Slots, Cells
<1>2. Queued' = Contents(buffer', buffer_write_index', buffer_read_index')
  BY DEF Queued, Contents
<1>3. Queued' = Contents([buffer EXCEPT ![buffer_write_index] = CharOf(data)],
                         NextSlot(buffer_write_index), buffer_read_index)
  BY <1>2 DEF IrqStore
<1>4. NextSlot(buffer_write_index) # buffer_read_index /\ CharOf(data) \in Cells
  BY CharFacts DEF IrqStore, Full
<1> QED BY <1>1, <1>3, <1>4, ContentsStore, QueuedIsContents

LEMMA AdvanceQueued ==
    ASSUME KeyInv, ReadAdvance
    PROVE  Queued # <<>> /\ c = Head(Queued) /\ Queued' = Tail(Queued)
<1>1. buffer \in [Slots -> Cells] /\ buffer_write_index \in Slots /\ buffer_read_index \in Slots
  BY DEF KeyInv, TypeOK, Slots, Cells
<1>2. Queued' = Contents(buffer', buffer_write_index', buffer_read_index')
  BY DEF Queued, Contents
<1>3. Queued' = Contents(buffer, buffer_write_index, NextSlot(buffer_read_index))
  BY <1>2 DEF ReadAdvance
<1>4. buffer_write_index # buffer_read_index /\ c = buffer[buffer_read_index]
  BY DEF KeyInv, ReaderInv, ReadAdvance
<1> QED BY <1>1, <1>3, <1>4, ContentsRelease, QueuedIsContents

LEMMA ClearQueued ==
    ASSUME KeyInv, InitClear
    PROVE  Queued' = [k \in DOMAIN Queued |-> NUL]
<1>1. buffer \in [Slots -> Cells] /\ buffer_write_index \in Slots /\ buffer_read_index \in Slots
  BY DEF KeyInv, TypeOK, Slots, Cells
<1>2. Queued' = Contents(buffer', buffer_write_index', buffer_read_index')
  BY DEF Queued, Contents
<1>3. Queued' = Contents([k \in DOMAIN buffer |-> NUL], buffer_write_index, buffer_read_index)
  BY <1>2 DEF InitClear
<1> QED BY <1>1, <1>3, ContentsClear, QueuedIsContents

(* A step that leaves the ring alone leaves the queue alone. *)
LEMMA RingQueued == UNCHANGED ring => Queued' = Queued
BY DEF ring, Queued

(* The handler discards a character only when buffer_size - 1 characters wait. *)
THEOREM DropsWhenFull == Spec => DropsOnlyWhenFull
<1> DEFINE Drops == latched /\ ~ latched' /\ CharOf(data) # NUL /\ Queued' = Queued
                      => Len(Queued) = buffer_size - 1
<1>1. KeyInv /\ [Next]_vars => [Drops]_vars
  <2> SUFFICES ASSUME KeyInv, Next, latched, ~ latched', CharOf(data) # NUL, Queued' = Queued
               PROVE  Len(Queued) = buffer_size - 1
    BY DEF vars
  <2>1. Irq
    <3>1. ASSUME NEW s \in Keys, KeyEvent(s) PROVE FALSE
      BY <3>1 DEF KeyEvent
    <3>2. ASSUME Setup \/ Reader \/ \E n \in Counts : ReadCall(n) PROVE FALSE
      BY <3>2 DEF Setup, Reader, InitRegister, InitDrain, InitClear, ReadWait, ReadLoad,
                  ReadAdvance, ReadCall, device
    <3> QED BY <3>1, <3>2 DEF Next
  <2>2. CASE IrqStore
    <3>1. Queued \in Seq(Cells) /\ CharOf(data) \in Cells
      BY QueuedFacts, CharFacts DEF KeyInv
    <3>2. Append(Queued, CharOf(data)) # Queued
      <4>1. Len(Append(Queued, CharOf(data))) = Len(Queued) + 1 /\ Len(Queued) \in Nat
        BY <3>1
      <4> QED BY <4>1
    <3> QED BY <2>2, <3>2, StoreQueued
  <2>3. CASE IrqDrop
    BY <2>3, QueuedFacts DEF IrqDrop, KeyInv
  <2>4. CASE IrqControl
    BY <2>4 DEF IrqControl
  <2> QED BY <2>1, <2>2, <2>3, <2>4 DEF Irq
<1> QED BY <1>1, KeyInvariance, PTL DEF Spec, DropsOnlyWhenFull

(* Every step of the driver is a step of the line input it promises, or        *)
(* changes nothing of it.                                                      *)
LEMMA StepRefines ==
    ASSUME KeyInv, [Next]_vars
    PROVE  [LI!Next]_(LI!vars)
<1>1. CASE UNCHANGED <<ring, phase, call>>
  BY <1>1, RingQueued DEF LI!vars, call
<1>2. ASSUME NEW s \in Keys, KeyEvent(s) PROVE [LI!Next]_(LI!vars)
  BY <1>1, <1>2 DEF KeyEvent
<1>3. CASE IrqControl \/ IrqDrop
  BY <1>1, <1>3 DEF IrqControl, IrqDrop
<1>4. CASE IrqStore
  <2>1. CharOf(data) \in Chars
    BY <1>4, CharFacts DEF IrqStore
  <2>2. Len(Queued) < buffer_size - 1
    BY <1>4, QueuedFacts DEF IrqStore, KeyInv
  <2>3. LI!Typed(CharOf(data))
    BY <1>4, <2>2, StoreQueued DEF LI!Typed, IrqStore, call
  <2> QED BY <2>1, <2>3 DEF LI!Next
<1>5. CASE InitRegister \/ InitDrain
  BY <1>5, RingQueued DEF InitRegister, InitDrain, LI!vars, call
<1>6. CASE InitClear
  <2>1. LI!Settle
    BY <1>6, ClearQueued DEF LI!Settle, InitClear, call
  <2> QED BY <2>1 DEF LI!Next
<1>7. ASSUME NEW n \in Counts, ReadCall(n) PROVE [LI!Next]_(LI!vars)
  <2>1. LI!Begin(n)
    BY <1>7, RingQueued DEF LI!Begin, ReadCall
  <2> QED BY <2>1 DEF LI!Next
<1>8. CASE ReadWait
  BY <1>8, RingQueued DEF ReadWait, LI!vars
<1>9. CASE ReadLoad
  BY <1>9, RingQueued DEF ReadLoad, LI!vars
<1>10. CASE ReadAdvance
  <2>1. Queued # <<>> /\ c = Head(Queued) /\ Queued' = Tail(Queued)
    BY <1>10, AdvanceQueued
  <2>2. Len(buf') = Len(buf) + 1 /\ Len(buf) \in Nat /\ count \in Nat /\ Len(buf) < count
    BY <1>10, SizeAssumption DEF ReadAdvance, KeyInv, TypeOK, ReaderInv
  <2>3. (reader' # "out") = (c # Newline /\ Len(buf') < count)
    BY <1>10, <2>2 DEF ReadAdvance
  <2>4. LI!Deliver
    BY <1>10, <2>1, <2>3 DEF LI!Deliver, ReadAdvance
  <2> QED BY <2>4 DEF LI!Next
<1>11. CASE UNCHANGED vars
  BY <1>1, <1>11 DEF vars
<1> QED BY <1>2, <1>3, <1>4, <1>5, <1>6, <1>7, <1>8, <1>9, <1>10, <1>11
       DEF Next, Irq, Setup, Reader

(* With the handler running between any two steps of read and of init, the     *)
(* ring behaves as the bounded queue of LineInput: each accepted character     *)
(* reaches the program once and in order.                                      *)
THEOREM Refinement == Spec => ImplementsLineInput
<1>1. Init => LI!Init
  <2> SUFFICES ASSUME Init PROVE LI!Init
    OBVIOUS
  <2>1. Queued = <<>>
    <3>1. (buffer_write_index - buffer_read_index) % buffer_size = 0
      BY SizeAssumption, Wrapped DEF Init
    <3> QED BY <3>1 DEF Queued
  <2> QED BY <2>1 DEF Init, LI!Init
<1>2. KeyInv /\ [Next]_vars => [LI!Next]_(LI!vars)
  BY StepRefines
<1> QED BY <1>1, <1>2, KeyInvariance, PTL DEF Spec, LI!Spec, ImplementsLineInput

=============================================================================
