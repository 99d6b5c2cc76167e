------------------------------ MODULE LineInput ------------------------------
(* What the keyboard driver promises a program that reads standard input: a    *)
(* bounded queue of typed characters, handed out in the order they were typed, *)
(* each once, a line or a buffer at a time. The characters typed while the     *)
(* driver is still starting may be replaced by NUL.                            *)
EXTENDS Integers, Sequences

CONSTANTS
    Capacity,   \* the most characters the queue holds
    Chars,      \* the characters keys stand for
    Newline,    \* the character that ends a read early
    NUL,        \* what a character becomes when the start-up wipes it
    Counts      \* the buffer sizes a program reads with

VARIABLES
    queue,      \* typed and not yet read
    settled,    \* the driver has started
    reading,    \* a read is in progress
    want,       \* its buffer size
    got         \* what it has received

vars == <<queue, settled, reading, want, got>>

Init ==
    /\ queue = <<>> /\ settled = FALSE
    /\ reading = FALSE /\ want = 0 /\ got = <<>>

Typed(ch) ==
    /\ Len(queue) < Capacity
    /\ queue' = Append(queue, ch)
    /\ UNCHANGED <<settled, reading, want, got>>

Settle ==
    /\ ~ settled
    /\ settled' = TRUE
    /\ queue' = [k \in DOMAIN queue |-> NUL]
    /\ UNCHANGED <<reading, want, got>>

Begin(n) ==
    /\ settled /\ ~ reading
    /\ reading' = TRUE /\ want' = n /\ got' = <<>>
    /\ UNCHANGED <<queue, settled>>

Deliver ==
    /\ reading /\ queue # <<>>
    /\ got' = Append(got, Head(queue))
    /\ queue' = Tail(queue)
    /\ reading' = (Head(queue) # Newline /\ Len(got') < want)
    /\ UNCHANGED <<settled, want>>

Next ==
    \/ \E ch \in Chars : Typed(ch)
    \/ Settle
    \/ \E n \in Counts : Begin(n)
    \/ Deliver

Spec == Init /\ [][Next]_vars
=============================================================================
