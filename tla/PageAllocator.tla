---------------------------- MODULE PageAllocator ----------------------------
(* What the physical memory manager promises its callers, without the bitmap,  *)
(* the cursor and the two passes of mem::pmm: a request is answered with a run *)
(* of adjacent pages nobody owns, and it is turned down only if no such run    *)
(* exists.                                                                     *)
EXTENDS Integers

CONSTANTS
    Clients,    \* the processors that ask for pages
    Requests    \* the page counts they ask for

VARIABLES
    free,       \* the pages that may still be granted
    owners,     \* how many grants cover each page
    want,       \* the page count a client asks for
    status      \* "idle", "asking", "granted" or "stopped"

vars == <<free, owners, want, status>>

(* The n pages that begin with page p. *)
Run(p, n) == p .. (p + n - 1)

Init ==
    /\ free \subseteq DOMAIN owners
    /\ \A p \in DOMAIN owners : owners[p] = 0
    /\ want \in [Clients -> Nat]
    /\ status = [c \in Clients |-> "idle"]

Ask(c, n) ==
    /\ status[c] = "idle"
    /\ status' = [status EXCEPT ![c] = "asking"]
    /\ want' = [want EXCEPT ![c] = n]
    /\ UNCHANGED <<free, owners>>

Grant(c) ==
    /\ status[c] = "asking"
    /\ \E p \in free :
        /\ Run(p, want[c]) \subseteq free
        /\ free' = free \ Run(p, want[c])
        /\ owners' = [q \in DOMAIN owners |->
                        IF q \in Run(p, want[c]) THEN owners[q] + 1 ELSE owners[q]]
    /\ status' = [status EXCEPT ![c] = "granted"]
    /\ UNCHANGED want

Done(c) ==
    /\ status[c] = "granted"
    /\ status' = [status EXCEPT ![c] = "idle"]
    /\ UNCHANGED <<free, owners, want>>

(* The machine gives up: there is no run of the size asked for, or another     *)
(* client already gave up.                                                     *)
Stop(c) ==
    /\ status[c] = "asking"
    /\ \/ \A p \in free : ~ (Run(p, want[c]) \subseteq free)
       \/ \E d \in Clients : status[d] = "stopped"
    /\ status' = [status EXCEPT ![c] = "stopped"]
    /\ UNCHANGED <<free, owners, want>>

Next ==
    \E c \in Clients :
        \/ \E n \in Requests : Ask(c, n)
        \/ Grant(c)
        \/ Done(c)
        \/ Stop(c)

Spec == Init /\ [][Next]_vars
=============================================================================
