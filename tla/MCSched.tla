------------------------------ MODULE MCSched ------------------------------
(* The tasks FishOS starts: two test tasks, the kernel thread, one program. *)
EXTENDS Sched

CONSTANTS t1, t2
MCWorkers == <<t1, t2>>
=============================================================================
