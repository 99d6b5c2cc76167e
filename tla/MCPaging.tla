------------------------------- MODULE MCPaging -------------------------------
(* A test task, the kernel thread and the user task; pages of two bytes, a     *)
(* heap of two pages and a program of two.                                     *)
EXTENDS Paging

CONSTANTS t1, kt, u
MCTasks == {t1, kt, u}
NoTestTasks == {kt, u}
MCLengths == {0, 1}
=============================================================================
