---------------------------- MODULE MCCountStore ----------------------------
(* A small instance of CountStore: two processes that see the same process id, *)
(* one of them with two threads.                                               *)
EXTENDS CountStore

CONSTANTS w1, w2, w3, p1, p2

MCWorkers == {w1, w2, w3}
MCProcesses == {p1, p2}
MCProcessOf == [w \in MCWorkers |-> IF w = w3 THEN p2 ELSE p1]
SamePid == [p \in MCProcesses |-> 1]
=============================================================================
