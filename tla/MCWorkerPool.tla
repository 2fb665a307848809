---------------------------- MODULE MCWorkerPool ----------------------------
(* WorkerPool with named instances of its constants, for TLC. *)
EXTENDS WorkerPoolEnds, PoolCall

CONSTANTS w1, w2

TwoWorkers == {w1, w2}
FourNames == <<"a", "b", "c", "d">>
SixNames == <<"a", "b", "c", "d", "e", "f">>
=============================================================================
