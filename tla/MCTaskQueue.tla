------------------------------ MODULE MCTaskQueue ------------------------------
(* TaskQueue for TLC: two workers.                                              *)
EXTENDS TaskQueue

CONSTANTS w1, w2

TwoWorkers == {w1, w2}
=============================================================================
