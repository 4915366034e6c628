---------------------------- MODULE MCParallelFile ----------------------------
(* Instances of ParallelFile for TLC: files of at most six cells, blocks of two.  *)
EXTENDS ParallelFile, TLC

CONSTANTS t1, t2

TwoThreads == {t1, t2}
Symmetry == Permutations(Threads)

Scene(kind, threads, ops, whole, fails, padding, calls) ==
  [kind |-> kind, threads |-> threads, ops |-> ops, whole |-> whole, fails |-> fails,
   padding |-> padding, calls |-> calls]
Data == {"append", "write", "read"}
Admin == {"truncate", "fakely", "sync", "head", "close"}

MCLimits ==
  { Scene("mmap", 2, 3, 1, 1, {1}, Data \cup {"expand", "sync", "truncate", "close"}),
    Scene("pos", 2, 3, 1, 1, {1}, Data \cup {"expand", "sync", "head", "close"}),
    Scene("cached", 2, 3, 1, 0, {1}, Data \cup {"sync", "close"}),
    Scene("cached", 1, 3, 2, 0, {1, 2}, Data \cup Admin),
    Scene("block", 1, 3, 2, 0, {1, 2}, Data \cup Admin) }
=============================================================================
