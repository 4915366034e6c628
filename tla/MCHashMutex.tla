------------------------------ MODULE MCHashMutex ------------------------------
(* HashMutex for TLC: tables of two and of three buckets over two slots. The    *)
(* keys 1 and 3 share a bucket of two and have slots of their own with three.   *)
EXTENDS HashMutex, TLC

CONSTANTS t1, t2, t3

ThreeThreads == {t1, t2, t3}
TwoSizes == {2, 3}
HashMod(k, n) == k % n
Symmetry == Permutations(Threads)
=============================================================================
