------------------------------ MODULE MCThrottle ------------------------------
(* Small instances of Throttle for TLC. *)
EXTENDS Throttle, TLC

CONSTANTS t1, t2, k1, k2

TwoThreads == {t1, t2}
OneKey == {k1}
TwoKeys == {k1, k2}

ThreadSymmetry == Permutations(Threads)
===============================================================================
