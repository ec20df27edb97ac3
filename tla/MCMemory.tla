---------------------------- MODULE MCMemory ----------------------------
(* Model-checking instance of Memory: one thread, two context handles,     *)
(* one caller-provided host slice and two buffers the library allocates.  *)
EXTENDS Memory, TLC

CONSTANTS t1, h1, h2, b1, b2, b3, v1, v2

MCThreads == {t1}
MCHandles == {h1, h2}
MCBufs == {b1, b2, b3}
MCHostBufs == {b1}
MCValues == {v1, v2}

(* Threads, handles, values and the library-allocated buffers are each     *)
(* interchangeable.                                                        *)
MCSymmetry ==
  Permutations(MCThreads) \cup Permutations(MCHandles)
    \cup Permutations(MCValues) \cup Permutations({b2, b3})

(* States that differ only in the record of the last call behave alike: no *)
(* guard reads last or mlast, and ImplementsAbstract reads neither.        *)
MCView == <<slot, stack, alive, used, panicked, buf>>
=============================================================================
