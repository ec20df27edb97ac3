---------------------------- MODULE MCContext ----------------------------
(* Model-checking instance of Context: two threads, three handles.        *)
EXTENDS Context, TLC

CONSTANTS t1, t2, h1, h2, h3

MCThreads == {t1, t2}
MCHandles == {h1, h2, h3}

(* Threads are interchangeable, and so are the handles the driver hands out. *)
MCSymmetry == Permutations(MCThreads) \cup Permutations(MCHandles)

(* A driver that hands a destroyed context's pointer value out again: any  *)
(* handle not currently alive may come back from cuCtxCreate.              *)
ReusedHandles == MCHandles \ alive
=============================================================================
