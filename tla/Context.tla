------------------------------ MODULE Context ------------------------------
(***************************************************************************)
(* The CUDA context-stack manager of accel (driver/context.rs).            *)
(*                                                                         *)
(* Two pieces of per-thread state are modelled side by side:               *)
(*   - slot[t]  : the thread-local CONTEXT_STACK_LOCK, an Option<CUcontext> *)
(*                that Context::push and Context::pop consult;             *)
(*   - stack[t] : the CUDA driver's own per-thread context stack, whose    *)
(*                head is what cuCtxGetCurrent returns.                    *)
(* The driver's behaviour (cuCtxCreate pushes, cuCtxDestroy pops the       *)
(* destroyed context if it is current on the calling thread and leaves it  *)
(* on every other thread, cuCtxPopCurrent fails on an empty stack) is the  *)
(* environment each action's FFI call runs against.                       *)
(*                                                                         *)
(* A Context is Send + Sync, so any thread may call any method of a live   *)
(* context, and any thread may be the one that drops it.  A panic aborts   *)
(* the thread: it takes no further steps.                                 *)
(***************************************************************************)
EXTENDS Naturals, Sequences

CONSTANTS
  Threads,   \* host threads that use the library
  Handles,   \* CUcontext pointer values the driver may hand out
  NULL       \* the null CUcontext

ASSUME ConstantsAssumption == NULL \notin Handles

VARIABLES
  slot,      \* [Threads -> Handles \cup {NULL}]: CONTEXT_STACK_LOCK
  stack,     \* [Threads -> Seq(Handles)]: driver context stack, head = current
  alive,     \* contexts created and not yet destroyed
  used,      \* handles cuCtxCreate has ever returned
  panicked,  \* threads aborted by a panic inside a Context method
  last       \* the last call: who made it, which method, what it returned

vars == <<slot, stack, alive, used, panicked, last>>

Ops == {"none", "create", "assure_current", "sync", "push", "pop", "drop"}

Outcomes == {"Ok", "ContextIsNotCurrent", "ContextDuplicated",
             "DriverError", "Panic"}

Call(t, op, out) == [who |-> t, op |-> op, out |-> out]

-----------------------------------------------------------------------------
(* cuCtxGetCurrent: the head of the driver stack, or NULL.                 *)
Current(t) == IF stack[t] = <<>> THEN NULL ELSE Head(stack[t])

(* Context::assure_current: Ok iff this context is current on the thread.  *)
AssureCurrentResult(t, c) ==
  IF Current(t) = c THEN "Ok" ELSE "ContextIsNotCurrent"

Init ==
  /\ slot = [t \in Threads |-> NULL]
  /\ stack = [t \in Threads |-> <<>>]
  /\ alive = {}
  /\ used = {}
  /\ panicked = {}
  /\ last = Call(NULL, "none", "Ok")

(* A running thread t calls a method of the live context c.               *)
Running(t) == t \notin panicked

(* The handles cuCtxCreate may return: a pointer value the driver has      *)
(* never returned before.                                                  *)
FreshHandles == Handles \ used

(***************************************************************************)
(* Context::create: cuCtxCreate_v2 either fails (Err through `?`) or       *)
(* returns a fresh context that the driver pushes on the calling thread;   *)
(* the slot is then overwritten with it, whatever it held.                 *)
(***************************************************************************)
Create(t) ==
  /\ Running(t)
  /\ \/ /\ last' = Call(t, "create", "DriverError")
        /\ UNCHANGED <<slot, stack, alive, used, panicked>>
     \/ \E h \in FreshHandles :
          /\ alive' = alive \cup {h}
          /\ used' = used \cup {h}
          /\ stack' = [stack EXCEPT ![t] = <<h>> \o @]
          /\ slot' = [slot EXCEPT ![t] = h]
          /\ last' = Call(t, "create", "Ok")
          /\ UNCHANGED panicked

(* Context::assure_current, called on thread t.                           *)
AssureCurrent(t, c) ==
  /\ Running(t) /\ c \in alive
  /\ last' = Call(t, "assure_current", AssureCurrentResult(t, c))
  /\ UNCHANGED <<slot, stack, alive, used, panicked>>

(* Context::sync: assure_current, then cuCtxSynchronize (no pending work   *)
(* is modelled, so it returns at once).                                    *)
Sync(t, c) ==
  /\ Running(t) /\ c \in alive
  /\ last' = Call(t, "sync", AssureCurrentResult(t, c))
  /\ UNCHANGED <<slot, stack, alive, used, panicked>>

(***************************************************************************)
(* Context::push: refused with ContextDuplicated if the slot is occupied,  *)
(* else cuCtxPushCurrent_v2 and the slot records the context.              *)
(***************************************************************************)
Push(t, c) ==
  /\ Running(t) /\ c \in alive
  /\ \/ /\ slot[t] # NULL
        /\ last' = Call(t, "push", "ContextDuplicated")
        /\ UNCHANGED <<slot, stack, alive, used, panicked>>
     \/ /\ slot[t] = NULL
        /\ stack' = [stack EXCEPT ![t] = <<c>> \o @]
        /\ slot' = [slot EXCEPT ![t] = c]
        /\ last' = Call(t, "push", "Ok")
        /\ UNCHANGED <<alive, used, panicked>>

(* Mutant of Pop: the slot is not cleared after a successful pop.         *)
PopKeepsSlot(t, c) ==
  /\ Running(t) /\ c \in alive /\ slot[t] # NULL /\ stack[t] # <<>>
  /\ Head(stack[t]) = c
  /\ stack' = [stack EXCEPT ![t] = Tail(@)]
  /\ last' = Call(t, "pop", "Ok")
  /\ UNCHANGED <<slot, alive, used, panicked>>

(***************************************************************************)
(* Context::pop: panics if the slot is empty; cuCtxPopCurrent_v2 fails     *)
(* (Err through `?`) on an empty driver stack; otherwise the driver pops   *)
(* its head, and only then is the head compared with self: a mismatch     *)
(* panics with the driver stack already popped and the slot still set.    *)
(***************************************************************************)
Pop(t, c) ==
  /\ Running(t) /\ c \in alive
  /\ \/ /\ slot[t] = NULL
        /\ panicked' = panicked \cup {t}
        /\ last' = Call(t, "pop", "Panic")
        /\ UNCHANGED <<slot, stack, alive, used>>
     \/ /\ slot[t] # NULL
        /\ stack[t] = <<>>
        /\ last' = Call(t, "pop", "DriverError")
        /\ UNCHANGED <<slot, stack, alive, used, panicked>>
     \/ /\ slot[t] # NULL
        /\ stack[t] # <<>>
        /\ stack' = [stack EXCEPT ![t] = Tail(@)]
        /\ \/ /\ Head(stack[t]) # c
              /\ panicked' = panicked \cup {t}
              /\ last' = Call(t, "pop", "Panic")
              /\ UNCHANGED slot
           \/ /\ Head(stack[t]) = c
              /\ slot' = [slot EXCEPT ![t] = NULL]
              /\ last' = Call(t, "pop", "Ok")
              /\ UNCHANGED panicked
        /\ UNCHANGED <<alive, used>>

(***************************************************************************)
(* Drop for Context, run on thread t: cuCtxDestroy_v2 destroys c, popping  *)
(* it from t's driver stack if it is current there.  It stays on the      *)
(* stack of any other thread, and no slot is touched.                     *)
(***************************************************************************)
Drop(t, c) ==
  /\ Running(t) /\ c \in alive
  /\ alive' = alive \ {c}
  /\ stack' = IF Current(t) = c THEN [stack EXCEPT ![t] = Tail(@)] ELSE stack
  /\ last' = Call(t, "drop", "Ok")
  /\ UNCHANGED <<slot, used, panicked>>

Next ==
  \E t \in Threads :
     \/ Create(t)
     \/ \E c \in Handles :
          \/ AssureCurrent(t, c)
          \/ Sync(t, c)
          \/ Push(t, c)
          \/ Pop(t, c)
          \/ Drop(t, c)

Spec == Init /\ [][Next]_vars

-----------------------------------------------------------------------------
(* Type invariant.                                                         *)
TypeOK ==
  /\ slot \in [Threads -> Handles \cup {NULL}]
  /\ stack \in [Threads -> Seq(Handles)]
  /\ alive \subseteq used
  /\ used \subseteq Handles
  /\ panicked \subseteq Threads
  /\ last \in [who : Threads \cup {NULL}, op : Ops, out : Outcomes]

(***************************************************************************)
(* Whenever the thread-local slot of a running thread names a live         *)
(* context, that context is the one the driver has current on the thread. *)
(* This is what makes the slot test in Context::push and Context::pop      *)
(* meaningful: create, push, pop, and drops on any thread must all keep    *)
(* the slot and the driver stack in step.                                  *)
(***************************************************************************)
LiveSlotIsCurrent ==
  \A t \in Threads :
     Running(t) /\ slot[t] \in alive => Current(t) = slot[t]

(***************************************************************************)
(* The spec (section 3, invariant (a)): at most one Context is pushed and  *)
(* not popped on a thread at any time.  Context::create pushes without     *)
(* consulting the slot.                                                    *)
(***************************************************************************)
AtMostOneActive ==
  \A t \in Threads : Len(stack[t]) <= 1

(***************************************************************************)
(* The spec (section 4.1): push fails with ContextAlreadyActive only when  *)
(* the thread's slot holds the context that is active.  Checked as: a      *)
(* refused push happens only on a thread with some context current.        *)
(* Drop for Context never clears the slot.                                 *)
(***************************************************************************)
PushRefusedOnlyWhenActive ==
  [][ last'.op = "push" /\ last'.out = "ContextDuplicated"
        => Current(last'.who) # NULL ]_vars

(***************************************************************************)
(* The spec (section 4.1): the Context handle is shareable and sendable    *)
(* across threads with no cross-thread effects, because only activation    *)
(* is thread-scoped.  Checked as: no running thread has a destroyed        *)
(* context current.  Drop for Context destroys the context on whichever    *)
(* thread drops it (the `thread` test moves ctx1 into another thread),     *)
(* and cuCtxDestroy leaves it current on every other thread.               *)
(***************************************************************************)
NoDestroyedCurrent ==
  \A t \in Threads : Running(t) /\ Current(t) # NULL => Current(t) \in alive

=============================================================================
