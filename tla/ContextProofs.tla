--------------------------- MODULE ContextProofs ---------------------------
(***************************************************************************)
(* Proofs about the context-stack manager, for every set of threads and   *)
(* handles.                                                                *)
(***************************************************************************)
EXTENDS Context, TLAPS

(***************************************************************************)
(* The inductive strengthening of LiveSlotIsCurrent.  A slot only ever     *)
(* holds a handle the driver returned, and the driver never returns a     *)
(* used handle again, so a slot left stale by a Drop never names a live    *)
(* context created later.                                                  *)
(***************************************************************************)
SlotsUsed == \A t \in Threads : slot[t] \in used \cup {NULL}

IInv == TypeOK /\ SlotsUsed /\ LiveSlotIsCurrent


(* Pushing on and popping from a driver stack keep it a stack of handles. *)
LEMMA StackPush ==
  ASSUME NEW S, NEW s \in Seq(S), NEW x \in S
  PROVE  <<x>> \o s \in Seq(S)
  OBVIOUS

LEMMA StackPop ==
  ASSUME NEW S, NEW s \in Seq(S), s # <<>>
  PROVE  Tail(s) \in Seq(S)
  OBVIOUS

-----------------------------------------------------------------------------
(* Type correctness.                                                      *)
LEMMA InitTypeOK == Init => TypeOK
  BY ConstantsAssumption DEF Init, TypeOK, Call, Ops, Outcomes

LEMMA NextTypeOK == TypeOK /\ [Next]_vars => TypeOK'
<1> SUFFICES ASSUME TypeOK, [Next]_vars PROVE TypeOK'
  OBVIOUS
<1>1. ASSUME NEW t \in Threads, Create(t) PROVE TypeOK'
  <2>1. CASE /\ last' = Call(t, "create", "DriverError")
             /\ UNCHANGED <<slot, stack, alive, used, panicked>>
    BY <2>1 DEF TypeOK, Call, Ops, Outcomes
  <2>2. ASSUME NEW h \in Handles \ used,
               alive' = alive \cup {h}, used' = used \cup {h},
               stack' = [stack EXCEPT ![t] = <<h>> \o @],
               slot' = [slot EXCEPT ![t] = h],
               last' = Call(t, "create", "Ok"), UNCHANGED panicked
        PROVE TypeOK'
    <3>1. stack' \in [Threads -> Seq(Handles)]
      BY <2>2, StackPush DEF TypeOK
    <3>2. QED
      BY <2>2, <3>1 DEF TypeOK, Call, Ops, Outcomes
  <2>3. QED
    BY <1>1, <2>1, <2>2 DEF Create, FreshHandles
<1>2. ASSUME NEW t \in Threads, NEW c \in Handles, AssureCurrent(t, c)
      PROVE TypeOK'
  BY <1>2 DEF AssureCurrent, AssureCurrentResult, TypeOK, Call, Ops, Outcomes
<1>3. ASSUME NEW t \in Threads, NEW c \in Handles, Sync(t, c) PROVE TypeOK'
  BY <1>3 DEF Sync, AssureCurrentResult, TypeOK, Call, Ops, Outcomes
<1>4. ASSUME NEW t \in Threads, NEW c \in Handles, Push(t, c) PROVE TypeOK'
  <2>1. CASE slot[t] # NULL
    BY <1>4, <2>1 DEF Push, TypeOK, Call, Ops, Outcomes
  <2>2. CASE slot[t] = NULL
    <3>1. /\ stack' = [stack EXCEPT ![t] = <<c>> \o @]
          /\ slot' = [slot EXCEPT ![t] = c]
          /\ last' = Call(t, "push", "Ok")
          /\ UNCHANGED <<alive, used, panicked>>
      BY <1>4, <2>2 DEF Push
    <3>2. stack' \in [Threads -> Seq(Handles)]
      BY <3>1, StackPush DEF TypeOK
    <3>3. QED
      BY <3>1, <3>2 DEF TypeOK, Call, Ops, Outcomes
  <2>3. QED
    BY <2>1, <2>2
<1>5. ASSUME NEW t \in Threads, NEW c \in Handles, Pop(t, c) PROVE TypeOK'
  <2>1. CASE slot[t] = NULL
    BY <1>5, <2>1 DEF Pop, TypeOK, Call, Ops, Outcomes
  <2>2. CASE slot[t] # NULL /\ stack[t] = <<>>
    BY <1>5, <2>2 DEF Pop, TypeOK, Call, Ops, Outcomes
  <2>3. CASE slot[t] # NULL /\ stack[t] # <<>>
    <3>1. stack' = [stack EXCEPT ![t] = Tail(@)]
      BY <1>5, <2>3 DEF Pop
    <3>2. stack' \in [Threads -> Seq(Handles)]
      BY <2>3, <3>1, StackPop DEF TypeOK
    <3>3. slot' \in [Threads -> Handles \cup {NULL}]
      BY <1>5, <2>3 DEF Pop, TypeOK
    <3>4. panicked' \subseteq Threads
      BY <1>5, <2>3 DEF Pop, TypeOK
    <3>5. last' \in [who : Threads \cup {NULL}, op : Ops, out : Outcomes]
      BY <1>5, <2>3 DEF Pop, Call, Ops, Outcomes
    <3>6. QED
      BY <1>5, <2>3, <3>2, <3>3, <3>4, <3>5 DEF Pop, TypeOK
  <2>4. QED
    BY <2>1, <2>2, <2>3
<1>6. ASSUME NEW t \in Threads, NEW c \in Handles, Drop(t, c) PROVE TypeOK'
  <2>1. stack' \in [Threads -> Seq(Handles)]
    <3>1. CASE Current(t) = c
      <4>1. stack[t] # <<>>
        BY <3>1, ConstantsAssumption DEF Current
      <4>2. QED
        BY <1>6, <3>1, <4>1, StackPop DEF Drop, TypeOK
    <3>2. CASE Current(t) # c
      BY <1>6, <3>2 DEF Drop, TypeOK
    <3>3. QED
      BY <3>1, <3>2
  <2>2. QED
    BY <1>6, <2>1 DEF Drop, TypeOK, Call, Ops, Outcomes
<1>7. CASE UNCHANGED vars
  BY <1>7 DEF TypeOK, vars
<1>8. QED
  BY <1>1, <1>2, <1>3, <1>4, <1>5, <1>6, <1>7 DEF Next

(* Context never leaves its types: slots hold handles, driver stacks are  *)
(* sequences of handles, live contexts are ones the driver created.       *)
THEOREM TypeCorrect == Spec => []TypeOK
  BY InitTypeOK, NextTypeOK, PTL DEF Spec

-----------------------------------------------------------------------------
LEMMA InitIInv == Init => IInv
  BY InitTypeOK, ConstantsAssumption DEF Init, IInv, SlotsUsed, LiveSlotIsCurrent

(* Every step of every thread preserves IInv.                             *)
LEMMA NextIInv == IInv /\ [Next]_vars => IInv'
<1> SUFFICES ASSUME IInv, [Next]_vars PROVE IInv'
  OBVIOUS
<1>0. TypeOK /\ TypeOK'
  BY NextTypeOK DEF IInv
<1> USE ConstantsAssumption DEF IInv, SlotsUsed, LiveSlotIsCurrent, TypeOK
<1>1. ASSUME NEW t \in Threads, Create(t) PROVE IInv'
  <2>1. CASE /\ last' = Call(t, "create", "DriverError")
             /\ UNCHANGED <<slot, stack, alive, used, panicked>>
    BY <1>0, <2>1 DEF Running, Current
  <2>2. ASSUME NEW h \in Handles \ used,
               alive' = alive \cup {h}, used' = used \cup {h},
               stack' = [stack EXCEPT ![t] = <<h>> \o @],
               slot' = [slot EXCEPT ![t] = h],
               last' = Call(t, "create", "Ok"), UNCHANGED panicked
        PROVE IInv'
    <3>1. SlotsUsed'
      BY <1>0, <2>2
    <3>2. ASSUME NEW u \in Threads, Running(u)', slot'[u] \in alive'
          PROVE Current(u)' = slot'[u]
      <4>1. CASE u = t
        BY <1>0, <2>2, <4>1 DEF Current
      <4>2. CASE u # t
        <5>1. slot[u] # h
          BY <2>2, <4>2
        <5>2. slot[u] \in alive /\ Running(u)
          BY <2>2, <3>2, <4>2, <5>1 DEF Running
        <5>3. QED
          BY <1>0, <2>2, <4>2, <5>2 DEF Current
      <4>3. QED
        BY <4>1, <4>2
    <3>3. QED
      BY <1>0, <3>1, <3>2
  <2>3. QED
    BY <1>1, <2>1, <2>2 DEF Create, FreshHandles
<1>2. ASSUME NEW t \in Threads, NEW c \in Handles, AssureCurrent(t, c)
      PROVE IInv'
  BY <1>0, <1>2 DEF AssureCurrent, Running, Current
<1>3. ASSUME NEW t \in Threads, NEW c \in Handles, Sync(t, c) PROVE IInv'
  BY <1>0, <1>3 DEF Sync, Running, Current
<1>4. ASSUME NEW t \in Threads, NEW c \in Handles, Push(t, c) PROVE IInv'
  <2>1. CASE slot[t] # NULL
    BY <1>0, <1>4, <2>1 DEF Push, Running, Current
  <2>2. CASE slot[t] = NULL
    <3>1. /\ stack' = [stack EXCEPT ![t] = <<c>> \o @]
          /\ slot' = [slot EXCEPT ![t] = c]
          /\ UNCHANGED <<alive, used, panicked>>
          /\ c \in alive
      BY <1>4, <2>2 DEF Push
    <3>2. QED
      BY <1>0, <3>1 DEF Running, Current
  <2>3. QED
    BY <2>1, <2>2
<1>5. ASSUME NEW t \in Threads, NEW c \in Handles, Pop(t, c) PROVE IInv'
  <2>1. CASE slot[t] = NULL
    BY <1>0, <1>5, <2>1 DEF Pop, Running, Current
  <2>2. CASE slot[t] # NULL /\ stack[t] = <<>>
    BY <1>0, <1>5, <2>2 DEF Pop, Running, Current
  <2>3. CASE slot[t] # NULL /\ stack[t] # <<>> /\ Head(stack[t]) # c
    <3>1. /\ stack' = [stack EXCEPT ![t] = Tail(@)]
          /\ panicked' = panicked \cup {t}
          /\ UNCHANGED <<slot, alive, used>>
      BY <1>5, <2>3 DEF Pop
    <3>2. QED
      BY <1>0, <3>1 DEF Running, Current
  <2>4. CASE slot[t] # NULL /\ stack[t] # <<>> /\ Head(stack[t]) = c
    <3>1. /\ stack' = [stack EXCEPT ![t] = Tail(@)]
          /\ slot' = [slot EXCEPT ![t] = NULL]
          /\ UNCHANGED <<alive, used, panicked>>
      BY <1>5, <2>4 DEF Pop
    <3>2. QED
      BY <1>0, <3>1 DEF Running, Current
  <2>5. QED
    BY <2>1, <2>2, <2>3, <2>4
<1>6. ASSUME NEW t \in Threads, NEW c \in Handles, Drop(t, c) PROVE IInv'
  <2>1. /\ alive' = alive \ {c}
        /\ stack' = IF Current(t) = c THEN [stack EXCEPT ![t] = Tail(@)]
                                      ELSE stack
        /\ UNCHANGED <<slot, used, panicked>>
    BY <1>6 DEF Drop
  <2>2. ASSUME NEW u \in Threads, Running(u)', slot'[u] \in alive'
        PROVE Current(u)' = slot'[u]
    <3>1. slot[u] \in alive /\ slot[u] # c /\ Running(u)
      BY <2>1, <2>2 DEF Running
    <3>2. Current(u) = slot[u]
      BY <3>1
    <3>3. stack'[u] = stack[u]
      BY <1>0, <2>1, <3>1, <3>2
    <3>4. QED
      BY <2>1, <3>2, <3>3 DEF Current
  <2>3. QED
    BY <1>0, <2>1, <2>2
<1>7. CASE UNCHANGED vars
  BY <1>0, <1>7 DEF vars, Running, Current
<1>8. QED
  BY <1>1, <1>2, <1>3, <1>4, <1>5, <1>6, <1>7 DEF Next

(* The thread-local slot, whenever it names a live context on a running   *)
(* thread, names the context the driver has current there: Context::push  *)
(* and Context::pop test the right thing, for any number of threads and   *)
(* handles, as long as the driver never hands out a handle twice.          *)
THEOREM SlotIsCurrent == Spec => []LiveSlotIsCurrent
<1>1. IInv => LiveSlotIsCurrent
  BY DEF IInv
<1>2. QED
  BY InitIInv, NextIInv, <1>1, PTL DEF Spec

=============================================================================
