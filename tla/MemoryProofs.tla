---------------------------- MODULE MemoryProofs ----------------------------
(***************************************************************************)
(* Proofs about the memory layer composed with the context manager, for    *)
(* every set of threads, handles, buffers and values and every size bound: *)
(* its type correctness, and that it implements MemoryAbstract.  The       *)
(* context typing of ContextProofs carries over because a memory method    *)
(* leaves the context part of the state alone, except for aborting its     *)
(* thread, and a context's Drop is one the context model allows.           *)
(***************************************************************************)
EXTENDS Memory, ContextProofs

(* What a memory method may do to the context part of the state: nothing, *)
(* except abort the calling thread t.                                     *)
CtxFrame(t) ==
  /\ UNCHANGED <<slot, stack, alive, used, last>>
  /\ panicked' \in {panicked, panicked \cup {t}}

-----------------------------------------------------------------------------
(* Every memory action keeps to the frame.                                 *)
LEMMA MemoryStepFrame == MemoryStep => \E t \in Threads : CtxFrame(t)
<1> SUFFICES ASSUME NEW t \in Threads,
                    \/ \E c \in Handles, b \in Bufs, n \in 0..MaxLen :
                         \/ PageLockedNew(t, c, b, n)
                         \/ DeviceNew(t, c, b, n)
                         \/ ArrayNew(t, c, b, n)
                    \/ \E b \in Bufs, v \in Values :
                         \/ HostWrite(t, b, v)
                         \/ ArraySet(t, b, v)
                    \/ \E d, s \in Bufs :
                         \/ CopyLinear(t, d, s)
                         \/ CopyToHost(t, d, s)
                         \/ ArrayFromLinear(t, d, s)
                         \/ LinearFromArray(t, d, s)
                    \/ \E c \in Handles, b \in HostBufs : Register(t, c, b)
                    \/ \E b \in Bufs :
                         \/ Unregister(t, b)
                         \/ PageLockedDrop(t, b)
                         \/ DeviceDrop(t, b)
                         \/ ArrayDrop(t, b)
             PROVE CtxFrame(t)
  BY DEF MemoryStep
<1>1. ASSUME NEW c, NEW b, NEW n, NEW k, NewLinear(t, c, b, n, k)
      PROVE CtxFrame(t)
  BY <1>1 DEF NewLinear, MemPanic, ContextGuard, CtxFrame
<1>2. ASSUME NEW c, NEW b, NEW n, ArrayNew(t, c, b, n) PROVE CtxFrame(t)
  BY <1>2 DEF ArrayNew, MemPanic, ContextGuard, CtxFrame
<1>3. ASSUME NEW b, NEW v, HostWrite(t, b, v) \/ ArraySet(t, b, v)
      PROVE CtxFrame(t)
  BY <1>3 DEF HostWrite, ArraySet, MemPanic, ContextGuard, CtxFrame, vars
<1>4. ASSUME NEW d, NEW s, CopyLinear(t, d, s) \/ CopyToHost(t, d, s)
      PROVE CtxFrame(t)
  BY <1>4 DEF CopyLinear, CopyToHost, CopyDone, MemPanic, ContextGuard, CtxFrame
<1>5. ASSUME NEW d, NEW s, ArrayFromLinear(t, d, s) \/ LinearFromArray(t, d, s)
      PROVE CtxFrame(t)
  BY <1>5 DEF ArrayFromLinear, LinearFromArray, CopyDone, MemPanic,
              ContextGuard, CtxFrame
<1>6. ASSUME NEW c, NEW b, Register(t, c, b) \/ Unregister(t, b)
      PROVE CtxFrame(t)
  BY <1>6 DEF Register, Unregister, MemPanic, ContextGuard, CtxFrame
<1>7. ASSUME NEW b, PageLockedDrop(t, b) \/ DeviceDrop(t, b) \/ ArrayDrop(t, b)
      PROVE CtxFrame(t)
  BY <1>7 DEF PageLockedDrop, DeviceDrop, ArrayDrop, Release, ContextGuard,
              CtxFrame
<1>8. QED
  BY <1>1, <1>2, <1>3, <1>4, <1>5, <1>6, <1>7 DEF PageLockedNew, DeviceNew

(* A context step of the composition is a step the context model allows.  *)
LEMMA ContextStepIsNext == ContextStep => [Next]_vars /\ UNCHANGED mvars
  BY DEF ContextStep, Next

-----------------------------------------------------------------------------
(* Type correctness of the buffers.                                        *)
LEMMA UnallocatedType == Unallocated \in BufRecs /\ [Unallocated EXCEPT !.st = "freed"] \in BufRecs
  BY MemoryAssumption DEF Unallocated, BufRecs, Kinds

LEMMA MemInitTypeOK == MemInit => MemTypeOK
<1> SUFFICES ASSUME MemInit PROVE MemTypeOK
  OBVIOUS
<1>1. TypeOK
  BY InitTypeOK DEF MemInit
<1>2. buf \in [Bufs -> BufRecs]
  BY UnallocatedType, MemoryAssumption DEF MemInit, BufRecs, Kinds
<1>3. QED
  BY <1>1, <1>2 DEF MemTypeOK

(* A memory method keeps every buffer record well-formed.                  *)
LEMMA MemoryStepBufType ==
  ASSUME MemTypeOK, MemoryStep PROVE buf' \in [Bufs -> BufRecs]
<1> USE DEF MemTypeOK
<1> SUFFICES ASSUME NEW t \in Threads,
                    \/ \E c \in Handles, b \in Bufs, n \in 0..MaxLen :
                         \/ PageLockedNew(t, c, b, n)
                         \/ DeviceNew(t, c, b, n)
                         \/ ArrayNew(t, c, b, n)
                    \/ \E b \in Bufs, v \in Values :
                         \/ HostWrite(t, b, v)
                         \/ ArraySet(t, b, v)
                    \/ \E d, s \in Bufs :
                         \/ CopyLinear(t, d, s)
                         \/ CopyToHost(t, d, s)
                         \/ ArrayFromLinear(t, d, s)
                         \/ LinearFromArray(t, d, s)
                    \/ \E c \in Handles, b \in HostBufs : Register(t, c, b)
                    \/ \E b \in Bufs :
                         \/ Unregister(t, b)
                         \/ PageLockedDrop(t, b)
                         \/ DeviceDrop(t, b)
                         \/ ArrayDrop(t, b)
             PROVE buf' \in [Bufs -> BufRecs]
  BY DEF MemoryStep
<1>1. ASSUME NEW c \in Handles, NEW b \in Bufs, NEW n \in 0..MaxLen,
             NEW k \in {"PageLocked", "Device"}, NewLinear(t, c, b, n, k)
      PROVE buf' \in [Bufs -> BufRecs]
  BY <1>1 DEF NewLinear, MemPanic, BufRecs, Kinds
<1>2. ASSUME NEW c \in Handles, NEW b \in Bufs, NEW n \in 0..MaxLen,
             ArrayNew(t, c, b, n)
      PROVE buf' \in [Bufs -> BufRecs]
  BY <1>2 DEF ArrayNew, MemPanic, BufRecs, Kinds
<1>3. ASSUME NEW b \in Bufs, NEW v \in Values,
             HostWrite(t, b, v) \/ ArraySet(t, b, v)
      PROVE buf' \in [Bufs -> BufRecs]
  BY <1>3 DEF HostWrite, ArraySet, MemPanic, BufRecs
<1>4. ASSUME NEW d \in Bufs, NEW s \in Bufs,
             \/ CopyLinear(t, d, s) \/ CopyToHost(t, d, s)
             \/ ArrayFromLinear(t, d, s) \/ LinearFromArray(t, d, s)
      PROVE buf' \in [Bufs -> BufRecs]
  <2>1. CASE buf' = [buf EXCEPT ![d].data = buf[s].data]
    BY <2>1 DEF BufRecs
  <2>2. QED
    BY <1>4, <2>1 DEF CopyLinear, CopyToHost, ArrayFromLinear,
                      LinearFromArray, CopyDone, MemPanic
<1>5. ASSUME NEW c \in Handles, NEW b \in Bufs, Register(t, c, b)
      PROVE buf' \in [Bufs -> BufRecs]
  BY <1>5 DEF Register, MemPanic, BufRecs, Kinds
<1>6. ASSUME NEW b \in Bufs,
             \/ Unregister(t, b) \/ PageLockedDrop(t, b)
             \/ DeviceDrop(t, b) \/ ArrayDrop(t, b)
      PROVE buf' \in [Bufs -> BufRecs]
  BY <1>6, UnallocatedType
     DEF Unregister, PageLockedDrop, DeviceDrop, ArrayDrop, Release, BufRecs,
         Kinds
<1>7. QED
  BY <1>1, <1>2, <1>3, <1>4, <1>5, <1>6, MemoryAssumption
     DEF PageLockedNew, DeviceNew

LEMMA MemNextTypeOK == MemTypeOK /\ [MemNext]_allvars => MemTypeOK'
<1> SUFFICES ASSUME MemTypeOK, [MemNext]_allvars PROVE MemTypeOK'
  OBVIOUS
<1>1. CASE ContextStep
  BY <1>1, ContextStepIsNext, NextTypeOK DEF MemTypeOK, mvars
<1>2. CASE MemoryStep
  <2>1. TypeOK'
    BY <1>2, MemoryStepFrame DEF MemTypeOK, TypeOK, CtxFrame
  <2>2. QED
    BY <1>2, <2>1, MemoryStepBufType DEF MemTypeOK
<1>3. CASE UNCHANGED allvars
  BY <1>3 DEF MemTypeOK, TypeOK, allvars, vars, mvars
<1>4. QED
  BY <1>1, <1>2, <1>3 DEF MemNext

(* Every state of the composed system is well-typed.                       *)
THEOREM MemTypeCorrect == MemSpec => []MemTypeOK
  BY MemInitTypeOK, MemNextTypeOK, PTL DEF MemSpec

-----------------------------------------------------------------------------
(***************************************************************************)
(* Refinement.  The only copy that does not compare element counts is      *)
(* copy_to_host from Device memory, which compares byte sizes; they tell   *)
(* the counts apart as long as no count up to MaxLen overflows usize when  *)
(* multiplied by size_of::<T>().                                           *)
(***************************************************************************)
NoWrap == MaxLen * ElemSize < 2 ^ Width

(* Without wrap-around, the byte size of a count is the exact product.     *)
LEMMA ByteSizeExact ==
  ASSUME NoWrap, NEW n \in 0..MaxLen PROVE ByteSize(n) = n * ElemSize
<1>1. n * ElemSize \in Nat /\ n * ElemSize < 2 ^ Width
  BY MemoryAssumption DEF NoWrap
<1>2. QED
  BY <1>1, MemoryAssumption DEF ByteSize

LEMMA ByteSizeInjective ==
  ASSUME NoWrap, NEW a \in 0..MaxLen, NEW b \in 0..MaxLen,
         ByteSize(a) = ByteSize(b)
  PROVE  a = b
<1>1. a * ElemSize = b * ElemSize
  BY ByteSizeExact
<1>2. QED
  BY <1>1, MemoryAssumption

(* A step that leaves the buffers alone is a stutter of the abstraction.   *)
LEMMA BufStutter == UNCHANGED buf => UNCHANGED Abs!absvars
  BY DEF Abs!absvars, AbsContents, AbsSize

(* The initial host slices are present, written and non-empty.             *)
LEMMA InitRefines == MemInit => Abs!Init
<1> SUFFICES ASSUME MemInit PROVE Abs!Init
  OBVIOUS
<1>1. PICK hl \in [HostBufs -> 1..MaxLen], hv \in [HostBufs -> Values],
           ho \in [HostBufs -> Threads] :
        buf = [b \in Bufs |->
                 IF b \in HostBufs
                 THEN [st |-> "live", kind |-> "Host", ctx |-> NULL,
                       len |-> hl[b], data |-> hv[b], owner |-> ho[b]]
                 ELSE Unallocated]
  BY DEF MemInit
<1>2. QED
  BY <1>1, MemoryAssumption
     DEF Abs!Init, Abs!Exists, AbsContents, AbsSize, Unallocated

(* Each kind of buffer update is one abstract step.                        *)
LEMMA AllocRefines ==
  ASSUME buf \in [Bufs -> BufRecs], NEW b \in Bufs, NEW n \in 1..MaxLen, NEW r,
         buf[b].st = "unalloc",
         r.st = "live", r.len = n, r.data = Uninit,
         buf' = [buf EXCEPT ![b] = r]
  PROVE  Abs!Alloc(b, n)
  BY MemoryAssumption DEF Abs!Alloc, Abs!Exists, AbsContents, AbsSize

LEMMA WriteRefines ==
  ASSUME buf \in [Bufs -> BufRecs], NEW b \in Bufs, NEW v \in Values,
         buf[b].st = "live", buf' = [buf EXCEPT ![b].data = v]
  PROVE  Abs!Write(b, v)
  BY MemoryAssumption DEF Abs!Write, Abs!Exists, AbsContents, AbsSize, BufRecs

LEMMA CopyRefines ==
  ASSUME buf \in [Bufs -> BufRecs], NEW d \in Bufs, NEW s \in Bufs, d # s,
         buf[d].st = "live", buf[s].st = "live", buf[d].len = buf[s].len,
         buf' = [buf EXCEPT ![d].data = buf[s].data]
  PROVE  Abs!Copy(d, s)
  BY MemoryAssumption DEF Abs!Copy, Abs!Exists, AbsContents, AbsSize, BufRecs

LEMMA FreeRefines ==
  ASSUME buf \in [Bufs -> BufRecs], NEW b \in Bufs, buf[b].st = "live",
         buf' = [buf EXCEPT ![b] = [Unallocated EXCEPT !.st = "freed"]]
  PROVE  Abs!Free(b)
  BY MemoryAssumption
     DEF Abs!Free, Abs!Exists, AbsContents, AbsSize, BufRecs, Unallocated

LEMMA RelabelStutter ==
  ASSUME buf \in [Bufs -> BufRecs], NEW b \in Bufs, NEW k, NEW c,
         buf' = [buf EXCEPT ![b].kind = k, ![b].ctx = c]
  PROVE  UNCHANGED Abs!absvars
  BY DEF Abs!absvars, AbsContents, AbsSize, BufRecs

LEMMA NextRefines ==
  ASSUME NoWrap, MemTypeOK, [MemNext]_allvars
  PROVE  [Abs!Next]_Abs!absvars
<1> DEFINE AbsStep == [Abs!Next]_Abs!absvars
<1> USE DEF MemTypeOK
<1>1. CASE UNCHANGED buf
  BY <1>1, BufStutter
<1> SUFFICES ASSUME NEW t \in Threads,
                    \/ \E c \in Handles, b \in Bufs, n \in 0..MaxLen :
                         \/ PageLockedNew(t, c, b, n)
                         \/ DeviceNew(t, c, b, n)
                         \/ ArrayNew(t, c, b, n)
                    \/ \E b \in Bufs, v \in Values :
                         \/ HostWrite(t, b, v)
                         \/ ArraySet(t, b, v)
                    \/ \E d, s \in Bufs :
                         \/ CopyLinear(t, d, s)
                         \/ CopyToHost(t, d, s)
                         \/ ArrayFromLinear(t, d, s)
                         \/ LinearFromArray(t, d, s)
                    \/ \E c \in Handles, b \in HostBufs : Register(t, c, b)
                    \/ \E b \in Bufs :
                         \/ Unregister(t, b)
                         \/ PageLockedDrop(t, b)
                         \/ DeviceDrop(t, b)
                         \/ ArrayDrop(t, b)
             PROVE AbsStep
  BY <1>1 DEF MemNext, MemoryStep, ContextStep, allvars, mvars
<1>2. ASSUME NEW c \in Handles, NEW b \in Bufs, NEW n \in 0..MaxLen,
             NEW k \in Kinds, NewLinear(t, c, b, n, k) \/ ArrayNew(t, c, b, n)
      PROVE AbsStep
  <2>1. CASE UNCHANGED buf
    BY <1>1, <2>1
  <2>2. CASE buf[b].st = "unalloc" /\ n > 0
             /\ \E r : /\ r.st = "live" /\ r.len = n /\ r.data = Uninit
                       /\ buf' = [buf EXCEPT ![b] = r]
    <3>1. n \in 1..MaxLen
      BY <2>2
    <3>2. Abs!Alloc(b, n)
      BY <2>2, <3>1, AllocRefines
    <3>3. QED
      BY <3>1, <3>2 DEF Abs!Next
  <2>3. QED
    BY <1>2, <2>1, <2>2 DEF NewLinear, ArrayNew, MemPanic
<1>3. ASSUME NEW b \in Bufs, NEW v \in Values,
             HostWrite(t, b, v) \/ ArraySet(t, b, v)
      PROVE AbsStep
  <2>1. CASE UNCHANGED buf
    BY <1>1, <2>1
  <2>2. CASE buf[b].st = "live" /\ buf' = [buf EXCEPT ![b].data = v]
    BY <2>2, WriteRefines DEF Abs!Next
  <2>3. QED
    BY <1>3, <2>1, <2>2 DEF HostWrite, ArraySet, MemPanic, Owned
<1>4. ASSUME NEW d \in Bufs, NEW s \in Bufs,
             \/ CopyLinear(t, d, s) \/ ArrayFromLinear(t, d, s)
             \/ LinearFromArray(t, d, s)
      PROVE AbsStep
  <2>1. CASE UNCHANGED buf
    BY <1>1, <2>1
  <2>2. CASE /\ d # s /\ buf[d].st = "live" /\ buf[s].st = "live"
             /\ buf[d].len = buf[s].len
             /\ buf' = [buf EXCEPT ![d].data = buf[s].data]
    BY <2>2, CopyRefines DEF Abs!Next
  <2>3. CASE /\ d # s /\ buf[d].st = "live" /\ buf[s].st = "live"
             /\ buf[d].len = buf[s].len
             /\ buf' = [buf EXCEPT ![s].data = buf[d].data]
    BY <2>3, CopyRefines DEF Abs!Next
  <2>4. QED
    BY <1>4, <2>1, <2>2, <2>3
       DEF CopyLinear, ArrayFromLinear, LinearFromArray, CopyDone, MemPanic,
           Owned
<1>5. ASSUME NEW d \in Bufs, NEW s \in Bufs, CopyToHost(t, d, s)
      PROVE AbsStep
  <2>1. CASE UNCHANGED buf
    BY <1>1, <2>1
  <2>2. CASE /\ d # s /\ buf[d].st = "live" /\ buf[s].st = "live"
             /\ buf[d].len = buf[s].len
             /\ buf' = [buf EXCEPT ![d].data = buf[s].data]
    BY <2>2, CopyRefines DEF Abs!Next
  <2>3. CASE /\ d # s /\ buf[d].st = "live" /\ buf[s].st = "live"
             /\ ByteSize(buf[d].len) = ByteSize(buf[s].len)
             /\ buf' = [buf EXCEPT ![d].data = buf[s].data]
    <3>1. buf[d].len = buf[s].len
      BY <2>3, ByteSizeInjective DEF BufRecs
    <3>2. QED
      BY <2>3, <3>1, CopyRefines DEF Abs!Next
  <2>4. QED
    BY <1>5, <2>1, <2>2, <2>3 DEF CopyToHost, CopyDone, MemPanic, Owned
<1>6. ASSUME NEW b \in Bufs,
             (\E c \in Handles : Register(t, c, b)) \/ Unregister(t, b)
      PROVE AbsStep
  <2>1. CASE UNCHANGED buf
    BY <1>1, <2>1
  <2>2. CASE \E k, x : buf' = [buf EXCEPT ![b].kind = k, ![b].ctx = x]
    BY <2>2, RelabelStutter
  <2>3. QED
    BY <1>6, <2>1, <2>2 DEF Register, Unregister, MemPanic
<1>7. ASSUME NEW b \in Bufs,
             PageLockedDrop(t, b) \/ DeviceDrop(t, b) \/ ArrayDrop(t, b)
      PROVE AbsStep
  <2>1. buf[b].st = "live"
        /\ buf' = [buf EXCEPT ![b] = [Unallocated EXCEPT !.st = "freed"]]
    BY <1>7 DEF PageLockedDrop, DeviceDrop, ArrayDrop, Release, Owned
  <2>2. QED
    BY <2>1, FreeRefines DEF Abs!Next
<1>8. QED
  <2>1. CASE \E c \in Handles, b \in Bufs, n \in 0..MaxLen :
               \/ PageLockedNew(t, c, b, n)
               \/ DeviceNew(t, c, b, n)
               \/ ArrayNew(t, c, b, n)
    BY <2>1, <1>2 DEF PageLockedNew, DeviceNew, Kinds
  <2>2. CASE \E b \in Bufs, v \in Values : HostWrite(t, b, v) \/ ArraySet(t, b, v)
    BY <2>2, <1>3
  <2>3. CASE \E d, s \in Bufs :
               \/ CopyLinear(t, d, s)
               \/ CopyToHost(t, d, s)
               \/ ArrayFromLinear(t, d, s)
               \/ LinearFromArray(t, d, s)
    BY <2>3, <1>4, <1>5
  <2>4. CASE \E c \in Handles, b \in HostBufs : Register(t, c, b)
    BY <2>4, <1>6, MemoryAssumption
  <2>5. CASE \E b \in Bufs : Unregister(t, b)
    BY <2>5, <1>6
  <2>6. CASE \E b \in Bufs :
               \/ PageLockedDrop(t, b)
               \/ DeviceDrop(t, b)
               \/ ArrayDrop(t, b)
    BY <2>6, <1>7
  <2>7. QED
    BY <2>1, <2>2, <2>3, <2>4, <2>5, <2>6

(***************************************************************************)
(* The memory layer implements MemoryAbstract under the refinement mapping *)
(* AbsContents, AbsSize: allocation, writes, Array::set, every copy of the *)
(* kind dispatch and every Drop is one abstract step, and every other step *)
(* leaves the caller's view unchanged, as long as element counts up to     *)
(* MaxLen do not overflow usize as byte sizes.                             *)
(***************************************************************************)
THEOREM Refinement == ASSUME NoWrap PROVE MemSpec => ImplementsAbstract
<1>1. MemInit => Abs!Init
  BY InitRefines
<1>2. MemTypeOK /\ [MemNext]_allvars => [Abs!Next]_Abs!absvars
  BY NextRefines
<1>3. QED
  BY <1>1, <1>2, MemTypeCorrect, PTL DEF MemSpec, ImplementsAbstract, Abs!Spec

=============================================================================
