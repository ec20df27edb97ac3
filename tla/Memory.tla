------------------------------ MODULE Memory ------------------------------
(***************************************************************************)
(* The memory kinds and the copy engine of accel (memory/host.rs,          *)
(* memory/slice.rs, memory/array.rs), composed with the context manager.   *)
(*                                                                         *)
(* A buffer is abstracted to its kind, the context it borrows, its element *)
(* count (its byte size is ByteSize of it), one value standing for its     *)
(* contents, and the thread that owns it (PageLockedMemory and Array       *)
(* hold raw pointers, so they are neither Send nor Sync).  Host slices are *)
(* caller-provided and exist from the start.  Every driver call made       *)
(* under a context guard pushes the context on the calling thread and pops *)
(* it again before the method returns.                                     *)
(***************************************************************************)
EXTENDS Context

CONSTANTS
  Bufs,      \* buffer identities
  HostBufs,  \* the caller-provided host slices among them
  Values,    \* element values a buffer can be filled with
  Uninit,    \* contents of freshly allocated, unwritten memory
  MaxLen,    \* largest element count requested
  ElemSize,  \* size_of::<T>()
  Width      \* bits of usize

ASSUME MemoryAssumption ==
  /\ HostBufs \subseteq Bufs
  /\ Uninit \notin Values
  /\ NULL \notin Values \cup {Uninit}
  /\ MaxLen \in Nat \ {0}
  /\ ElemSize \in Nat \ {0}
  /\ Width \in Nat \ {0}

VARIABLES
  buf,       \* [Bufs -> buffer record]
  mlast      \* the last memory call: operands, context used, outcome

mvars == <<buf, mlast>>
allvars == <<vars, mvars>>

(* MemoryType (memory/mod.rs) *)
Kinds == {"Host", "Registered", "PageLocked", "Device", "Array"}
(* Kinds with a linear, host-addressable layout (Continuous). *)
Linear == {"Host", "Registered", "PageLocked", "Device"}

Unallocated ==
  [st |-> "unalloc", kind |-> "Host", ctx |-> NULL, len |-> 0,
   data |-> Uninit, owner |-> NULL]

MCall(t, op, d, s, c, n, out) ==
  [who |-> t, op |-> op, dst |-> d, src |-> s, ctx |-> c, n |-> n, out |-> out]

NoCall == MCall(NULL, "none", NULL, NULL, NULL, 0, "Ok")

-----------------------------------------------------------------------------
(* usize multiplication, wrapping as a release build does.                 *)
ByteSize(n) == (n * ElemSize) % (2 ^ Width)

(* Pointer attribute CU_POINTER_ATTRIBUTE_CONTEXT: none for unmanaged host *)
(* memory, the owning context for everything CUDA allocated.              *)
GetContext(b) == buf[b].ctx

Owned(t, b) == buf[b].st = "live" /\ buf[b].owner = t

(* The borrow a memory object keeps on its context: a Context cannot be    *)
(* dropped while a live buffer refers to it.                               *)
NotBorrowed(c) == \A b \in Bufs : buf[b].st = "live" => buf[b].ctx # c

(* guard_context / contexted_call: push c on the calling thread, make the  *)
(* driver call, pop c.  Net effect on the driver stacks: none.             *)
ContextGuard(t, c) == UNCHANGED stack

(* A panic inside a memory method aborts the thread.                       *)
MemPanic(t, op, d, s, n) ==
  /\ panicked' = panicked \cup {t}
  /\ mlast' = MCall(t, op, d, s, NULL, n, "Panic")
  /\ UNCHANGED <<slot, stack, alive, used, last, buf>>

MemInit ==
  /\ Init
  /\ mlast = NoCall
  /\ \E hl \in [HostBufs -> 1..MaxLen], hv \in [HostBufs -> Values],
        ho \in [HostBufs -> Threads] :
       buf = [b \in Bufs |->
                IF b \in HostBufs
                THEN [st |-> "live", kind |-> "Host", ctx |-> NULL,
                      len |-> hl[b], data |-> hv[b], owner |-> ho[b]]
                ELSE Unallocated]

-----------------------------------------------------------------------------
(***************************************************************************)
(* PageLockedMemory::new and DeviceMemory::new: assert size > 0, then the  *)
(* allocation under the context guard, with .expect on its result.  The   *)
(* request is size * size_of::<T>() bytes.                                 *)
(***************************************************************************)
NewLinear(t, c, b, n, kind) ==
  /\ Running(t) /\ c \in alive /\ buf[b].st = "unalloc"
  /\ \/ /\ n = 0
        /\ MemPanic(t, kind, b, NULL, n)
     \/ /\ n > 0
        /\ \/ MemPanic(t, kind, b, NULL, n)
           \/ /\ ContextGuard(t, c)
              /\ buf' = [buf EXCEPT ![b] =
                           [st |-> "live", kind |-> kind, ctx |-> c, len |-> n,
                            data |-> Uninit, owner |-> t]]
              /\ mlast' = MCall(t, kind, b, NULL, c, n, "Ok")
              /\ UNCHANGED <<slot, alive, used, panicked, last>>

PageLockedNew(t, c, b, n) == NewLinear(t, c, b, n, "PageLocked")

DeviceNew(t, c, b, n) == NewLinear(t, c, b, n, "Device")

(***************************************************************************)
(* Array::uninitialized: cuArray3DCreate under the context guard, with     *)
(* .expect.  There is no zero-size check: a zero extent reaches the        *)
(* driver, which refuses it, and the expect panics.                        *)
(***************************************************************************)
ArrayNew(t, c, b, n) ==
  /\ Running(t) /\ c \in alive /\ buf[b].st = "unalloc"
  /\ \/ /\ n = 0
        /\ panicked' = panicked \cup {t}
        /\ mlast' = MCall(t, "Array", b, NULL, c, n, "Panic")
        /\ UNCHANGED <<slot, stack, alive, used, last, buf>>
     \/ /\ n > 0
        /\ \/ MemPanic(t, "Array", b, NULL, n)
           \/ /\ ContextGuard(t, c)
              /\ buf' = [buf EXCEPT ![b] =
                           [st |-> "live", kind |-> "Array", ctx |-> c,
                            len |-> n, data |-> Uninit, owner |-> t]]
              /\ mlast' = MCall(t, "Array", b, NULL, c, n, "Ok")
              /\ UNCHANGED <<slot, alive, used, panicked, last>>

(* Writing through the slice view (DerefMut / as_mut_slice).               *)
HostWrite(t, b, v) ==
  /\ Running(t) /\ Owned(t, b) /\ buf[b].kind \in Linear
  /\ buf' = [buf EXCEPT ![b].data = v]
  /\ mlast' = MCall(t, "write", b, NULL, NULL, buf[b].len, "Ok")
  /\ UNCHANGED vars

(* The successful end of a copy from s into d, made under context c.       *)
CopyDone(t, op, d, s, c) ==
  /\ buf' = [buf EXCEPT ![d].data = buf[s].data]
  /\ mlast' = MCall(t, op, d, s, c, buf[d].len, "Ok")
  /\ UNCHANGED <<slot, alive, used, panicked, last>>

(***************************************************************************)
(* Memcpy<[T]> for [T] (and every typed linear copy, which delegates to    *)
(* it): assert distinct heads, assert equal element counts, then the      *)
(* destination's context, or else the source's, guards a cuMemcpy; with   *)
(* neither, a plain copy_from_slice.                                       *)
(***************************************************************************)
ResolveContext(d, s) == IF GetContext(d) # NULL THEN GetContext(d) ELSE GetContext(s)

(* Mutant of CopyLinear: the assert_eq! on the element counts is dropped.  *)
CopyLinearUnchecked(t, d, s) ==
  /\ Running(t) /\ Owned(t, d) /\ Owned(t, s) /\ d # s
  /\ buf[d].kind \in Linear /\ buf[s].kind \in Linear
  /\ ContextGuard(t, ResolveContext(d, s))
  /\ CopyDone(t, "memcpy", d, s, ResolveContext(d, s))

CopyLinear(t, d, s) ==
  /\ Running(t) /\ Owned(t, d) /\ Owned(t, s) /\ d # s
  /\ buf[d].kind \in Linear /\ buf[s].kind \in Linear
  /\ \/ /\ buf[d].len # buf[s].len
        /\ MemPanic(t, "memcpy", d, s, buf[d].len)
     \/ /\ buf[d].len = buf[s].len
        /\ ContextGuard(t, ResolveContext(d, s))
        /\ CopyDone(t, "memcpy", d, s, ResolveContext(d, s))

(***************************************************************************)
(* PageLockedMemory::copy_from = copy_to_host: assert distinct heads and   *)
(* equal byte_size(); from host-side memory a copy_from_slice (which      *)
(* panics on unequal lengths); from Device the two contexts must be equal *)
(* (assert_eq) and guard cuMemcpyDtoH; from Array, unimplemented!.         *)
(***************************************************************************)
CopyToHost(t, d, s) ==
  /\ Running(t) /\ Owned(t, d) /\ Owned(t, s) /\ d # s
  /\ buf[d].kind = "PageLocked"
  /\ \/ /\ ByteSize(buf[d].len) # ByteSize(buf[s].len)
        /\ MemPanic(t, "copy_to_host", d, s, buf[d].len)
     \/ /\ ByteSize(buf[d].len) = ByteSize(buf[s].len)
        /\ \/ /\ buf[s].kind \in {"Host", "Registered", "PageLocked"}
              /\ \/ /\ buf[d].len # buf[s].len
                    /\ MemPanic(t, "copy_to_host", d, s, buf[d].len)
                 \/ /\ buf[d].len = buf[s].len
                    /\ UNCHANGED stack
                    /\ CopyDone(t, "copy_to_host", d, s, NULL)
           \/ /\ buf[s].kind = "Device"
              /\ \/ /\ GetContext(d) # GetContext(s)
                    /\ MemPanic(t, "copy_to_host", d, s, buf[d].len)
                 \/ /\ GetContext(d) = GetContext(s)
                    /\ ContextGuard(t, GetContext(d))
                    /\ CopyDone(t, "copy_to_host", d, s, GetContext(d))
           \/ /\ buf[s].kind = "Array"
              /\ MemPanic(t, "copy_to_host", d, s, buf[d].len)

(***************************************************************************)
(* Memcpy<[T]> for Array and Memcpy<Array> for [T] (and the typed linear   *)
(* kinds, which delegate through as_slice): assert distinct heads and      *)
(* equal element counts, then cuMemcpy3D guarded by the array's context.  *)
(***************************************************************************)
ArrayFromLinear(t, a, s) ==
  /\ Running(t) /\ Owned(t, a) /\ Owned(t, s) /\ a # s
  /\ buf[a].kind = "Array" /\ buf[s].kind \in Linear
  /\ \/ /\ buf[a].len # buf[s].len
        /\ MemPanic(t, "memcpy3d", a, s, buf[a].len)
     \/ /\ buf[a].len = buf[s].len
        /\ ContextGuard(t, GetContext(a))
        /\ CopyDone(t, "memcpy3d", a, s, GetContext(a))

LinearFromArray(t, d, a) ==
  /\ Running(t) /\ Owned(t, d) /\ Owned(t, a) /\ d # a
  /\ buf[a].kind = "Array" /\ buf[d].kind \in Linear
  /\ \/ /\ buf[d].len # buf[a].len
        /\ MemPanic(t, "memcpy3d", d, a, buf[d].len)
     \/ /\ buf[d].len = buf[a].len
        /\ ContextGuard(t, GetContext(a))
        /\ CopyDone(t, "memcpy3d", d, a, GetContext(a))

(***************************************************************************)
(* Memset for Array: a page-locked staging buffer filled with the value   *)
(* (whose allocation may fail and panic), copied into the array, freed.   *)
(***************************************************************************)
ArraySet(t, a, v) ==
  /\ Running(t) /\ Owned(t, a) /\ buf[a].kind = "Array"
  /\ \/ MemPanic(t, "set", a, NULL, buf[a].len)
     \/ /\ ContextGuard(t, GetContext(a))
        /\ buf' = [buf EXCEPT ![a].data = v]
        /\ mlast' = MCall(t, "set", a, NULL, GetContext(a), buf[a].len, "Ok")
        /\ UNCHANGED <<slot, alive, used, panicked, last>>

(***************************************************************************)
(* RegisteredMemory (modelled from the spec, section 4.3): the caller's    *)
(* host slice is registered with the driver under context c (an           *)
(* allocation failure panics), and its Drop unregisters it.  The contents *)
(* stay where they are; only the kind and the context change.             *)
(***************************************************************************)
Register(t, c, b) ==
  /\ Running(t) /\ c \in alive /\ Owned(t, b) /\ buf[b].kind = "Host"
  /\ \/ MemPanic(t, "Registered", b, NULL, buf[b].len)
     \/ /\ ContextGuard(t, c)
        /\ buf' = [buf EXCEPT ![b].kind = "Registered", ![b].ctx = c]
        /\ mlast' = MCall(t, "Registered", b, NULL, c, buf[b].len, "Ok")
        /\ UNCHANGED <<slot, alive, used, panicked, last>>

Unregister(t, b) ==
  /\ Running(t) /\ Owned(t, b) /\ buf[b].kind = "Registered"
  /\ ContextGuard(t, GetContext(b))
  /\ buf' = [buf EXCEPT ![b].kind = "Host", ![b].ctx = NULL]
  /\ mlast' = MCall(t, "unregister", b, NULL, GetContext(b), buf[b].len, "Ok")
  /\ UNCHANGED <<slot, alive, used, panicked, last>>

(* The end of a Drop that releases b through context c (NULL: no guard).   *)
(* A failing release is only logged, so the buffer is gone either way.     *)
Release(t, b, c) ==
  /\ buf' = [buf EXCEPT ![b] = [Unallocated EXCEPT !.st = "freed"]]
  /\ mlast' = MCall(t, "free", b, NULL, c, buf[b].len, "Ok")
  /\ UNCHANGED <<slot, alive, used, panicked, last>>

(* Drop for PageLockedMemory: cuMemFreeHost, called without a guard.       *)
PageLockedDrop(t, b) ==
  /\ Running(t) /\ Owned(t, b) /\ buf[b].kind = "PageLocked"
  /\ UNCHANGED stack
  /\ Release(t, b, NULL)

(* Drop for DeviceMemory: cuMemFree under the context guard.               *)
DeviceDrop(t, b) ==
  /\ Running(t) /\ Owned(t, b) /\ buf[b].kind = "Device"
  /\ ContextGuard(t, GetContext(b))
  /\ Release(t, b, GetContext(b))

(* Drop for Array: cuArrayDestroy through contexted_call!.                 *)
ArrayDrop(t, b) ==
  /\ Running(t) /\ Owned(t, b) /\ buf[b].kind = "Array"
  /\ ContextGuard(t, GetContext(b))
  /\ Release(t, b, GetContext(b))

-----------------------------------------------------------------------------
(* Context methods leave memory alone; a Context is dropped only when no   *)
(* memory object borrows it.                                               *)
ContextStep ==
  /\ \E t \in Threads :
        \/ Create(t)
        \/ \E c \in Handles :
             \/ AssureCurrent(t, c)
             \/ Sync(t, c)
             \/ Push(t, c)
             \/ Pop(t, c)
             \/ Drop(t, c) /\ NotBorrowed(c)
  /\ UNCHANGED mvars

MemoryStep ==
  \E t \in Threads :
     \/ \E c \in Handles, b \in Bufs, n \in 0..MaxLen :
          \/ PageLockedNew(t, c, b, n)
          \/ DeviceNew(t, c, b, n)
          \/ ArrayNew(t, c, b, n)
     \/ \E b \in Bufs, v \in Values :
          \/ HostWrite(t, b, v)
          \/ ArraySet(t, b, v)
     \/ \E d, s \in Bufs :
          \/ CopyLinear(t, d, s)
          \/ CopyToHost(t, d, s)
          \/ ArrayFromLinear(t, d, s)
          \/ LinearFromArray(t, d, s)
     \/ \E c \in Handles, b \in HostBufs : Register(t, c, b)
     \/ \E b \in Bufs :
          \/ Unregister(t, b)
          \/ PageLockedDrop(t, b)
          \/ DeviceDrop(t, b)
          \/ ArrayDrop(t, b)

MemNext == ContextStep \/ MemoryStep

MemSpec == MemInit /\ [][MemNext]_allvars

-----------------------------------------------------------------------------
BufRecs ==
  [st : {"unalloc", "live", "freed"}, kind : Kinds, ctx : Handles \cup {NULL},
   len : 0..MaxLen, data : Values \cup {Uninit},
   owner : Threads \cup {NULL}]

(* Type invariant of the composed system.                                  *)
MemTypeOK ==
  /\ TypeOK
  /\ buf \in [Bufs -> BufRecs]

CopyOps == {"memcpy", "copy_to_host", "memcpy3d"}

(***************************************************************************)
(* The spec (section 4.4): a copy between host-addressable memory and      *)
(* Device memory resolves the context from whichever side carries one,     *)
(* and when both carry one they must agree, a mismatch being fatal.        *)
(* copy_to_host asserts it for a Device source; the slice copy of         *)
(* slice.rs takes the destination's context and never looks at the       *)
(* source's.                                                               *)
(***************************************************************************)
CopyContextsAgree ==
  [][ mlast'.op \in CopyOps /\ mlast'.out = "Ok"
        /\ "Device" \in {buf[mlast'.src].kind, buf[mlast'.dst].kind}
        /\ GetContext(mlast'.src) # NULL /\ GetContext(mlast'.dst) # NULL
        => GetContext(mlast'.src) = GetContext(mlast'.dst) ]_allvars

(***************************************************************************)
(* The spec (sections 4.4 and 8): a copy between memories of different     *)
(* byte sizes always fails fast, whatever the kind pair.  copy_to_host     *)
(* compares byte_size(), which is size * size_of::<T>() in wrapping usize  *)
(* arithmetic, and from Device memory that is the only size check.         *)
(***************************************************************************)
CopySizesAgree ==
  [][ mlast'.op \in CopyOps /\ mlast'.out = "Ok"
        => buf[mlast'.dst].len * ElemSize = buf[mlast'.src].len * ElemSize ]_allvars

(***************************************************************************)
(* The spec (sections 4.3 and 8): a zero-sized allocation of page-locked,  *)
(* device or array memory fails fast and never reaches the native         *)
(* allocator.  Array::uninitialized has no zero-size check.               *)
(***************************************************************************)
ZeroSizeFailsFast ==
  [][ mlast'.op \in {"PageLocked", "Device", "Array"} /\ mlast'.n = 0
        => mlast'.ctx = NULL ]_allvars

(***************************************************************************)
(* Every live page-locked buffer was allocated with at least as many      *)
(* bytes as its slice view (Deref, from_raw_parts over `size` elements)    *)
(* covers.  PageLockedMemory::new asks cuMemAllocHost for                 *)
(* size * size_of::<T>() bytes, computed in wrapping usize arithmetic.     *)
(***************************************************************************)
AllocationCoversView ==
  \A b \in Bufs :
     buf[b].st = "live" /\ buf[b].kind = "PageLocked"
       => ByteSize(buf[b].len) >= buf[b].len * ElemSize

(***************************************************************************)
(* The refinement mapping to the caller's view: a live buffer's contents   *)
(* and element count; NULL contents and no elements for any other.        *)
(***************************************************************************)
AbsContents == [b \in Bufs |-> IF buf[b].st = "live" THEN buf[b].data ELSE NULL]

AbsSize == [b \in Bufs |-> IF buf[b].st = "live" THEN buf[b].len ELSE 0]

Abs == INSTANCE MemoryAbstract
         WITH Objs <- Bufs, Absent <- NULL, contents <- AbsContents,
              size <- AbsSize

(***************************************************************************)
(* The memory layer implements its abstract specification: every          *)
(* allocation, write, fill, copy and drop of the kinds and the copy        *)
(* dispatch is one step of MemoryAbstract (allocate with a positive count, *)
(* write, copy between distinct objects of equal element count, free), and *)
(* every context method, registration and panic leaves the caller's view   *)
(* unchanged.                                                              *)
(***************************************************************************)
ImplementsAbstract == Abs!Spec

(***************************************************************************)
(* A safe API never reads uninitialized memory: a copy that returns read a *)
(* source whose contents were written.  PageLockedMemory::new is a safe    *)
(* function that returns cuMemAllocHost memory unwritten, and both Deref   *)
(* and copy_from then read it.  (Array::uninitialized is unsafe, so array  *)
(* sources are the caller's responsibility and are left out.)             *)
(***************************************************************************)
NoUninitRead ==
  [][ mlast'.op \in CopyOps /\ mlast'.out = "Ok" /\ buf[mlast'.src].kind # "Array"
        => buf[mlast'.src].data # Uninit ]_allvars

=============================================================================
