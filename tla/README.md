# Verification project for accel's context and memory layer

TLA+ models of the CUDA context discipline and of the memory and copy layer of
`accel` (`src/accel/src/driver/context.rs`, `src/accel/src/memory/*.rs`).
The TLC runs check them on small instances. TLAPS proves the context
invariants, the memory layer's type invariant, and that the memory layer
implements an abstract memory specification, for every value of the
constants.

## 1. Inventory

### Components, their state and operations

| Component | Source | State | Operations |
|---|---|---|---|
| Context | `driver/context.rs` | One native `CUcontext` per `Context`. A thread-local `CONTEXT_STACK_LOCK: Option<CUcontext>` per thread. The driver's own per-thread context stack, whose head `cuCtxGetCurrent` returns. | `create`, `assure_current`, `version`, `push`, `pop`, `sync`, `Drop` |
| Capability traits | `memory/mod.rs` | None. `MemoryType` tags; `Memory`, `MemoryMut`, `Continuous(Mut)` and `Managed` traits. | default `copy_from` (Host/Host only), `buffer_id` |
| Host slice | `memory/slice.rs` | Caller-provided `[T]`. Its kind and context are discovered through pointer attributes. | `memory_type`, `get_context`, slice `copy_from` |
| Page-locked memory | `memory/host.rs` | Pointer, element count and `&'ctx Context`. | `new`, `Deref(Mut)`, `byte_size`, `copy_from` (= `copy_to_host`), `Drop` |
| Device and registered memory | `memory/device.rs`, which is not in the tree | Like page-locked memory. | `new`, `Drop` |
| Array | `memory/array.rs` | `CUarray`, `Dim` and an owned `Context`. | `uninitialized`, 3-D copies in both directions, `set`, `Drop` |
| Dimension | not in the tree | Shape, layers and channels. | `len`, `width`/`height`/`depth`, `as_descriptor` |

### How the components interact

- Every memory object refers to the context that allocated it. The
  page-locked buffer borrows it (`&'ctx`) and the array owns a clone, so
  a context cannot be dropped while memory refers to it.
- Every allocation, free and device copy runs its driver call under a
  context guard (`guard_context`, `contexted_call!`). The guard pushes the
  object's context on the calling thread's driver stack and pops it
  afterwards.
- `Context::push` and `Context::pop` consult the thread-local slot, and
  the driver keeps its own stack. The two must stay in step, and nothing
  in the code enforces it.
- Concurrency comes from the host program's threads only. `Context` is
  `Send + Sync`. Memory objects hold raw pointers, so they are neither
  `Send` nor `Sync` and stay on the thread that made them. A panic aborts
  the calling thread.

### What is hard

- The slot and the driver stack drift apart. This happens through nested
  `create`, through `Drop`, which never clears the slot, and through
  `pop`, which lets the driver pop before it checks the popped handle.
- A context dropped on one thread stays current, destroyed, on another
  thread.
- Handles can be reused after destruction.
- Context guards must restore the stack on every path.
- Copies are dispatched on the kind pair, each pair with its own context
  choice and its own assertions.
- Sizes can be zero, and `usize` arithmetic can wrap.

### Properties that make each component correct

- **Context:** the slot, when it names a live context, names the current
  one; at most one context is active per thread; `push` is refused only
  when a context is active; no destroyed context stays current.
- **Copy engine:** a copy delivers its source to its destination and
  touches nothing else; contexts agree on both sides; the guards leave
  the driver stack as they found it.
- **Allocation:** zero sizes fail before the driver; the allocation
  covers the slice view.

`PROJECT.json` lists the hazards, each at the line where it bites.

## 2. Modules

- **`Context.tla`** models the context manager.
  - Constants: `Threads`, `Handles` and `NULL` (assumption:
    `NULL \notin Handles`).
  - Variables:
    - `slot[t]`: the thread-local lock.
    - `stack[t]`: the driver stack. `Current(t)` is its head, as
      `cuCtxGetCurrent` returns it.
    - `alive` and `used`: contexts not yet destroyed, and handles the
      driver has issued.
    - `panicked`: threads aborted by a panic.
    - `last`: the last call, its outcome included.
  - Actions. Each one's alternatives follow the code's branches in order.
    - `Create` (context.rs 33-40): the driver call fails, or a fresh
      handle is pushed and the slot is overwritten.
    - `AssureCurrent` and `Sync` (43-50, 85-89).
    - `Push` (59-67): refused when the slot is occupied.
    - `Pop` (70-82): panics on an empty slot; returns `Err` when the
      driver stack is empty; otherwise the driver pops, and the code
      panics if the popped handle is not self or clears the slot if it
      is.
    - `Drop` (17-21): `cuCtxDestroy` pops the context only if it is
      current on the dropping thread.
  - The driver's behaviour is taken from the CUDA driver documentation.
    `FreshHandles` is the set `cuCtxCreate` may return: by default a
    pointer value never returned before. The `context_handle_reuse` run
    replaces it with any handle not alive.
  - Any thread may call or drop any live context, since `Context` is
    `Send + Sync`.
- **`Memory.tla`** EXTENDS `Context` and models the memory layer.
  - Each buffer is a record of its state, kind, context, element count,
    one abstract content value (or `Uninit`) and its
    owner thread.
  - Actions:
    - `PageLockedNew`: host.rs 134-160. `DeviceNew` is modelled from the
      spec.
    - `ArrayNew`: array.rs 126-139.
    - `HostWrite`: writes through `DerefMut`.
    - `CopyLinear`: the slice `Memcpy` and the typed copies that
      delegate to it.
    - `CopyToHost`: host.rs 61-115.
    - `ArrayFromLinear` and `LinearFromArray`: array.rs 55-116.
    - `ArraySet`.
    - `Register` and `Unregister`: `RegisteredMemory`, modelled from the
      spec. A host slice is registered under a context and changes kind.
    - `PageLockedDrop` (no guard, host.rs 15-21), `DeviceDrop` (from the
      spec) and `ArrayDrop` (guarded, array.rs 22-28). They share
      `Release`, whose failure is only logged.
  - `ContextGuard` (modelled from the spec) leaves the driver stacks
    unchanged.
  - In the composition, a context's `Drop` is allowed only when
    `NotBorrowed` holds, because the borrow checker forbids the rest.
    An `Array` holds a `Context` value (`context.clone()`, array.rs
    135) rather than a borrow. The model gives it the borrow semantics
    the spec asks for. The hazard list records what happens otherwise.
  - `AbsContents` and `AbsSize` map the buffers to the caller's view,
    and `Abs` instantiates `MemoryAbstract` with them.
- **`MemoryAbstract.tla`** is what the memory layer promises its caller.
  Each object has contents and an element count. Its actions are
  `Alloc` (positive count, unwritten contents), `Write`, `Copy` (between
  distinct objects of equal count) and `Free`.
- **`ContextProofs.tla`** and **`MemoryProofs.tla`** hold the TLAPS
  proofs.
- **`MCContext.tla`** and **`MCMemory.tla`** instantiate the models for
  TLC, with symmetry sets.

## 3. Runs

| Run | Checks | Expect | Shows |
|---|---|---|---|
| context_slot | `LiveSlotIsCurrent` | pass | 2 threads and 3 handles, all interleavings (13,780 states). The slot never names a live context other than the current one. |
| context_nesting | `AtMostOneActive` | violation | Two `create`s on one thread leave two contexts pushed. |
| context_stale_slot | `PushRefusedOnlyWhenActive` | violation | `create`, `drop`, then `push` is refused with nothing current. |
| context_cross_drop | `NoDestroyedCurrent` | violation | `create` on one thread, `drop` on another: the context stays current, destroyed, on the first. |
| context_handle_reuse | `LiveSlotIsCurrent` | violation | With a driver that reuses pointer values, `create`, `drop` on t1, then `create` on t2 returning the same pointer: t1's stale slot names a live context that is not current there. |
| memory_copy | `ImplementsAbstract` | pass | 1 thread, 2 contexts, 1 host slice and 2 allocated buffers of up to 2 elements, with every kind, registration and every copy pair (about 227,000 distinct views, 1.5 minutes). |
| uninit_read | `NoUninitRead` | violation | `PageLockedMemory::new` followed by a copy from it reads unwritten memory. |
| copy_context_mismatch | `CopyContextsAgree` | violation | A slice copy from a Device buffer of one context into a page-locked buffer of another succeeds, under the destination's context. The property covers only pairs with a Device side, as spec §4.4 does: `copy_to_host` copies between host-side kinds with no context check, as the spec allows. |
| zero_size_array | `ZeroSizeFailsFast` | violation | `Array::uninitialized` with a zero extent reaches the driver. |
| pinned_overflow | `AllocationCoversView` | violation | With a 3-bit `usize` and 3-byte elements, `new(3)` asks for 9 % 8 = 1 byte for a 9-byte view. With these sizes, no smaller request wraps. |
| wrapped_copy_size | `CopySizesAgree` | violation | With a 3-bit `usize` and 4-byte elements, a 3-element Device buffer and a 1-element page-locked buffer both report `byte_size` 4, so `copy_to_host` between them succeeds. |

**Bounds.**
- Three handles and two threads are enough for nested creates, stale
  slots and cross-thread drops. Every scenario found takes at most 5
  steps.
- The memory run uses one thread because memory objects are
  thread-confined and the guards are atomic within a thread. Two threads
  made the state space too large.
- Three buffers allow every copy pair: host↔allocated,
  allocated↔allocated and linear↔array.
- Two values make a wrong-direction copy observable.
- The memory runs use `VIEW MCView`, which leaves out `last` and
  `mlast`. No guard reads them, and `ImplementsAbstract` reads neither,
  so states that differ only in them are equivalent for that run.
- `Width = 8` keeps the passing run free of overflow. The two wrap
  runs set it to 3 and `MaxLen` to 3, which is small enough for a
  3-element request to wrap.

**Fairness.** None is assumed and no liveness is checked. Every
operation is a synchronous call that the caller may or may not make, and
the code schedules nothing itself. `CHECK_DEADLOCK FALSE` is set because
a state where every thread has panicked, or every handle is used, is a
legitimate end.

**Mutants.** Each property of a passing run is broken by a plausible bug:
- `PopKeepsSlot`: pop forgets to clear the slot (breaks
  `LiveSlotIsCurrent`).
- `CopyLinearUnchecked`: the slice copy drops its element-count
  assertion (breaks `ImplementsAbstract`).

## 4. Proofs

`ContextProofs.tla` proves two theorems, for all `Threads` and `Handles`,
from `ConstantsAssumption`:

- **`TypeCorrect`**: `Spec => []TypeOK`.
- **`SlotIsCurrent`**: `Spec => []LiveSlotIsCurrent`.

`LiveSlotIsCurrent` is not inductive on its own. A `Create` could hand
out a handle that some thread's stale slot already names. The
strengthening is:

`IInv == TypeOK /\ SlotsUsed /\ LiveSlotIsCurrent`

`SlotsUsed` says every slot holds `NULL` or a handle the driver has
issued. Since `Create` takes a handle outside `used`, a new context never
matches a stale slot. TLC checked `IInv` as an invariant of the
`context_slot` instance before the proof was written.

The proof has one step per action. `Drop` is the delicate case: a
surviving slot differs from the dropped context, so the dropping thread's
stack is popped only when that thread's slot is stale. Two lemmas,
`StackPush` and `StackPop`, keep stacks as sequences of handles.

The theorem depends on the driver never reusing a handle; handle reuse
is listed as a hazard.

`MemoryProofs.tla` proves two more theorems, from
`ConstantsAssumption` and `MemoryAssumption`:

- **`MemTypeCorrect`**: `MemSpec => []MemTypeOK`. A context step of the
  composition is a step of `Next` (lemma `ContextStepIsNext`), so the
  context typing carries over. Every memory action keeps to `CtxFrame`:
  the context part is unchanged except that the calling thread may abort
  (lemma `MemoryStepFrame`). `MemoryStepBufType` keeps every buffer
  record well-formed.
- **`Refinement`**: under `NoWrap` (`MaxLen * ElemSize < 2^Width`),
  `MemSpec => ImplementsAbstract`. The initial host slices are present,
  written and non-empty. Each buffer update is one abstract step
  (lemmas `AllocRefines`, `WriteRefines`, `CopyRefines`, `FreeRefines`),
  a registration only relabels a buffer (`RelabelStutter`), and a step
  that leaves `buf` alone is a stutter. `NoWrap` is needed for one case.
  `copy_to_host` from Device memory compares byte sizes, not element
  counts. `ByteSizeInjective`, resting on `ByteSizeExact`, shows they
  agree when nothing wraps. The `wrapped_copy_size` run shows the copy
  breaking the abstraction when they wrap.

`NoWrap` is a hypothesis of `Refinement`, not an assumption on the
constants, because the code does not guarantee it.

Properties of the composition that follow from the definitions alone are
not stated. That the memory methods keep the context slot current
follows because `ContextGuard` is modelled, from the spec, as leaving
the driver stacks unchanged. That contexts outlive their memory follows
from the `NotBorrowed` guard. Neither would test the code.

**Left to TLC.** Liveness and `ENABLED` are outside TLAPS's reach, and
no liveness is claimed. The violation runs are TLC's alone.

## 5. Findings

See `PROJECT.json` "findings". Nine disagreements were found:
1. Nested `create` breaks the spec's one-active-context invariant.
2. `Drop` leaves a stale slot that refuses every later `push`.
3. The slice copy never checks the contexts of both sides, so a copy
   between Device memory and page-locked memory of another context
   succeeds.
4. Zero-sized arrays reach the driver.
5. Page-locked allocation sizes wrap.
6. A context dropped on another thread stays current, destroyed, on its
   creator thread.
7. If the driver reuses a pointer value, a stale slot names a live
   context that is not current.
8. The safe `PageLockedMemory::new` hands out uninitialized memory that
   safe code reads.
9. `copy_to_host` compares only wrapped byte sizes, so a copy from a
   Device buffer of a different element count succeeds.

## 6. Not modelled

Not modelled:
- `version` and `buffer_id`, which are pure queries.
- Device enumeration, the FFI macros and logging, which the spec puts
  out of scope.
- The contents of the driver's memory beyond one value per buffer.

- `Dimension` and `as_descriptor`. Their source is not in the tree, and
  the spec does not say whether `len()` counts channels. That is exactly
  what the 3-D copy extent hazard (array.rs:67) turns on, so a model
  would be a guess.
- The default `MemoryMut::copy_from` of `mod.rs`. It belongs to the
  older trait generation, and no kind in the tree reaches it.
- `get_attr`'s type confusion (mod.rs:52) is a typing error, not a state
  change. It is listed as a hazard.
- Dropping contexts during unwinding, and `catch_unwind` after a failed
  `pop`. A panicked thread takes no more steps.
