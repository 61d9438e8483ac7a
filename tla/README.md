# Handle contracts of the Zircon system-call header

This directory verifies
`src/arch/x64/sysroot/include/zircon/syscalls/definitions.h`. That file is
the repository's only source. It is a generated header of 334 `extern`
prototypes: 167 public calls `zx_f` and their private twins `_zx_f`. There
are no function bodies. The header fixes behaviour in three ways:

- **Parameter tags.** `ZX_SYSCALL_PARAM_ATTR(handle_use)` means the call
  borrows the handle. `handle_release_always` means the call consumes it
  whatever the outcome. `handle_release` means the call consumes it only on
  success. `handle_acquire` means the call produces a handle and writes it
  back.
- **C types.** A non-const `zx_handle_t*` listed in `__NONNULL` is a single
  handle that the call writes back.
- **`__NO_RETURN`.** The calling thread does not come back from the call.

This project models what those three say about a process's handles. The
kernel behind the calls is not in the repository, so it is not modelled.

## Inventory

| Component | State | Operations | Modelled by |
|---|---|---|---|
| Syscall handle contracts | none: constant data | 334 declarations | `ZxSyscalls` |
| Public/private pairing | none | `zx_f` and `_zx_f` | `ZxSyscalls!PairSymmetry` |
| Caller's handle table | open handle values (kernel); who holds each value (caller); live threads | any call of any contract, succeeding or failing | `ZxHandles`, abstractly `ZxHoldings` |
| Calls that take time (deadline calls) | the call each thread is in | entry, successful return, failed return (timeout or error) | `ZxCallSplit` (partly: what wakes a blocked call is the kernel's) |
| Untagged handle arrays | none | channel_write/read/read_etc/call, handle_close_many | not modelled: no tag, so no contract |
| Kernel (objects, rights, signals, VM, scheduler) | n/a | n/a | not modelled: not in the repository |

**How the parts interact.** Threads of one process share the kernel's
handle table. `ZxHandles` treats a call as atomic with respect to that
table. `ZxCallSplit` drops that assumption: it lets threads interleave
inside calls, and it proves that this adds no behaviour. Each thread keeps its own handles in its
variables, and the tags tell it how to update them when a call returns:

- it adds the `handle_acquire` outputs on success;
- it drops the `handle_release_always` arguments always;
- it drops the `handle_release` arguments on success.

**The hard behaviours:**

- **Partial failure.** A failed call still consumes its `release_always`
  handles.
- **Handle-value reuse across threads.** A value one thread closes can come
  back from another thread's next acquire.
- **A full table.** A two-handle create needs two free values.
- **`__NO_RETURN` calls.** Anything the call leaves open has no live holder
  afterwards.

**What makes it correct:**

- The caller's tag-driven bookkeeping equals the kernel's table
  (`OwnershipExact`).
- No thread exits with a handle still open (`NoOrphan`).
- Every handle a thread holds is open, even where the tags miss an out
  handle (`HeldOpen`).
- A call changes only the caller's holdings (`HoldingsRefined`).
- Splitting a call into entry and return adds no behaviour
  (`AtomicCallsRefined`).

Two assumptions of the model are not in the header, and each property
rests on them:

- **`ArgChoices`**: a thread passes only handles it holds, or
  `ZX_HANDLE_INVALID`. The header lets any thread pass any handle of the
  process. Handles shared between threads are therefore outside the model.
- **`FreeAfter`**: the kernel writes back only values that are not open.

## Modules

- **`ZxSyscalls`** holds one `Decl(name, use, releaseAlways, release,
  acquire, outs, noReturn)` row per prototype.
  - The rows are grouped into thirteen definitions, each covering one
    contiguous run of header lines. The line range is given in the comment
    above each group and in `PROJECT.json` "map".
  - `Contract(d)` drops the name.
  - `TagsMatchTypes(d)` says the `handle_acquire` tags account for every
    typed out handle.
  - `PairSymmetry` is the structural invariant of the header: every `zx_f`
    has a twin `_zx_f` with the same contract, and no name is declared
    twice. It is an `ASSUME`, so TLC evaluates it on every run.
- **`ZxHandles`** is the core state machine. Its constants:
  - `Threads` and `HandleValues`;
  - `HandleInvalid` (`ZX_HANDLE_INVALID`) and `NoThread`, two model values;
  - `Calls`, a set of contracts.

  Its variables:
  - `valid`: the kernel's open handle values;
  - `owner`: for each value, which thread's variables hold it;
  - `alive`: the threads that have not made a `__NO_RETURN` call.

  It has two actions:
  - `Succeed(t, c)`: all borrowed and consumed arguments are open. The
    kernel closes the consumed ones and writes back `c.outs` values that are
    not open. The caller records the first `c.acquire` of them (the tagged
    ones).
  - `Fail(t, c)`: any call may fail. The kernel closes only the
    `release_always` arguments.

  A thread passes as arguments only handles it holds, or `HandleInvalid`.
  It makes a `__NO_RETURN` call only when everything it holds is consumed
  by that call (`ExitsClean`), which is the program's obligation.

  `Init` is any set of bootstrap handles held by the threads. The helpers
  `UsedOpen`, `KernelClosedAlways`, `ReleasedOpen`, `FreeAfter`,
  `ClientDropsOnFailure`, `ClientDropsOnSuccess` and `Recorded` each
  translate one tag. "map" names the declarations that show that tag.
- **`MCZxHandles`** instantiates `ZxHandles` with contracts read off
  `ZxSyscalls`:
  - `TaggedCalls`: the 163 public calls whose tags match their types;
  - `HeaderCalls`: all 167 public calls.
- **`ZxHoldings`** is the abstract specification. Its state is
  `holdings[t]`, the handles thread `t` holds, and `alive`. It has one
  action, `Call(t)`. Thread `t` keeps some of its holdings and gains
  handles that no other thread holds (`HeldByOthers`), and it may end.
  `ZxHandles` defines `H == INSTANCE ZxHoldings WITH holdings <- [t \in
  Threads |-> Owned(t)]`, and `HoldingsRefined == H!Spec`.
- **`ZxCallSplit`** EXTENDS `ZxHandles` with `pending[t]`. This is the call
  thread `t` is in: its contract, its arguments, and `ok`, whether the
  kernel resolved every argument at entry (`LookedUp`). Its actions:
  - `Enter(t, c)`: the thread is running and in no call (`CanCall`). It
    picks its arguments as in `ZxHandles`. Nothing in the table changes.
  - `ReturnOk(t)`: only a call that resolved at entry can succeed
    (`EntryChecked`). It has the effect of `Succeed`.
  - `ReturnFail(t)`: a timeout or any other error, with the effect of
    `Fail`.

  Between one thread's entry and return, the other threads enter and
  return. `AtomicCallsRefined == Spec` says every split behaviour is a
  behaviour of the atomic `ZxHandles`.
- **`MCZxCallSplit`** instantiates it with every public call.
- **`ZxHandlesProofs`** and **`ZxCallSplitProofs`** hold the TLAPS proofs.

Calls with the same contract act alike on handles, so `Calls` is a set of
16 distinct contracts rather than 167 names.

## Runs

| Run | Config | Expect | Checks | Shows |
|---|---|---|---|---|
| `handles_tagged` | `MCZxHandles.cfg` | pass | `TypeOK`, `OwnershipExact` | Over the consistently tagged calls, bookkeeping and table agree through any interleaving of successes and failures. This covers `release` against `release_always`, and a consumed value written back by the same call. 1280 states. |
| `handles_header` | `MCZxHandles_header.cfg` | pass | `HeldOpen`, `HoldingsRefined` | Over all 167 public calls, untagged out handles included, a held handle is always open and the process implements `ZxHoldings`. The four untagged outs leak handles, but never give a handle two holders. 3680 states. |
| `split_calls` | `MCZxCallSplit.cfg` | pass | `AtomicCallsRefined` | With calls split into entry and return, and one thread calling while the other is blocked, the split process implements the atomic one. 148506 states. |
| `handles_untagged_out` | `MCZxHandles_untagged.cfg` | violation | `OwnershipExact` | A successful `zx_object_get_child`, `zx_interrupt_create`, `zx_pager_create` or `zx_pager_create_vmo` opens a handle that no tag records. |
| `handles_orphan` | `MCZxHandles_orphan.cfg` | violation | `NoOrphan` | A failed `zx_futex_wake_handle_close_thread_exit` ends the thread but leaves its `handle_release` handle open. |

**Bounds.** The runs use three threads and four handle values. That is
enough for:

- two threads holding handles while a third acquires two;
- every contract's arguments: the largest is `zx_system_mexec`, with three
  borrowed handles;
- a consumed value being handed out again in the same step
  (`zx_handle_replace`);
- a table with one free slot against a two-handle create.

`split_calls` uses two threads and three values. The pending records
multiply the states: three threads and three values pass four million
states within five minutes without finishing. Two threads are enough for
the race the run is about: one thread blocked in a call while the other
closes its own handles, acquires two values, and has a value reused.

`CHECK_DEADLOCK FALSE` is there because the process really can end: once
every thread has made a `__NO_RETURN` call, nothing is left to run.

**Fairness.** None is assumed, and no liveness property is stated:

- A thread is never obliged to make a call.
- Nothing in the header says that a call returns. A `zx_time_t deadline`
  parameter does not mean the call blocks until it: `zx_timer_set` has one
  too. `zx_interrupt_wait` blocks with no deadline at all.
- Which calls block, and what wakes them, is the kernel's business.

So weak fairness on `ReturnFail` would be an assumption about the kernel,
not something the code justifies. A "every call returns" property would
then only restate that assumption.

**Mutants.** Each property of a passing run has a mutant that breaks it:

- **Kernel reports success with `ZX_HANDLE_INVALID` in an out parameter**
  (`FreeAfterWithInvalid`): breaks `TypeOK`.
- **Caller treats `handle_release` like `handle_release_always`**
  (`ClientDropsOnFailureAlsoReleased`): breaks `OwnershipExact`.
- **Caller keeps its `handle_release_always` arguments after a failure**
  (`ClientDropsOnFailureNothing`): breaks `HeldOpen`.
- **Kernel writes back an open value** (`FreeAfterNoCheck`): breaks
  `HoldingsRefined` in `handles_header`.
- **A thread calls after `__NO_RETURN`** (`CanCallAfterExit`): breaks
  `AtomicCallsRefined`.

A mutant of a `ZxHandles` helper that both `ZxCallSplit` and the atomic
`Spec` use changes both sides of `AtomicCallsRefined` alike. So that
property's mutant is one of `ZxCallSplit`'s own definitions.

## Findings

1. **Four output handles have no `handle_acquire` tag.**
   `zx_object_get_child` (line 257) and `zx_interrupt_create` (line 1227)
   write back a `zx_handle_t* out` with no tag. `zx_pager_create` (line
   1697) and `zx_pager_create_vmo` (line 1709) carry the tags `pager` and
   `out_pager_vmo`: the generator emitted the parameter name where the tag
   should be. Ownership tracking driven by the tags loses these handles.
2. **`zx_futex_wake_handle_close_thread_exit` (line 1075)** is
   `__NO_RETURN` but tags its handle `handle_release`, which means consumed
   only on success. If the call fails, the handle outlives the thread that
   held it.

## Proofs

`ZxHandlesProofs` and `ZxCallSplitProofs` prove these results for every
value of the constants:

- **`TypeCorrect`**: `Spec => []TypeOK`. The step is the lemma `TypeStep`,
  which has one case per action. In the `Succeed` case, the written-back
  values come from `FreeAfter`, so they are handle values.
- **`BookkeepingExact`**: under the hypothesis `AcquireTagsComplete` (every
  contract in `Calls` has `acquire = outs`), `Spec => []OwnershipExact`.
  - The inductive invariant is `IInv == TypeOK /\ OwnershipExact`.
    `OwnershipExact` alone is not enough, because a step reasons about
    `owner[h]` for every `h`, which needs the type.
  - The proof of a `Succeed` step splits on each handle value `h`:
    - `h` is among the written-back values: its holder is now the calling
      thread, because every out value is tagged.
    - `h` was consumed: its holder is now nobody, and it is closed.
    - `h` was untouched: both views are unchanged.
  - A `Fail` step closes exactly the `release_always` arguments that the
    caller drops.

  The violation run `handles_untagged_out` shows that the hypothesis is
  needed.

The assumptions used are `ConstantsAssumption`:

- `HandleInvalid` is not a handle value;
- `NoThread` is not a thread;
- every call has a well-formed contract with `acquire <= outs`.

- **`HeldHandlesOpen`**: `Spec => []HeldOpen`, with no tag hypothesis.
  `HeldOpen` is inductive together with `TypeOK` (lemma `HeldOpenStep`). A
  held handle stops being open only as an argument the call consumes, and
  the caller drops exactly those.
- **`HoldingsRefinement`**: `Spec => HoldingsRefined`.
  - The initial states map to `ZxHoldings` initial states: `owner` is a
    function, so no handle is held twice.
  - The step lemma `HoldingsStep` maps each call by `t` to `H!Call(t)`,
    with nothing kept and `Owned(t)'` new. It rests on `OthersUnchanged`:
    a call by `t` leaves every other thread's holdings as they were.
    - Under `HeldOpen`, a written-back value was closed or consumed, so it
      was no other thread's.
    - A dropped value was `t`'s.
- **`AtomicCallsRefinement`**: `SplitSpec => AtomicCallsRefined`.
  - `Enter` leaves `ZxHandles`' variables unchanged.
  - The inductive invariant `SplitIInv` is `SplitTypeOK /\ HeldOpen`
    plus `PendingOK(t)` for each thread in a call. `PendingOK(t)` says
    that `t` is alive, that its recorded arguments are still in
    `ArgChoices(t)`, that a `__NO_RETURN` call still consumes all `t`
    holds, and that `ok` implies the arguments are still open. Another
    thread's return preserves it (`OtherReturnKeepsPending`), through
    `OthersUnchanged`.
  - Under `SplitIInv`, `ReturnOk(t)` is `Succeed(t, pending[t].c)` and
    `ReturnFail(t)` is `Fail` (lemmas `ReturnOkIsSucceed` and
    `ReturnFailIsFail`).

  - **`SplitHoldingsRefinement`**: `SplitSpec => HoldingsRefined`. This
    follows from `AtomicCallsRefinement` and `HoldingsRefinement`.
  - **`SplitBookkeepingExact`**: under `AcquireTagsComplete`,
    `SplitSpec => []OwnershipExact`.

  So `TypeCorrect`, `HeldHandlesOpen`, `HoldingsRefinement` and, under the
  tag hypothesis, `BookkeepingExact` hold of the interleaved process too.

What is only model-checked:

- The two violations. `OwnershipExact` over all calls is false, so
  `BookkeepingExact` states it under `AcquireTagsComplete`, the hypothesis
  the four untagged outs break. `NoOrphan` is false because of
  `zx_futex_wake_handle_close_thread_exit`, the one `__NO_RETURN` call
  with a `handle_release` argument. No theorem is stated for it: without
  that call, the property follows from the `ExitsClean` obligation alone.
- `PairSymmetry`, an `ASSUME` over the 334 rows. TLC evaluates it on
  every run. It compares the handle contract of each pair (tag counts,
  typed outs and `__NO_RETURN`), the part of a signature the rows keep.
  It is weaker than the identity of whole signatures: the types of the
  other parameters and the return type are abstracted away.

The step proofs cite the lemma `RecordedAt` for what the caller's
bookkeeping records for a value. There is one case for a written-back
value, one for a dropped value and one for an untouched value.

Liveness, `ENABLED` and facts about recursive definitions are beyond the
prover. None of the modules uses recursion.

## Not modelled

- **Handle arrays** (`zx_handle_close_many`, `zx_channel_write`, `read`,
  `read_etc` and `call`) carry no tag. Whether a failed write consumes its
  handles is fixed by the kernel, not by this header, so any contract
  would be invented.
- **What wakes a blocked call** (signals, futex words, port packets,
  interrupts) and which calls block at all. Hence no liveness.
- **The kernel itself**: objects, rights, signals, VM and the scheduler.
  It is not in the repository.

## Plan for the next sittings

1. **Handles shared between threads.** Let a thread borrow
   (`handle_use`) a handle another thread holds. Then a blocked
   `zx_object_wait_one` can see its handle closed by the holder and the
   value reused. What the kernel does to that wait is not in the header,
   so this needs a stated kernel assumption first.
2. **Three threads in `split_calls`.** This needs a smaller call set, for
   example one contract per tag shape.
