# TLA+ models of rust-atomics-and-locks

The repository contains the example programs of *Rust Atomics and Locks*, in
`src/examples/*.rs`. `spec.md` takes the `Arc<T>`/`Weak<T>` pointer of
`06-03_optimization.rs` as its core. This directory holds TLA+ models of the
concurrent protocols in those programs, and the TLC configurations that check
them. `PROJECT.json` records, in machine-readable form:

- which definition models which source lines (`map`);
- every run, with its expected result;
- a mutant per checked property;
- the findings;
- the hazards of the code.

## 1. Inventory of the system

| Part | Sources | Shared state | Operations | Interactions |
|---|---|---|---|---|
| Optimized Arc/Weak | 06-03 | `data_ref_count`, `alloc_ref_count` (with `usize::MAX` as a lock sentinel), the `ManuallyDrop<T>` payload, the heap block | `Arc::new`, `Arc`/`Weak` `clone`, `Arc`/`Weak` `drop`, `downgrade`, `upgrade`, `get_mut`, `Deref` | Any number of threads own handles. Drops race with upgrades, `get_mut`, and each other. |
| Arc/Weak with `Option<T>` | 06-02 | `data_ref_count` and `alloc_ref_count`; `Arc` holds a `Weak` | The same operations; `clone` and `upgrade` take two steps | The same |
| Basic Arc | 06-01, 06-01-02 | `ref_count` | `new`, `clone`, `drop`, `get_mut` | The same, without weak handles |
| Spin lock | 04-01, 04-02, 04-03, 03-05-01 | `locked: AtomicBool`, the `UnsafeCell` value | `lock` (swap or CAS loop), `unlock` (unsafe), `Guard` drop | Contending threads |
| Futex mutex | 09-01, 09-01-01, 09-01-02, 08-03-01 | `state` 0/1/2, the kernel wait queue | `lock`, `lock_contented` spin, `Guard` drop with `wake_one`, `wait`/`wake_one` | Lockers and sleepers; a lost wake-up is the risk |
| One-shot channels | 05-02 … 05-06 | The `MaybeUninit` slot, `ready`, `in_use`, the 4-state byte, park tokens | `send`, `receive`, `is_ready`, `Drop`, `split` | One sender and one receiver; `Drop` after use |
| Condvar channel | 05-01, 01-08-01, 01-08-02 | `Mutex<VecDeque>`, `Condvar` | `send`, `receive` | Producer and consumer; spurious wake-ups |
| IDs and lazy init | 02-02-03, 02-03-01, 02-03-02, 03-05-02 | `NEXT_ID: AtomicU32`, `KEY: AtomicU64`, `PTR: AtomicPtr` | `fetch_add` with panic or undo, CAS loop, racing initializers | Racing callers |
| Ordering demonstrations | 03-03-01, 03-04, 03-07, 03-08, 07-04-03 | Flags, counters and plain data with Relaxed, Acquire, Release or SeqCst access | Stores, loads, RMWs, `fence`, `spawn`, `join` | Meaningful only under a weak memory model |
| Thread demos, statistics and benchmarks | 01-01, 01-02, 02-01-*, 02-02-02, 07-02-02 | Single atomics read for printing; 02-02-02's three statistics (atomics, or one `Mutex`) | Worker updates, `main`'s polls | Workers and a polling `main` |

## 2. Modules

Every module has one action per atomic instruction of the code. Threads are
model values; each has a program counter `pc[t]` naming the step it takes
next, and locals for values it has loaded. All steps are sequentially
consistent, except in the modules built on `WeakMemory`, which model the
memory orderings of the programs whose point they are (see below).

| Module | Models |
|---|---|
| `ArcSpec` | The contract of a reference-counted pointer with weak handles. Every operation is one atomic step on per-thread handle counts `arcs[t]` and `weaks[t]`, with the payload state, `freed`, the set `mutable` of threads holding `get_mut`'s `&mut T`, and `aborted`. `Abort` is allowed once the handles, plus `InFlight` increments an implementation may have made ahead of them, pass `OverflowLimit`. `DropData` and `Release` are weakly fair: no leak. |
| `OptimizedArc` | `06-03_optimization.rs` (see below). |
| `WeakArc` | `06-02_weak-pointer.rs`: `Arc` holds a `Weak`. `Clone for Arc` is the weak `fetch_add` (`ArcCloneWeak`) then the data `fetch_add` (`ArcCloneData`). `upgrade` is load, CAS, then a weak clone (`UpgradeClone`). `Drop for Arc` is `fetch_sub`, payload set to `None`, then the inner `Weak`'s drop. `get_mut` is one load of `alloc_ref_count`. |
| `BasicArc` | `06-01` and `06-01-02`: one `ref_count`; the thread whose `fetch_sub` saw 1 drops the `Box` (`DropBoxData`: the destructor of `T`, then `Dealloc`). |
| `MutexSpec` | The contract of a lock: `owner` (or `NoOwner`) and the set `waiting` of threads inside `lock()`. `Request`, `Acquire`, `TryAcquire` (a try-lock that takes a free lock or gives up) and `Release`. `Acquire` is weakly fair: deadlock freedom, with no fairness among waiters. |
| `SpinLock` | The four spin-lock programs, one `variant` per file. 04-03's `lock` (one action per `swap`) and `Guard::drop`, with its `main`: scoped threads push values into the `Vec` under one guard each, the scope joins them, then `main` locks and asserts. 04-01's `compare_exchange_weak` loop (`LockCasWeak`, a spurious failure is a stutter). 04-02's `main`, which locks, pushes, `unlock`s and locks again (`Relock`). 03-05-01's try-lock: `compare_exchange(false, true)` and, on success, a push and a Release store. `Vec::push` is two steps, a read and a write of the length, so a race would lose a push. |
| `FutexMutex` | The three futex mutexes. A variable `variant`, fixed in `Init`, says which file runs. `Swap1`/`Wait` is 09-01's loop; `Cas`, `Swap2`/`Wait` is 09-01-01; `Cas`, `Spin`, `Cas2`, `Swap2`/`Wait` is 09-01-02. `Unlock` is `swap(0)`, then `WakeOne` (always in 09-01, only from 2 later). `wait(&state, v)` is the futex call of `08-03-01_futex.rs`: it checks `state == v` and sleeps in one step (`queue`). `SpuriousWake` lets a sleeper return without a wake-up. |
| `OneshotChannel` | The one-shot channels of 05-02 to 05-06 and their mains, one `variant` per file. The slot is a counter of moves out of and drops of each message (`consumed`), so a double drop or a read of an uninitialized slot is visible. 05-03's `&self` channel is also driven by an extra sender and receiver, which its runtime checks are there for. |
| `OneshotSpec` | The contract of a one-shot channel: `box` (the message in it), `sent`, `got` (the receivers served) and `closed`. `Send` accepts only the first message, `Receive` and `Close` (the drop) take the message out; `Deliver`, a receive or drop of a message in the box, is weakly fair. `OneshotChannel` maps `box` to the slot's message while it has not been consumed and `closed` to `main`'s return. |
| `FutexWake` | `08-03-01_futex.rs`'s `main`: the spawned thread's `Store` of 1 and `WakeOne`; `main`'s `Load` of `a`, `Wait` (FUTEX_WAIT: compare with 0 and sleep in one step), `SpuriousWake`, and `JoinScope`. One location, so its steps are sequentially consistent. |
| `QueueChannel` | 05-01's `Channel` over `Mutex<VecDeque>` and `Condvar`, and the two queue demos of 01-08: the Condvar loop (01-08-02) and pop-or-`park` with `unpark` (01-08-01). Each critical section is one step; `waiters` is the Condvar's wait set; `token` is the park token. `wait` and `park` may return spuriously. |
| `IdAllocator` | The allocators of 02-02-03 (`fetch_add` with wrap-around, and `fetch_add` with a `fetch_sub` undo and panic past the limit) and 02-03-01 (load, `assert!`, `compare_exchange_weak` loop). Several callers; `NEXT_ID` is a `Width`-bit word, so its arithmetic wraps; `issued[v]` counts how often `v` was returned. |
| `LazyInit` | 02-03-02's `get_key` and 03-05-02's `get_data`: load, generate (a fresh `Box` for `get_data`), `compare_exchange` from 0/null; the loser returns the winner's value, and `get_data`'s loser drops its own box. `allocated` and `freed` track the boxes. |
| `SeqCstFlags` | 03-07: threads `a` and `b` store their flag and load the other's, all `SeqCst`, and push to `static mut S` if it was false. `S.push` is a read and a write of the length, so overlapping pushes would show. |
| `WeakMemory` | Not code of the repository: the part of the Rust/C++20 memory model the ordering examples rely on, as a view machine. `mem[l]` is the sequence of messages written to location `l` (its modification order); `view[p][l]` the oldest message of `l` thread `p` may still read. A `LoadAt` may return any message at or after the view and raises it (coherence); a Release `Store`/`RMW` attaches the writer's view to its message and an Acquire read joins it; a Relaxed read keeps it in `kept[p]` for a later `FenceAcquire`; an `RMW` reads the last message and carries its view on (release sequences); `SpawnView`/`JoinView`/`JoinAllViews` hand views across `spawn` and `join`. A write always takes the next position of its location's order, which is exact for locations written only by RMWs or by one thread; load buffering is not modelled. |
| `FenceReady` | 03-08: thread `i` writes `DATA[i] = i*i` (a plain store) and `READY[i].store(true, Release)`; `main` loads every `READY[i]` Relaxed (`LoadReady`), issues one `fence(Acquire)` if any was true (`Fence`) and reads `DATA[i]` for each ready `i` (`ReadData`). |
| `FencedSpinCounter` | 07-04-03, both loops (`variant`): `Lock` is the `swap(true)` loop (the failed swaps, true over true, are left out: a thread waits until `locked`'s last value is false), `LoadCounter`/`StoreCounter` the non-atomic increment, `Unlock` the `store(false)`; `compiler_fence` orders nothing between threads. `JoinScope` ends `thread::scope`, `IntoInner` reads the counter. |
| `SpawnJoin` | 03-03-01: `main` stores `X = 1`, spawns `f`, stores 2, joins, stores 3; `f` loads `X` and asserts it is 1 or 2. |
| `RelaxedLoads` | 03-04 and 03-04 2 (`variant`): the `fetch_add`s of 5 and 10 (one thread, or two) and `b`'s four Relaxed loads, recorded in `out`. |
| `Statistics` | 02-02-02, both functions (`variant`): `inaccurate` has the three Relaxed RMWs of a worker (`AddNum`, `AddTotal`, `AddMax`) and `main`'s three loads (`LoadTotal`, `LoadMax`, `LoadNum`); `accurate` has one `Mutex` section each (`UpdateLocked`, `ReadLocked`). `BreakOrPrint` is the `n == 100` test and the print. The atomics are sequentially consistent here; `log` (the times in the order they were counted) and `shown` (the snapshot just printed) are history variables. |
| `ArcOrdering` | `06-03_optimization.rs` on `WeakMemory`, with each atomic's `Ordering`: `ArcClone`, `Downgrade`, `Upgrade` (the CAS that succeeds, or the load of 0), `Deref` (a read of `T`), `ArcDrop` (Release `fetch_sub`), `WeakDrop`, the three `fence(Acquire)`s (`ArcDropFence`, `WeakDropFence`, `GetMutFence`), `ArcDropData`, `Free`, and `get_mut` as `GetMutLock` (Acquire CAS to `usize::MAX`), `GetMutLoad` (Relaxed load), `GetMutStore` (Release store of 1) and `GetMutWrite` (the `&mut T`). Failed `compare_exchange_weak` retries and `downgrade`'s spin on the sentinel are left out. Every access to `T` and the free check that they happen after every other thread's accesses; `races` collects the offenders. |
| `OneshotOrdering` | 05-02 to 05-06 (`variant`) on `WeakMemory`: 05-03's `in_use` swap and state `compare_exchange`, the slot write, the Release store of `ready`/`READY`, `is_ready` (Acquire in 05-02, Relaxed elsewhere), `receive`'s Acquire swap, `compare_exchange` or 05-06 swap loop, the slot read, the joins, and `Drop for Channel`. `park`/`unpark` are left out. |
| `BackgroundWorker` | 02-01-01's stop flag (`ReadStop` is the user typing `stop` or closing stdin), 02-01-02's progress report, and 02-01-02-01's report with `unpark` and `park_timeout`. |

Several modules hold several files in one module, with a variable
`variant` that `Init` chooses and no action changes. A single run then
checks every file.

MC modules declare the model values and define the sets the cfgs use:
`MCOptimizedArc`, `MCWeakArc`, `MCBasicArc`, `MCSpinLock`, `MCFutexMutex`
and `MCOneshotChannel`.

`MCAtomicPrograms` is a sum of thirteen small components: `IdAllocator`,
`LazyInit`, `SeqCstFlags`, `BackgroundWorker`, `QueueChannel`,
`FenceReady`, `FencedSpinCounter`, `SpawnJoin`, `RelaxedLoads`,
`Statistics`, `ArcOrdering`, `OneshotOrdering` and `FutexWake`.
- A variable `prog` picks one component in `Init`.
- Each component is an `INSTANCE ... WITH` renamed variables.
- The components not picked stay in one initial state, so their state
  spaces add up instead of multiplying.
- Fairness is each component's own, for the component picked.

### How `OptimizedArc` corresponds to the code

| Variable | Code |
|---|---|
| `data_ref_count`, `alloc_ref_count` | The two `AtomicUsize` fields, in usize arithmetic modulo `UsizeMax+1` |
| `data` | The `ManuallyDrop<T>` payload: `"live"` or `"dropped"` |
| `freed` | `Box::from_raw` has deallocated the block |
| `arcs[t]`, `weaks[t]` | The handles thread `t` owns |
| `pc[t]`, `n[t]` | Position inside a multi-step operation, and the loaded value |
| `aborted` | `std::process::abort()` has stopped the program |
| `num_drops`, `num_frees` | History counters, so "exactly once" can be stated |

- `ArcClone`, `WeakClone`: `fetch_add`, then abort above `UsizeMax \div 2`.
- `ArcDrop`, `ArcDropData`, `ArcDropWeak`: the three steps of `Drop for Arc`.
- `WeakDrop`, `ReleaseAlloc`, `Free`: `Drop for Weak`.
- `DowngradeLoad`, `DowngradeSpin`, `DowngradePanic`, `DowngradeCas`: the load, the sentinel spin, the assert, and the CAS.
- `UpgradeLoad`, `UpgradeFail`, `UpgradeCas`: the same for `upgrade`.
- `GetMutLock`, `GetMutLoad`, `GetMutUnlock`, `GetMutRelease`: the CAS `1 → usize::MAX`, the strong load, the store of 1, the end of the borrow.
- `SendArc`, `SendWeak`: moving a handle into another thread, as the test's `thread::spawn` does.

A failed `assert!` panics the calling thread, which returns no handle.


## 3. Runs

| Run | cfg | Threads | Bounds | Properties | Expect |
|---|---|---|---|---|---|
| arc_safety | `MCOptimizedArc.cfg` | 3 | `UsizeMax=7`, `MaxHandles=4` | `TypeOK`, `CountsMatch`, `ReleasedOnce`, `ImplementsArcSpec` | pass |
| weak_arc_safety | `MCWeakArc.cfg` | 3 | `UsizeMax=7`, `MaxHandles=4` | as arc_safety | pass |
| basic_arc | `MCBasicArc.cfg` | 3 | `UsizeMax=15`, `MaxHandles=9` | `TypeOK`, `DroppedOnceAfterLastArc`, `ImplementsArcSpec` | pass |
| arc_usize_boundary | `MCOptimizedArcBoundary.cfg` | 2 | `UsizeMax=3`, `MaxHandles=5` | `CountsMatch`, `ImplementsArcSpec` | pass |
| weak_arc_usize_boundary | `MCWeakArcBoundary.cfg` | 2 | `UsizeMax=3`, `MaxHandles=5` | `CountsMatch` | pass |
| arc_downgrade_starves | `MCOptimizedArcStarve.cfg` | 2 | `UsizeMax=7`, `MaxHandles=3` | `DowngradeReturns` | violation |
| arc_downgrade_abort_policy | `MCOptimizedArcDowngradeLimit.cfg` | 2 | `UsizeMax=7`, `MaxHandles=6` | `AllocWithinAbortBound` | violation |
| spin_lock | `MCSpinLock.cfg` | 3 workers + main | 04-01, 04-02, 04-03, 03-05-01; pushes `<<1>>`, `<<2,3>>`, `<<4,5>>` | `TypeOK`, `MainAssertHolds`, `Terminates`, `ImplementsMutexSpec` | pass |
| futex_mutex | `MCFutexMutex.cfg` | 3 | all three variants, `Rounds=2`, `SpinLimit=2` | `TypeOK`, `AllDone`, `ImplementsMutexSpec` | pass |
| oneshot_channel | `MCOneshotChannel.cfg` | main, sender, and for 05-03 an extra sender and receiver | 05-03 (both), 05-04, 05-05, 05-06 | `TypeOK`, `NoDataRace`, `SlotConsumedAtMostOnce`, `ImplementsOneshotSpec`, `ReceiverReturns` | pass |
| oneshot_unsafe_double_drop | `MCOneshotChannelUnsafe.cfg` | main, sender | 05-02 | `SlotConsumedAtMostOnce` | violation |
| atomic_programs | `MCAtomicPrograms.cfg` | 3 callers / 3 threads / a, b / main, worker / producer, consumer, main / 3 threads + main (03-08) / 2 threads + main (07-04-03) / main, f / a (a1, a2), b / 3 workers + main / t1, t2 (06-03) / sender, receiver, main / main, worker (08-03-01) | `Calls=3`, `Limit=5`, `Width=3`; `Items=3`; `Messages=5`; `N=3`; `Iters=2`; statistics: one item each, `Times={1,2}`; 06-03: one handle each, `Ops=1`, `Reads=1`, `MaxHandles=3`; channels: every variant | `TypeOK`, `UniqueIds`, `AllAgree`, `BoxesAccounted`, `AtMostOnePush`, `Terminates`, `AllReceived`, `FenceDataVisible`, `CounterExact`, `SpawnAssertHolds`, `PrintsPossibleOutput`, `SnapshotConsistent`, `ArcNoDataRace`, `SlotAccessOrdered` | pass |

What the properties say:

- **`CountsMatch`.** The counters equal the handles they count, corrected
  for the multi-step operations in flight (06-02's two-step clone, upgrade
  and drop).
- **`ReleasedOnce`, `DroppedOnceAfterLastArc`.**
  The payload is dropped once, after the last `Arc`. The block is freed once,
  after the last handle, with no thread still inside an operation on it.
- **`ImplementsArcSpec`.** The implementation refines `ArcSpec` under a
  refinement mapping, liveness included: the payload is eventually dropped
  and the block eventually freed. `ArcSpec`'s `GetMut` needs the one and
  only handle and no one else can create one while it is held, so this
  also says that `get_mut`'s `&mut T` is exclusive.
- **`MainAssertHolds`.** `04-03`'s asserts never fail: no push is lost, and
  `main` reads only after the join.
- **`Terminates`, `AllDone`.** Every thread finishes. For the futex
  mutexes this is the no-lost-wake-up property: a sleeper that no
  `wake_one` reaches never finishes.
- **`ImplementsMutexSpec`.** The lock refines `MutexSpec`; 03-05-01's
  `compare_exchange` try-lock is `TryAcquire`. `MutexSpec`'s `Acquire`
  needs a free lock, so this also says that at most one thread holds the
  lock at a time.
- **`NoDataRace`, `SlotConsumedAtMostOnce`, `ImplementsOneshotSpec`,
  `ReceiverReturns`.**
  - No thread writes the slot while another accesses it.
  - No message is moved out or dropped twice, and an uninitialized slot is
    never read.
  - The channel refines `OneshotSpec`: it accepts one message (a second
    send panics before it writes the slot, so none is overwritten and
    leaked), `receive` returns only a message still in the channel, the
    drop takes out a message left in it, and a written message is
    eventually received or dropped.
  - `main`'s wait loop ends.
- **`AllReceived`.** Every message is received once, in order, and the
  consumer never stays blocked: a lost `notify_one` or `unpark` breaks it.
- **`UniqueIds`.** The decrement and CAS allocators never return an id
  twice, nor one at or above the limit.
- **`AllAgree`, `BoxesAccounted`.** Every racing initializer returns the
  value published first. No published box is freed, no thread keeps a
  reference to a freed box, and at the end only the published box is left.
- **`AtMostOnePush`.** At most one of 03-07's threads pushes to `S`, so the
  two pushes never overlap.
- **`Terminates` (atomic_programs).** The progress reports end: `main`
  leaves its loop once it loads `num_done == 100`, so the worker's last
  store must be 100 (the unpark token or `park_timeout`'s timeout only
  decides how soon `main` polls again, so this is not a check of the
  token); the stop-flag program ends
  once `STOP` is stored; the statistics loops see `n == 100`; 07-04-03's
  threads all leave the spin and `main` prints; 06-03's block is freed;
  08-03-01's `main` leaves its futex wait loop whether `wake_one` comes
  before or after its load of `a`, because FUTEX_WAIT compares `a` with 0
  before sleeping (a `Wait` that sleeps without comparing breaks it).
- **`FenceDataVisible`.** Every `DATA[i]` 03-08's `main` prints is `i*i`:
  the Release stores, the Relaxed loads and the one `fence(Acquire)` after
  them order the write before the read, so the read neither races nor
  sees the initial 0. Leaving out the fence breaks it.
- **`CounterExact`.** With the Acquire swap and the Release store,
  07-04-03's counter ends at threads × iterations. (The Relaxed loop may
  end lower; the model shows it, and the program prints it on purpose.)
- **`SpawnAssertHolds`.** 03-03-01's `f` never fails its assert: the spawn
  orders `X = 1` before its load and the join orders the load before
  `X = 3`.
- **`PrintsPossibleOutput`.** 03-04's `b` prints a run of an order in
  which the adds can take `X`, stated as a list independent of the memory
  model: `0, 5, 15` for 03-04 (thread `a` adds 5 before 10), and also
  `0, 10, 15` for 03-04-2, where `a1` and `a2` race. So 03-04 never prints
  10, and 03-04-2 never prints both 5 and 10. It needs `a`'s adds in
  program order, each add atomic, and `b`'s loads never going back in
  `X`'s order; adds that run in either order break it.
- **`SnapshotConsistent`.** With 02-02-02's `Mutex`, every snapshot `main`
  prints (count, total, peak) is exactly that of the first `n` items
  counted.
- **`ArcNoDataRace`.** In 06-03 every read of `T`, its drop, `get_mut`'s
  write and the free of the block happen after every conflicting access of
  the other threads. It rests on the Release `fetch_sub`s with their Acquire
  fences, and on `get_mut`'s Acquire `compare_exchange`, which is what lets
  its Relaxed load of `data_ref_count` see an `upgrade` made before a
  `Weak`'s drop. A Relaxed CAS breaks it.
- **`SlotAccessOrdered`.** In every one-shot channel the receiver's read of
  the slot, and the drop of the channel, happen after the sender's write:
  the Release store pairs with 05-02's Acquire `is_ready` or with the
  later files' Acquire `receive`; their Relaxed `is_ready` orders nothing.
  A Relaxed `is_ready` in 05-02 breaks it.

**Bounds.**

- **Handle limit.** `MaxHandles` caps the live handles. Four handles over
  three threads allow every pairing: two `Arc`s with a `Weak`, a `Weak`
  racing the last drop, and `get_mut` with another thread's handle.
- **usize boundary.** A 2-bit usize reaches every abort, assert and wrap
  branch.
- **Futex run.** Three threads with two rounds each let a woken thread lose
  to a newcomer while a third sleeps: the case where 09-01-01 could forget a
  sleeper. `SpinLimit=2` reaches both exits of the spin loop.
- **Spin lock run.** A third scoped thread is added so that two threads
  contend while a third waits.
- **IdAllocator.** With three callers, a duplicate id in the decrement
  version needs `Limit + Callers - 1 >= 2^Width`. `Limit=5` with `Width=3`
  is the largest limit that holds; `Limit=6` is violated. So the run sits at
  the edge, where `NEXT_ID` reaches `2^Width - 1`.
- **Queue.** Five messages, as in 05-01.
- **Progress reports.** Three items, in place of 100.
- **Memory-ordering programs.** Three threads in 03-08 let `main` see some
  threads ready and not others. Two threads of two rounds in 07-04-03 let
  a critical section follow another thread's and the same thread's.
- **Statistics.** Three items with times 1 or 2 give a peak that a later,
  shorter item must not lower, and a printed snapshot between two updates.
- **06-03 orderings.** Two threads, each with one handle (of either kind,
  at least one `Arc`) and one operation, reach `get_mut` against an
  `upgrade`, a drop against a read, and the last two drops; larger bounds
  pushed the composite past five minutes.

**Fairness.** Every module assumes `WF_vars(Thread(t))` for each thread.

- **Why it holds.** A runnable thread is eventually scheduled.
- **What is excluded.** A thread blocked in `wait`, `park` or a futex is not
  runnable, and is not part of `Thread(t)`. Spurious wake-ups get no
  fairness, because nothing makes them happen.
- **Exceptions.**
  - `park_timeout`'s timeout is part of `main`'s fair steps, because one
    second always passes.
  - The user typing `stop` in 02-01-01 is not fair, so only
    `stop ~> done` is claimed there.
- **Deadlock checking.** It is disabled where every program stops: Arc once
  every handle is gone, the locks and channels once all threads are done,
  and the small programs once they return. Termination is checked as a
  liveness property instead.

**Mutants.** `PROJECT.json` lists one for every property of every passing
run. Examples:

- dropping `get_mut`'s sentinel;
- an `upgrade` CAS that also succeeds from 0;
- a lock that ignores the swapped-out value;
- a drop that wakes on 1 instead of 2;
- a producer that never notifies;
- an `unpark` that leaves no token;
- a `compare_exchange` turned into a store;
- a loser that drops the winner's box;
- a SeqCst store left in a store buffer;
- a loop over `0..=Items`;
- `get_mut`'s `compare_exchange` with Relaxed, and 05-02's `is_ready` with Relaxed;
- 03-08 without its fence, 07-04-03's lock taken with a Relaxed swap, a
  spawn that passes no view, 03-04's adds in either order, and a peak
  overwritten instead of maxed.

## 4. Findings

**The downgrade spin is unbounded (run arc_downgrade_starves).** Spec §5
calls the spin of `Arc::downgrade` on the `get_mut` sentinel a *bounded*
busy-wait. The code (`06-03_optimization.rs:106-110`) has no bound. In the
run, thread `t2` calls `get_mut` in a loop. Every time `t1` loads the
count it sees `usize::MAX`, or it reads 1 and its `compare_exchange_weak`
then fails because `get_mut` has set the sentinel in between. That cycle
is fair, so `downgrade` never
returns. Spec §9 raises this as an open question.

**`downgrade` does not abort like `clone` (run arc_downgrade_abort_policy).**
Spec §4.2 says `downgrade` increments `alloc_ref_count` with the same
overflow-abort policy as `clone`, which aborts above `usize::MAX / 2`. The
code (`06-03_optimization.rs:111`) only asserts `n < usize::MAX - 1`. With a
3-bit usize, downgrades and `Weak` clones reach `alloc_ref_count = 5` with
no abort; `clone` would have aborted at 4. The counter still never reaches
the sentinel, so the safety properties hold (`CountsMatch` in
arc_usize_boundary).

**05-02 drops the message twice (run oneshot_unsafe_double_drop).**
- `receive` moves the message out with `assume_init_read` and leaves
  `ready` true.
- `Drop for Channel` then sees `ready` and calls `assume_init_drop` on the
  moved-out slot (`05-02_unsafe-oneshot-channel.rs:88`).
- `main` follows `receive`'s safety comment (one call after `is_ready`).
- The double drop is harmless only for `main`'s `i32`.
- 05-03 and later swap `ready` to false in `receive`.

## 5. Not modelled

**Memory orderings of the locks and of 06-01/06-02.** Those modules are
sequentially consistent, so their orderings are not checked. 06-03's and
the one-shot channels' orderings are (`ArcOrdering`, `OneshotOrdering`),
as are the ordering examples (03-03-01, 03-04, 03-08, 07-04-03), on
`WeakMemory`. There, failed CAS retries are elided and `park`/`unpark`
adds no ordering, which can only hide orderings, never races. `WeakMemory` gives every
write the next position of its location's modification order and does not
model load buffering; the first is exact for every location of these
examples except 07-04-03's counter, the second matters to none of their
properties. 02-02-02's Relaxed atomics are modelled sequentially
consistent: weaker orders only make the inaccurate snapshots staler, and
no property is about them.

**Demonstration programs.** These have no protocol to check:

- 01-01 and 01-02 spawn and join threads that print;
- 07-02-02 measures time.

**Sequential mains.** The `main`s of 09-01* are single lock/unlock
sequences. Their lock code is modelled in `FutexMutex`, under three
contending threads. 08-03-01's `main` is modelled (`FutexWake`). The
`Deref`/`DerefMut` of `MutexGuard` only hand out the reference and change
no state.
