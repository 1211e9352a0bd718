# TLA+ models of lk-mt6785

This directory holds TLA+ modules, TLC configurations and TLAPS proofs about
lk-mt6785, the Little Kernel bootloader for the MediaTek MT6785 (project
`k85v1_64`): the kernel every other part stands on (`kernel/`), and above it the
download engine, fastboot's command loop, the metadata of the A/B slots, the
heap and the reservation of DRAM. All paths below are relative to the repository
root.

    tlc -workers 2 -config Thread_safety.cfg MCThread    # model checking
    tlapm ThreadProofs.tla                               # proofs

## The system

| Part | State | Operations | Works with |
|---|---|---|---|
| Scheduler (`kernel/thread.c`) | `thread_t` of every thread, `run_queue[32]` and `run_queue_bitmap`, `current_thread`, `idle_thread`, `critical_section_count` | create, resume, yield, preempt, block, sleep, set_priority, become_idle, `thread_resched` | everything; entered from calls of threads and from the end of every interrupt |
| Wait queues (same file) | list and count of each queue, `blocking_wait_queue` and `wait_queue_block_ret` of each thread | block (with a timer on the caller's stack), wake_one, wake_all, destroy, the timeout handler | scheduler, timers |
| Interrupt entry (`arch/arm/exceptions.S`, `platform/mt6785/interrupts.c`, `timer.c`) | the CPU's mask bit, the count | `arm_irq`, `platform_irq`, `lk_scheduler` | timer tick, device handlers, `thread_preempt` |
| Timers (`kernel/timer.c`) | `timer_queue`, sorted by a comparison that wraps; the fields of each `timer_t` | set once, set periodically, cancel, the tick and its callbacks | scheduler, wait queues, drivers |
| Mutexes (`kernel/mutex.c`) | magic, count, holder, wait queue | acquire, acquire_timeout, release, destroy | wait queues; `g_part_lock` of the block devices |
| Events (`kernel/event.c`) | magic, signalled, flags, wait queue | wait, signal (also from interrupts), unsignal, destroy | wait queues; storage and USB drivers, fastboot, download engine, I/O thread |
| Deferred calls (`kernel/dpc.c`) | `dpc_list`, `dpc_event`, the dpc thread | queue, the thread's loop | `thread_exit` queues the cleanup of its own stack |
| Start-up (`kernel/main.c`) | none of its own | `kmain`: dpc thread, bootstrap2, I/O thread, then the idle thread | all of the above |
| I/O thread (`app/mt_boot/iothread.c`, `decompressor.c`) | two events | handshake with bootstrap2 around loading of firmware images | events |
| Fastboot (`app/mt_boot/fastboot.c`) | `fastboot_state`, one request, `txn_done`, `usb_online` | command loop, USB transfers with and without a timeout, acknowledgements | events, USB interrupts |
| Download engine (`app/mt_boot/mtransfer/`) | two caches with two events each, two end events, two status words, what a package leaves over | USB reader thread, storage writer thread, stop and destroy | events, `thread_exit`, the sparse parser |
| Sparse parser (`mtransfer/sparse_state_machine.c`) | phase, current chunk, a header cut by the end of a package | one call per package | storage, the download engine |
| Slot metadata (`platform/common/bootctrl/`) | A/B metadata in `misc`, a cached copy, the boot region | set_active_slot, retry counters | storage |
| Heap (`lib/heap/heap.c`) | the free list, the headers of blocks in use | alloc with alignment, free, realloc | everything; `thread_exit` through `dpc_queue` |
| Memory blocks (`lib/mblock/mblock_v2.c`) | the table of free blocks and the table of reserved records that the preloader hands over | reserve, resize, create (give back), the final sanity check | drivers, device tree |
| Block cache, ring buffer (`lib/bcache`, `lib/cbuf`) | lists, indices | nothing in the tree calls them | |
| Storage, USB, display, power, charger, modem drivers; verified boot; libfdt, zlib | registers, vendored state | | |

What makes the kernel hard is that a *call is not a unit*: it runs inside
counted critical sections, gives up the CPU in the middle of itself and comes
back in a context made by other threads and interrupts. What must be true for
each part to be correct:

- scheduler: each READY thread is in the run queue exactly once, the bitmap is
  exact, the highest priority runs, no ready thread of the top priority
  starves, each count of critical sections is what the code will still leave;
- wait queues: each BLOCKED thread is in its queue exactly once, a pending
  timer belongs to a call that has not returned, a wake-up settles the result
  of a wait, a wait with a timeout ends;
- mutexes: one holder, first come first served, the count is the number of
  threads with a stake, nobody waits on a free mutex;
- events: no wake-up is lost, every signal accepted by an auto-unsignal event
  is consumed exactly once;
- deferred calls: an ended thread is freed once, in the end, and not while the
  CPU still uses its stack;
- timers: the queue is in order across wraps of the clock, nothing fires early
  or twice in a tick, a tick leaves nothing behind that was due;
- download: reader and writer never share a cache, every package ends where it
  belongs, the verdict is the truth, every download ends, and the context is
  gone only after its last use;
- sparse images: what is on the eMMC does not depend on where packages cut;
- fastboot: a completion counts for its own transaction only, one answer per
  command, a transaction that was cut short fails;
- slots: after any loss of power a later `set_active_slot` makes LK, libavb and
  the boot region agree;
- heap and memory blocks: every word, every page is in exactly one place.

`PROJECT.json` lists all components with what is and is not modelled, and the
hazards of the code at their lines.

## Modules

| Module | Models | Checked in, proved in |
|---|---|---|
| `Thread` | scheduler, wait queues, interrupt entry, kernel start-up | `MCThread`; `ThreadProofs` |
| `Mutex` (extends `Thread`) | `kernel/mutex.c` | `MCMutex`; `MutexProofs` |
| `FifoLock` | abstract: a lock that goes to whoever waited longest | implemented by `Mutex` (`FifoSpec`): `MutexProofs` |
| `Event` (extends `Thread`) | `kernel/event.c` and the device handlers that signal | `MCEvent`; `EventProofs` |
| `AutoEvent` | abstract: a binary semaphore with a queue | implemented by `Event` (`ImplementsAutoEvent`): `EventProofs`; used by `Transfer` |
| `Dpc` (extends `Event`) | `kernel/dpc.c` and `thread_exit` | `MCDpc`; `DpcProofs` |
| `Transfer` (over `AutoEvent`) | `download_data`, its reader and its writer thread | `Transfer`; `TransferProofs` |
| `ImageWriter` | abstract: storage filled from front to back | implemented by `Unsparse` (`LaysInOrder`): `UnsparseProofs` |
| `Unsparse` | the sparse parser, and what `write_data` carries from package to package | `MCParts`; `UnsparseProofs` |
| `Timer` | `kernel/timer.c` | `MCParts`; `SortedListProofs` |
| `Fastboot` | command loop, USB transactions, the driver's suspend, reset and completion | `MCParts`, `Fastboot`; `BootProofs` |
| `BootControl` | slot metadata, boot region and the A/B flow, across reboots | `MCParts`; `BootProofs` |
| `Heap` | `lib/heap/heap.c` | `MCParts`; `SortedListProofs` |
| `Mblock` | reserve, resize, create of `lib/mblock/mblock_v2.c` | `MCParts`, `Mblock`; `SortedListProofs` |

`Mutex` and `Event` replace the free use of wait queues in `ThreadNext` by their
own calls and share `KernelNext`, the steps every system has. `Dpc` leaves only
`dpc_event` and the calls of `dpc_thread_routine` in place of the events' users.

The download engine is built the way the code is: `Event` is shown to implement
`AutoEvent` with the whole scheduler below it, and `Transfer` uses `AutoEvent`
for its six events, so it need not carry a run queue along. `Transfer` takes a
package for one unit with or without a rest; `Unsparse` looks inside and shows
that a rest is less than a block and ends in its place.

`MCParts` holds six components that share no state. A behaviour is one of one
component, the others keep an initial state: their state spaces add up
instead of multiplying.

The invariants `ThreadInv`, `EventInv`, `MutexInv`, `DpcInv`, `TransferInv`,
`TimersInv`, `BootControlInv`, `HeapInv`, `UnsparseInv`, `FastbootInv` and
`MblockInv` are conjunctions of named parts, each with its comment, of which the
module's type invariant is the first. `ThreadInv` is inductive; the proofs about
the others strengthen them to one that is (`MutexIInv`, `EventIInv`, ...), which
stands at the head of the module with the proofs.

### How the model corresponds to the code

- **One CPU, and atomic stretches.** With interrupts masked nothing intervenes
  until `thread_resched` switches stacks. So an operation that switches is two
  actions: the call up to the switch (`ThreadSleep`, `wait_queue_block`, ...)
  and the code after it (`ThreadReturn`, `wait_queue_block_return`), which is
  taken when the thread is dispatched again. `pc[t]` names that code, and
  `Exits(pc[t])` is the number of critical sections it leaves. The loop of
  `wait_queue_wake_all` is a begin, one step per thread and an end; nothing
  interleaves with it, since interrupts are masked and there is no switch.
- **`thread_resched(st, rq, rem, count)`** takes the values its caller has
  already assigned: states, run queue, quanta and the count of critical
  sections. It keeps the code's early return when the thread picked is the
  current one, before the quantum is refilled and without touching the saved
  count.
- **Critical sections** are the real counter: `enter` masks interrupts only
  when the count becomes 1 and `exit` unmasks only at 0. `arm_irq` changes the
  count without touching the mask and restores the mask on return.
- **Interrupts.** `IrqEnter("irq")` is the tick, `IrqEnter("device")` any other
  interrupt. Between entry and `IrqExit`, timers expire (`SleepTimer`,
  `WaitTimer`) or a device handler signals. `IrqExit` always preempts:
  `platform_irq` returns `INT_RESCHEDULE` whatever its handlers say.
- **Leaked sections.** A late timer leaves the interrupted thread with a critical
  section it never leaves (finding 1). If that thread calls the kernel with
  interrupts enabled, `enter_critical_section` finds a count above 0 and masks
  nothing: interrupts could come inside the call, and a call is no longer one
  step. `LeakersCall = FALSE` ends a behaviour there: `CallIsMasked`, a guard of
  every call, keeps that thread in its own code, where the tick, timers and
  devices still reach it. `CallsAreMasked` (in `KernelInv`) shows that up to then
  interrupts are enabled in the threads' own code only, so nothing is lost by
  taking them there. `Thread_leak` has `LeakersCall = TRUE`: those calls are made,
  without the interrupts inside, which is enough to show an error.
- **Timers** are abstract here: `timer[t]` says whether the timer on `t`'s stack
  is pending and what for; a pending one may expire in any tick.
- **Lists** of `include/list.h` are sequences. A thread has one intrusive node;
  that it is never in two lists is `RunQueueExact` and `WaitQueueExact`
  together, because a state puts it in one of them only.
- A mutex or an event is named by its wait queue. `held`, `waiting`, `credit`
  are history variables: what callers were told.
- `panic` in `mutex_acquire` and `mutex_release` is a guard; the assertions
  under `THREAD_CHECKS` and the like are compiled out and are not assumed.
- Operators whose comment says *Variant* are the same piece of code with a
  plausible mistake. No action uses them; a property that matters is violated
  when one takes the place of the operator after it.

### How the parts above the kernel correspond

- **`Transfer`.** A step is the code between two waits or two accesses that the
  other thread can see: waiting for an event, filling a cache, publishing it,
  writing and giving a cache back are steps of their own, because a thread can be
  preempted between them. The index each side moves after its `event_signal`
  (`transfer_parallel.c:264` and `:315`) is read by that side only, so it moves in
  the same step. `usb_read`, the write to
  the eMMC and `thread_create` fail at any call. `stop_engine` is one step per
  event. The static variables of `write_data` live on from one download to the
  next; `flash` and `trouble` are history variables.
- **`Unsparse`.** A word of an image is the record of what it is, so that a
  parser that takes data for a header can be told from one that does not. A
  step is one turn of `write_sparse_data`'s loop, or the arrival of a package
  with what the last one left in front of it. A filling is written a cache of
  `FILLED_DATA_CACHE_SIZE` at a time; a write that fails leaves the caches before
  it on the eMMC. `File` and `Unsparsed` are what the image file and the eMMC hold
  at each place, from where its chunks begin (`HeaderAt`, `PlaceOf`).
- **`Timer`.** `left[t]` is a history variable, the true time until `t` is due;
  everything the code compares is modulo `TimeRange`. `timer_set` writes the
  fields before its critical section, a step of its own.
- **`Fastboot`.** The thread's step ends where an interrupt can change what it
  looks at next: `udc_request_queue` looks at `usb_online` before its critical
  section and queues inside it. Suspend and reset happen in one interrupt.
- **`BootControl`.** Power may be lost between any two accesses to storage, and
  any access may fail. `set_active_slot` is three steps. Its switch of the
  region fails with a negative number, which ends the call, or with a positive one,
  which it does not look at (`write_unswitched`). The preloader and the
  system are external: their actions are what the code says of them.
- **`Heap`, `Mblock`.** Every call is one critical section or runs alone, so it
  is one action; addresses and sizes are small numbers. `Mblock` keeps the tables
  as they are: blocks of size 0, the order in which a merge looks for a
  neighbour, and what a removed record leaves in its slot.

### Known simplifications

- `thread_create` succeeds; names, TLS and the global thread list are left out.
- `thread_resume` is called for SUSPENDED threads only, as everywhere in the tree.
- `thread_sleep(0)` and a wait with timeout 0: the first is a sleep of 1 ms in
  the code; the second returns at once and is modelled for mutexes, where it
  backs out of the increment, and changes nothing for events.
- The thread that runs `dpc_thread_routine` makes no other call.
- Delays of timers are below half the range of `time_t`, sizes of blocks far
  from that of `size_t`; a longer delay sorts wrongly and a larger size wraps.
- In `Unsparse` images are complete, and a package holds at least the file header
  and a chunk header but for a byte. A package is a cache of 2 MB (the last one of
  an image is what is left of it), so in the code it does. Headers have the size
  of their structs: the bytes the code skips when `file_hdr_sz` or `chunk_hdr_sz`
  is larger (`sparse_state_machine.c:75-84`, `:100-123`) are left out.
- `Fastboot` leaves out what a command does between being read and its answer.
- `Mblock` leaves out the memory of LCA and TEE, names and mappings, and stops
  where a table would be full; the code's own test for that (`mblock_v2.c:232`)
  never holds, and it would write past the table.

## Runs

| Run | Instance | Shows |
|---|---|---|
| `Thread_safety` | 2 threads + idle, 2 priorities + idle, 1 wait queue, finite and infinite waits | every call interleaved with the tick, expiring timers and a device: `ThreadTypeOK`, `RunQueueExact`, `WaitQueueExact`, `TimersOnLiveStacks`, `CriticalSectionsBalanced`, `DispatchesHighest`; no deadlock |
| `Thread_leak` (violation) | 2 threads of one priority, one late timer | `TopWaitEnds` fails, finding 1 |
| `Event_safety` | 2 threads, 2 priorities, a device event and a plain event that may be destroyed, signalled at first or not, one late timer | `EventInv` (nobody is left behind on a signalled or destroyed event), `SignalsConserved` (every signal accepted ends in exactly one wait or unsignal), `DestroyedWaitFails` (waiters of a destroyed event get its error), `WakeResultSettled`, `KernelInv` (the scheduler under the load of events, and interrupts only outside of calls), and `ImplementsAutoEvent` |
| `Event_live` | 3 threads of one priority waiting for one device and for each other | `TopReadyRuns`: a ready thread of the top priority runs although wake-ups go to the head of the list, and two threads may wake each other in front of the third; `DeviceWaitEnds`: no thread waits for the device for ever |
| `Mutex_safety` | 3 threads, 2 priorities, timeouts 0 and finite, the mutex may be destroyed | `MutexInv` (one holder), `CountsStakes`, and the refinement of `FifoLock` |
| `Mutex_live` | 2 threads of one priority, no timeouts | `NoWaitOnFreeMutex`; `AcquireSucceeds`: release and acquire in a loop cannot pass a waiter by |
| `Mutex_lost_release` (violation) | 3 threads, timeouts | `NoWaitOnFreeMutex` fails, finding 2 |
| `Dpc` | 2 threads that end and are created again, priorities equal to and below the dpc thread's | `DpcInv`, `NoStackFreedInUse`, `DeadIsFreed` |
| `Transfer` | images of up to 3 packages, sparse and plain, every length of rest, download after download, a failure at any step | `TransferInv` (caches exclusive, context outlives the writer), `NothingMisplaced`, `VerdictExact`, `DownloadEnds`; no deadlock |
| `Parts` | see below | the invariants and step properties of `Timer`, `BootControl`, `Heap`, `Unsparse`, `Fastboot` and `Mblock`, with the refinement of `ImageWriter` (`LaysInOrder`) |
| `Usb_unplug` (violation) | the cable is pulled during a download | `InterruptedTransactionFails` fails, finding 3 |
| `Mblock_sanity` (violation) | 2 ranks of 3 pages and of 2, 3 records | `SanityCheckPasses` fails, finding 4 |

**Bounds of the kernel.** Two threads beside the idle thread are what a wake-up,
a timeout and a preemption of one another need; mutexes get three (a holder, a
waiter and one that comes in between, or two waiters whose order matters), and so
does `Event_live` (two that pass the third). Two
priorities above the idle one give every comparison its three outcomes.
`Quantum = 1` is the product's value (`ENABLE_IO_THREAD` is defined in
`platform/mt6785/rules.mk:72`). No counter is bounded artificially but one:
`LeakBound` is the number of critical sections a thread may have leaked when a
late timer is allowed to leak one more. With 0 a late timer does not expire,
which is the system as its authors meant it; with 1 it may, and what is shown
holds up to the first call by the thread that holds the leaked section (see
*Leaked sections*).

**Bounds above it.** Three packages let each cache be used twice, with a rest
carried across both turns of the index. `Parts`: three timers on a clock of ten
values, which wraps several times, with ticks up to one unit late, so that
timers are inserted behind ones that are overdue; two slots with two priorities
and two tries, which have a value at either end and one step between; a heap in
which up to three blocks lie between free chunks of every size near the header's,
where splitting or not is decided; sparse images of up to three chunks of up to
two blocks, cut into packages of four sizes, so that cuts fall on every word of
a header and of a block, and fillings of up to two caches; all states of the
command loop, which needs no bound; and DRAM of two ranks, five pages, with
sizes that are not a multiple of a page and limits inside the first rank.
`MaxLate`, `MaxBlocksHeld`, `MaxBlocks`,
`MaxChunks`, `MaxPackages`, `MaxReserved` and `MaxMblocks` are bounds of the
models; the tables of the last two have 128 entries in the code.

**Deadlock** is checked unless a behaviour really may stop: with `LeakBound` 1 a
leak can leave the idle thread with interrupts masked; in `Parts` and
`Mblock_sanity` an image has an end, and tables may be full. Symmetry is used
for threads other than the idle and the dpc thread and for timers, in runs of
safety properties only.

**Fairness.** `SchedulerFairness`: the CPU goes on with kernel code (weak), and
the tick, which stays pending until it is taken, is taken if interrupts are
enabled again and again (strong). `TimerFairness`: a pending timer expires at
some tick. A thread's own code is fair only where a property is about it:
`Mutex_live` lets holders release if they keep getting the CPU, `Event_live` lets
the device signal, `Dpc` lets the dpc thread run its loop. Nothing says that a
thread ever blocks or yields; that others get the CPU nevertheless is what
preemption is for, and what `TopReadyRuns` shows. `Transfer` has weak fairness of
reader and writer: the writer has the highest priority
(`transfer_parallel.c:350`), and the reader runs whenever the writer waits, for a
cache or for the eMMC; the scheduler runs a ready thread of the top priority
(`TopReadyRuns`), and `usb_read` and the write to the eMMC return, with an error
if need be. It has no fairness of the environment: failures may happen or not.

## Findings

Four runs show that the code does not do what a comment of it says.

1. `kernel/thread.c:902`: `thread_unblock_from_wait_queue` returns
   `ERR_NOT_BLOCKED` inside the critical section it entered. It happens when a
   timer expires for a thread that was woken and has not run. The interrupted
   thread keeps the extra section: it returns from that interrupt with interrupts
   on (the spsr is restored), and from its next switch on with interrupts masked,
   since its last `exit_critical_section` no longer finds 0: no tick, no timeouts,
   no preemption while it runs (`Thread_leak`). `WakeResultSettled` shows the
   *result* of the wait is still right. It needs a finite wait that is signalled
   in the tick it expires in, as `usb_read_with_timeout` and `msdc_lk_intr_wait`
   can produce.
2. `kernel/mutex.c:198`: a release that meets only a timed-out waiter that has not
   run yet wakes nobody, and an acquire in that window waits on a free mutex until
   somebody else acquires and releases it (`Mutex_lost_release`). In the product,
   `mutex_acquire_timeout` is called by `app/tests` only.
3. `platform/common/mt_ssusb/mt_ssusb.c:1115`: the suspend marks the transaction
   it cuts short as failed, and the reset in the same interrupt clears the mark
   before the thread has looked (`Usb_unplug`).
4. `lib/mblock/mblock_v2.c:320`: a block that is reserved whole stays in the table
   with size 0, and after memory is given back next to it a record may cover its
   start, which `mblock_sanity_check` takes for an overlap; LK then hangs
   (`Mblock_sanity`). `MblockInv` shows that no memory is really shared or lost.

Met while modelling, without a run, because nothing in the tree gets there or no
comment says otherwise:

- `kernel/mutex.c:171` writes the holder of a mutex destroyed meanwhile, against
  the comment at line 166; nobody destroys a mutex that has waiters.
- `kernel/event.c:175` puts woken threads at the head of the run queue when it is
  not to reschedule; line 158 says the end.
- `avb_ab_data_write` (`avb_ab_flow.c:126-137`) writes nothing, so the try that
  `avb_ab_flow` takes is lost, while `load_vfy_boot_ab.c:460` still gives one back
  for it: the tries of a slot that has not booted stay as they are.
- `bootctrl_api.c:306` tests the result of the region's switch for `ret < 0`.
  `mmc_set_boot_part` (`mmc_common_inter.c:176-212`) fails with `MMC_ERR_*` codes,
  which are positive (`storage/mmc/inc/mmc_core.h`), and a UFS query with its response code
  (`ufs_aio_hcd.c:1478`). The metadata is then written and 0 returned while the
  chip starts from the other region, until a later `set_active_slot`.
  `RegionFitsMetadata` and `ActiveSlotTakes` make the exception by name
  (`activation = "unswitched"`).
- `bootctrl_api.c:366-369` documents other results of `get_bootable_status` than
  line 388 returns.
- `transfer_parallel.c:221` returns the status of the sparse parser for plain
  images too: their errors are dropped, and the error of an earlier sparse image
  is reported for a later plain one. `VerdictExact` has the condition `Sound`
  for that.
- `mt_ssusb.c:2549`: while the device is offline `usb_read` queues nothing and
  waits for a completion that cannot come. A write that timed out stays queued,
  and its late completion is taken for the next one's (`timed_out` in
  `NoStaleCompletion`).
- `sparse_state_machine.c:75` loops for ever on a first package shorter than the
  file header, and line 38 reports an image that ends inside a chunk as written.
- `heap.c:352` copies the length of the old block with its header; the sum of
  `heap.c:246` wraps for sizes near the range.
- `mblock_v2.c:232`: `?:` binds weaker than `||`, so the tables are never found
  full; line 496 leaves a stale record in the slot that becomes free when a
  record is shrunk to 0, and line 293 then refuses every reservation.
- `msdc_irq.c:253` reads the interrupt status after a timeout as after a success,
  and a late interrupt leaves the event signalled for the next command.
- `bcache.c:205` and `cbuf.c:74`: a block on two lists after a failed read, a
  full buffer that turns into an empty one. Nothing uses either.

## Proofs

Each theorem holds for every value of the constants its module's assumptions
allow: any number of threads, priorities, queues, packages, timers, chunks. The
invariants of the runs are seldom inductive; the proof modules begin with the
strengthening that is. TLC checked each of those on the instances of the runs
before it was proved.

| Module | Theorem | States |
|---|---|---|
| `ThreadProofs` | `ThreadInvariant`, `TypeCorrect`, `RunQueueIsExact`, `WaitQueueIsExact`, `TimersAreLive` | `KernelInv` and its parts |
| | `DispatchIsByPriority`, `WakeIsFinal` | `DispatchesHighest`, `WakeResultSettled` |
| | `SectionsBalanced` | `CriticalSectionsBalanced`, if `LeakBound = 0` |
| | `SchedulerServesClients` | all of it again, of any clients |
| `MutexProofs` | `MutexInvariant`, `MutexesExclude`, `CountsAreStakes` | `MutexIInv`, `MutexInv`, `CountsStakes` |
| | `MutexesKeepTheScheduler` | `KernelInv`, `DispatchesHighest`, `WakeResultSettled` under `MutexSpec` |
| | `MutexesAreFifoLocks` | the refinement of `FifoLock` |
| | `NobodyWaitsOnFree` | `NoWaitOnFreeMutex`, if no acquire has a finite timeout |
| `EventProofs` | `EventInvariant`, `NoWakeUpIsLost`, `SignalsAreConserved` | `EventIInv`, `EventInv`, `SignalsConserved` |
| | `DestroyedWaitsFail` | `DestroyedWaitFails` |
| | `EventsKeepTheScheduler` | `KernelInv` and the other two under `EventSpec` |
| | `AutoEventsAreSemaphores` | the refinement of `AutoEvent`, if no auto-unsignal event is destroyed |
| `DpcProofs` | `EndedThreadsAreCleanedUp` | `DpcInv`, if `LeakBound = 0` |
| | `StacksAreFreedUnused` | `NoStackFreedInUse`, if `LeakBound = 0` |
| `TransferProofs` | `EngineControl`, `EngineData` | `ControlInv`, `DataInv` |
| | `CachesAreExclusive`, `NothingIsMisplaced`, `VerdictsAreTrue` | `TransferInv`, `NothingMisplaced`, `VerdictExact` |
| `UnsparseProofs` | `ImageIsUnsparsed`, `ParserLoopEnds` | `UnsparseInv`, `LoopAdvances` |
| | `ParserIsImageWriter` | the refinement of `ImageWriter` |
| `BootProofs` | `RegionFollowsSlots`, `SetActiveSlotTakes` | `BootControlInv`, `ActiveSlotTakes` |
| | `RequestIsNotShared`, `CompletionsAreFresh`, `HostGetsOneAnswer` | `FastbootInv`, `NoStaleCompletion`, `OneAnswer` |
| `SortedListProofs` | `TimersStayInOrder`, `TimersFireWhenDue`, `TicksFireAll` | `TimersInv`, `FiresWhenDue`, `TickFiresAll` |
| | `HeapIsTiled` | `HeapInv` |
| | `DramIsTiled`, `ReservedHighest` | `MblockInv`, `AsHighAsPossible` |

The theorems of `ThreadProofs`, `MutexProofs` and `EventProofs` have the hypothesis
`~LeakersCall` (`SectionsBalanced` and those of `DpcProofs`: that nothing leaks).
They speak of the system up to the first call by a thread that holds a leaked
section. Most of the proofs never use it; it says for which behaviours the model's
steps are the code's, and `CallsAreMasked` proves that.

**Scheduler.** `ThreadInv` is the inductive invariant. `RunQueueExact` alone is
not inductive: that `thread_resched` finds a list that is not empty needs
`BootCanRun` (the idle thread is always runnable); that the current thread may be
inserted needs `OnCPU` (it is RUNNING, so in no list, or dead) and, in the loop of
`wait_queue_wake_all`, which inserts its caller first, `WakingUp`; that a count
never goes below zero needs `CountsCover` (every saved count pays for the exits
its thread still owes). The first lemmas say what the list
operators do to sequences without duplicates and, from that, to a run queue and a
wait queue that are exact. Then there is one lemma for the switch, `Resched`, and
one for a wake-up without a switch, `MadeReady`; each operation is a lemma that
shows it meets the hypotheses of one of the two. `CallsAreMasked` is inductive
beside it: a call either masks interrupts or is made by a thread with a leaked
section (`CallMasks`, `NextMasked`).

**Clients of the scheduler.** `NextInv` is about `ClientNext`, not `ThreadNext`:
every step of the kernel with its wait queues called by anybody. Every step of
`MutexNext` and of `EventNext` is such a step, so whatever is proved of the
scheduler holds below mutexes and events too, and need not be proved again. Their
own proofs stand on `Undisturbed` (the step touches no wait) and on what the four
steps that do touch one leave. Counting stakes and released threads takes
cardinalities, hence `ThreadFinite`: there are finitely many threads.

**Mutexes.** A thread inside an acquire is queued on the mutex or has been woken
with a result its caller can tell apart (`WaitsToAcquire`); without it a count
could be taken back twice. For `FifoLock` the waiters that have timed out and not
run are a set apart (`leaving`), which is why the count of a free mutex may be
above zero. `NobodyWaitsOnFree` has the hypothesis that no timeout is finite
because with one it is false: finding 2.

**Events.** A wait that was let through and has not returned is a *released*
thread; `SignalsConserved` counts them, and is inductive together with the fact
that a thread is inside `wait_queue_block` exactly while it waits for an event and
that only plain or destroyed events wake everybody. `DestroyedWaitsFail` needs
besides that a wake-up of all on a destroyed event carries the error
(`WakesWithError`); a timer comes too late, for nobody is left on the queue. The
hypothesis of
`AutoEventsAreSemaphores` is what the users of such events do: nobody in the tree
destroys one with a waiter, and a semaphore has no way to end.

**Deferred calls.** `DpcIInv` adds to `DeadAwaitsCleanup` what keeps somebody awake
for a dead thread: nobody but the dpc thread waits (`OnlyDpcWaits`), `dpc_event` is
signalled while `dpc_list` holds work (`WorkIsSignalled`), and the dpc thread does
not sleep on a signalled event, other than in the middle of the wake-up by
`dpc_queue` (`SleepsUnsignalled`). That no stack is freed in use needs the scheduler
to know about `thread_exit`: `Ended`, in `ThreadInv`, says that a dead thread is at
the end of `thread_exit` and nowhere else, so no switch goes to it, and its wake-up
of the dpc thread cannot preempt it (`WakingUp`). `LeakBound = 0` is no restriction
here: no wait of the module has a timeout, so no timer can leak a section.

**Download engine.** Two layers. `ControlInv` ties the program counters of both
parts to the tokens in the cache events: a cache is free, full or in the hands of
one part, *while both run*; once a part begins to stop the engine it signals events
it does not own, and the invariant says instead in which order the two end.
`DataInv` names a number `w`, the package up to which the image is on the eMMC, and
says what each cache, offset and flag is in terms of it. Where a package belongs is
a closed form (`PlaceOf`), a count of the rests before it, so that no recursion is
needed. A download whose predecessor left an error of the sparse parser behind is
outside of `Sound`, as in the run.

**Sparse parser.** What the parser keeps is a *position*: the words of the file it
has taken (`Consumed`), the offset on the eMMC, the chunk it is in and what remains
of it all say the same place, differently in each phase (`Position`). `StreamKept`
says that the buffer and what was left over are the end of what has been received,
so no word is lost or seen twice; `Placed`, that the eMMC has the image up to the
offset and nothing else. Each turn then takes some words from the front of a stream
it knows (`EndDropped`) and writes them at a place it knows (`WritePlaces`). Two
facts carry the proof. A chunk header comes in two parts at most, so the part put
aside is never replaced by a second one (`HeaderPartKeeps`): this needs packages
that hold a header but for a byte, and that the file goes on to the end of each
header. And a leftover is less than a block *and* less than what the chunk still
needs, so it is never the end of an image (`AtTheEnd`). For the refinement of
`ImageWriter` each turn also has to leave the offset where it was or further on,
and a turn after a failed write must not exist: `ParserIsImageWriter`.

The places of the chunks are sums over the chunks before them. The library's
induction has an operator for a parameter and cannot be used; `LeastNumber` stands
in for it: of the places that lack a property there is a least one, and the one
before it has the property. `SumsStep` shows in this way that the recursive
function in `Sums` exists, and `PlacesAreBlocks` and `SumsOrdered` what holds of all
its values. `File` and `Unsparsed` are functions of a place and of these sums, so
that what they hold at a place follows without recursion (`FileWords`,
`UnsparsedWords`).

**Slots.** `CacheFollows` (the cached copy has the slots of the partition from the
first read to the boot) and `CallIsSound` (what a `set_active_slot` in progress is
going to write makes its slot active) are what a loss of power between any two of
its steps leaves true.

**Fastboot.** `CompletedIsGone` ties a completion that was not seen to an endpoint
without a request; `AnswerIsDue` and `CommandIsRunning` tie `fastboot_state` to the
host's view, and give `OneAnswer`.

**Timers.** The proof is about arithmetic modulo `TimeRange`. `TimesAreTrue` says
that what a timer's fields say, modulo the range, is the true time `left[t]`, and
that this is nearer than half the range, so `TimesCompared` can conclude that the
code's signed comparison is the comparison of true times. `FiredAreLater` (a timer
that has fired in this tick and is queued again is due later than the tick) is why
a tick ends. `WalkEnds` says where a walk along a list ends, `PutInAt`, `CutOutAt`
and `SpliceAt` what linking in, cutting out and replacing do to it.

**Heap.** With the chunks in order and apart (`Loose`), what merging, linking in and
taking do is said by the words they cover: `MergePrev` and `InsertFree` move no word
in or out but those freed, `TakeKeeps` takes those of the block and no others.
`WordsApart` and `NoWordLost` are then the tiling. Of alignments the proof needs
that one below the least divides it, which is in `HeapAssumption`: they are powers
of 2.

**Memory blocks.** Blocks and records are tables of intervals, and `Tiled` speaks of
addresses: each is covered by one entry of one of the two tables. What an entry that
changes, is put in or is taken out does to the addresses covered is said once for
any table (`OneReplaced`, `OneInserted`, `OneRemoved`); `SplitLeaves`, `PutBack` and
the lemmas about records are instances of it, and an operation moves one stretch of
addresses from one table to the other (`Taken`, `GivenBack`). It becomes inductive
with `TablesTyped`: a record lies in one rank, so that what is given back finds its
rank. Two empty blocks, or an empty block inside a record, are no obstacle, which is
why finding 4 is about the check and not about the memory. That the block that ends
highest offers the highest address (`HighestIsFound`) needs that blocks do not
overlap.

**Model-checked only.** All liveness, since the prover handles neither fairness nor
`ENABLED`. Every safety invariant and every action property of the passing runs is
also proved.

## Not modelled

The map covers the kernel, the download engine and the tables named above almost
line by line, and next to nothing of the tree as a whole. Most of its two million
lines are register headers and board files of other chips
(`platform/mt6779`, `mt6763`, ...; this product builds `platform/mt6785` and
`platform/common`), panel tables of `dev/lcm`, and vendored libraries. What is
left out, and why:

- drivers for storage controllers, USB endpoints, display, power, charger, modem
  and sensors: sequences of register accesses, whose meaning is the hardware's
  and is not in the repository. Where a driver meets the kernel (interrupts
  that signal events, the one USB request) it is modelled;
- the boot flow (`app/mt_boot/mt_boot.c` and its helpers), device tree patching,
  partition parsing, formatting of the command line: straight-line code over
  data, without concurrency or state that outlives a call;
- verified boot, libfdt, zlib: third-party code;
- the I/O thread handshake: two plain events of module `Event`, each signalled
  once per boot and waited for by one thread;
- the block cache and the ring buffer: nothing in the tree calls them;
- commands of fastboot other than the download, and the tests.

## Plan

1. *Done*: the kernel; the parts above it: timers, the download engine over
   `AutoEvent`, the sparse parser, fastboot, slots, heap, memory blocks.
2. *Done*: the proofs of every safety property of the passing runs, with the
   refinements of `FifoLock`, `AutoEvent` and `ImageWriter`.
3. *Left*: what the prover cannot do, liveness under fairness, stays with TLC.
