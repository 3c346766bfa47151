# Verification of the mtgpu kernel module

`mtgpu.ko` is the Linux driver of the Moore Threads GPUs.  Its C files surround a binary
services core (`objs/x86_64/mtgpu_core.o_binary`).  What the C files decide themselves, and
where a mistake costs a hang, a lost page, a wrong picture or a use after free, is the
synchronisation with other drivers and user space, the memory pool, the transfers and timers of
the OS layer, the commits of the display, and the start and stop of the parts.  This
directory holds TLA+ models of these parts, the configurations TLC checks, and theorems
TLAPS checks.  Paths below are relative to `src/src`; "core" is the binary.

## 1. Inventory

The parts, the state they keep, what acts on it and what must be right.

| part | state | operations | hard because | correct if |
|---|---|---|---|---|
| timeline file, ioctl gate (`pvr/pvr_sync_file.c`, `pvr_sync_ioctl_*.c`) | `in_setup`, `in_use`, `is_sw`, the hardware context and the software timeline of a file | rename, force-software, software create/advance, kicks | processes share the file; the only exclusion is two atomics | a timeline is of one kind, and is not configured in use |
| fences of a kick (`pvr/pvr_sync_file.c`) | reserved and installed descriptors, sync files, references on fences and checkpoints | resolve, create, finalise, roll back; merge, query, close | descriptors are closed by other threads as soon as they are visible; every step may fail | every reference and descriptor has its holder; nobody waits for work that never comes |
| fence contexts and fences (`pvr/pvr_fence.c`) | lists, kref, RCU, slab cache, sync checkpoint, foreign callback | create, wrap, enable signalling, signal, release, destroy | notifiers on any thread, firmware, other drivers, RCU, a work queue | no use after free, nothing leaks, every waiter is woken |
| software timelines (`pvr/pvr_counting_timeline.c`, `pvr_sw_fence.c`) | counters, list of points, reference counts | define, advance, close, keep by the core | close races with calls in progress | a point signals exactly when reached or given up |
| implicit sync (`pvr/pvr_buffer_sync.c`) | locks of reservation objects, check fences, update fence | resolve, kick succeeded, kick failed | wait-die locking, many failing steps, fences that signal meanwhile | no deadlock, balanced locks and references, order kept |
| system memory (`pvr/physmem_osmem_linux.c`) | page arrays, pool lists, counters, list of unpinned PMRs | create, change, lock, pin, unpin, destroy, clean, shrink | the shrinker runs on any thread that allocates | a page has one owner and the right memory type |
| life cycle (`pvr/module_common.c`, `pvr_platform_drv.c`, `pvr_drm.c`, `mtgpu/mtgpu_drv.c`) | what has been initialised; open files; power | probe, remove, open, release, suspend, resume, PCI errors | partial failure, order | what was started is stopped once, in reverse |
| timers (`pvr/osfunc.c:1461-1656`) | slots, kernel timers, works of one queue | add, enable, disable, remove; expiry, work | the work arms its own timer while another thread disables it | no callback after disabling; no period lost |
| DMA transfers (`pvr/osfunc.c:2101-2862`) | pinned pages, mapped lists, the counts and flags of a request, its cleanup thread | prepare, submit, give up; callback, clean up | caller, engine and thread share the request and free it once | busy pages are held; everything is given back once |
| other OS functions (`pvr/osfunc.c`) | event objects, MISRs, threads, work queues | create, signal, wait, destroy | callbacks during destruction, timeouts | no lost wake-up, no callback after destruction |
| frequency scaling (`pvr/pvr_dvfs_device.c`) | devfreq, OPPs, cooling device | init, target, suspend | power transitions | no transition while suspended |
| display (`mtgpu/mtgpu_drm_drv.c`, `_atomic.c`, `_dispc.c`) | state of crtcs and connectors, pending vblank event, what scans into which encoder | atomic commit, vsync, interrupt, vblank on and off | commits beside one another, interrupt against commit | the state is reached; each page flip completes once |
| outputs and audio (`mtgpu_drm_hdmi.c`, `_dp.c`, `../mtsnd`) | connection, EDID, PCM streams | hot plug, i2c, start, stop | deferred work and timers against removal | audio follows the connection |
| video unit (`mtvpu/`) | command queues, instances, open files | send, completion interrupt, close | close with commands in flight | every waiter gets an answer |
| mapping, tracing, debugging, PCI, module parameters | mapping counts; trace buffers; settings | mmap, enable, read | mostly sequential | counts balance |

How they interact.  A kick enters the core through an ioctl.  The core asks `pvr_sync_file.c`
for the fences of the timeline (made on a context of `pvr_fence.c`) and `pvr_buffer_sync.c` for
the fences of shared buffers; both turn fences into sync checkpoints the firmware waits for and
updates.  When a command completes the core calls its notifier list, on which every fence
context is: that is how checkpoints become signals to other drivers.  The check of fence status
and the destruction of contexts run on one ordered queue, `gpFenceStatusWq` (`osfunc.c:714`).
PMRs come from the core; freed uncached pages travel through tasks of the core's cleanup thread
into the pool, from where allocations and the shrinker of Linux take them.  The core asks for
timers and DMA transfers as services of `osfunc.c` and is called back from their works and
threads.  The display is a DRM device of its own: commits arrive from the DRM core, the binary
core programs the registers, and the interrupt of the display controller ends page flips.

Hazards, at the line where they bite, are the list `hazards` of `PROJECT.json`.

## 2. Modules

| module | what it is | code |
|---|---|---|
| `TimelinePhases` | contract of a timeline's configuration | comment at `pvr_sync_ioctl_common.c:58-68` |
| `PvrSyncFile` | the fences of kicks: descriptors, sync files, fences and checkpoints | `pvr_sync_file.c` |
| `PvrSyncIoctl` | the two atomics, and what ioctls and kicks do to the timeline behind them | `pvr_sync_ioctl_common.c`, `pvr_sync_file.c` |
| `PvrFence` | contexts and fences from creation to RCU | `pvr_fence.c` |
| `SwTimeline` | contract of a software timeline | `pvr_sync_file.c:838-855` |
| `PvrCountingTimeline` | counting timeline, its fences, the file's close, the core's handles | `pvr_counting_timeline.c`, `pvr_sw_fence.c`, `pvr_sync_file.c` |
| `ImplicitSync` | contract of implicit synchronisation | what `pvr_buffer_sync.c` is for |
| `PvrBufferSync` | a kick's way through the locks, the check fences and the update fence | `pvr_buffer_sync.c`, `inc/imgtec/pvr_dma_resv.h` |
| `PhysmemOsMem` | PMRs of system memory, the pool, the shrinker | `physmem_osmem_linux.c` |
| `OsTimer` | the table of timers with their kernel timers and works | `osfunc.c` |
| `OsDma` | a request of DMA transfers from allocation to cleanup | `osfunc.c` |
| `DisplayCommit` | commits, from their check to the hardware, with vblanks and events | `mtgpu_drm_drv.c`, `mtgpu_drm_atomic.c`, `mtgpu_drm_dispc.c` |
| `MC*` | constants for TLC | |
| `*Proofs` | theorems: `PvrSyncIoctl`, `PvrFence`, `PvrCountingTimeline`, `PvrBufferSync`, `PvrSyncFile`, `PhysmemOsMem`, `DisplayCommit`; `OsFuncProofs` is about both `OsDma` and `OsTimer` | |

A module stands for one component; where two meet, the one that calls models what it relies on
(`PvrSyncFile` has fences that signal in one step, `PvrFence` shows how they do; `PvrCountingTimeline`
begins where the gate of `PvrSyncIoctl` has let `force_sw_only` through).

### Granularity

A step is what happens between two places where somebody else may act on shared state: a
critical section is one step; code without a lock is one step per access to shared memory.
Memory barriers and atomics are sequentially consistent, which the code's `smp_mb()` and
value-returning atomics give it.  Freed memory keeps its values and is marked freed, so that
a use of it is seen by an invariant.  Names, traces, debug text and register contents are left
out.

### `PvrSyncIoctl`

Each thread loops through one operation: `Call`, the gate (`IncInSetup` ... `SetInUse2`, one
action per atomic access of `pvr_sync_set_in_setup`, `pvr_sync_set_in_use` and
`pvr_sync_reset_in_setup`), then the body of its ioctl.  `in_setup`, `in_use`, `is_sw` are the
fields of the file data, `timeline` is `struct pvr_sync_timeline`.  Kicks create the hardware
context without a lock between test and store (`CheckHw`, `CreateHw`); a failed creation
overwrites the pointer, as in the code.

### `PvrSyncFile`

A kick has the name of the fence, sync file and checkpoint it makes.  `pc` follows it through
`pvr_sync_resolve_fence` (one step for each fence of the array), `pvr_sync_create_fence` (one step
for each call that can fail, with the labels that undo it), the submission by the core, and
`pvr_sync_finalise_fence` or `pvr_sync_rollback_fence_data`.  `refcount` and `ck_refs` are the
references on fences and checkpoints, `fds` and `reserved` the descriptor table.  Other threads
close, merge and query descriptors between any two steps.  `Faults` says what may fail.

A foreign fence is one without a checkpoint: of another driver, or a software point of this one
(`PvrCountingTimeline` shows when those signal).  A kick that finds one makes a wrapper with a
checkpoint of its own (`pvr_fence_create_from_fence`, `pvr_fence.c:898-984`): `wrap` allocates it and
adds the callback, `wrapped` takes the reference the kick waits with, and between the steps the
foreign fence may signal; `hooked` are the wrappers whose callback is on the foreign fence, and
`PvrFence` is about the callback itself.  That a foreign fence ever signals is not assumed.  Left out: a
failing `dma_fence_add_callback` other than for a signalled fence (`err_put_ref`), which it does not do;
and fences of another GPU of this driver, which the code wraps like any foreign one.

### `PvrFence`

Two kinds of lists hold a fence: `fence_head` (the context's `fence_list`, the deferred list, or
the stack of the thread that frees) and `signal_head` (the context's `signal_list` or the stack
of the thread that signals).  `rel` walks through `pvr_fence_release` (and
`pvr_fence_foreign_release`), `cb` through the callback on a foreign fence, `pc` through
`pvr_fence_context_signal_fences`, `pvr_fence_context_free_deferred` and `destroy_work`.  The
notifier list is a reader-writer lock: registering and unregistering wait for readers.  `wq` is
the ordered queue, with its rule that a pending item is not queued twice.

### `PvrCountingTimeline`

Starts when `force_sw_only` has made the timeline.  `pc` follows a thread through the creation of
a point or an advance, `closing` through `pvr_sync_api_deinit`, `destroying` through
`pvr_counting_fence_timeline_destroy`, `rel` through `pvr_sw_fence_release`.  The core's references
(`pvr_sync_sw_timeline_get`) outlive the file.

### `PvrBufferSync`

A job is one kick.  `idx`, `lresv` and `cresv` are the loop variable, the object locked by the slow
path and the contended object of `pvr_buffer_sync_pmrs_lock`; `order` gives the tickets of the
wait-die mutexes.  The check fences, the references on checkpoints and on the update fence are
counted.  `UsageApi` chooses between the two reservation object APIs of `pvr_dma_resv.h`.
The GPU, other drivers and Linux's locks are actions of their own, from what the code relies on.

### `PhysmemOsMem`

A PMR runs one operation at a time (the core's lock).  `pc` and `op` follow it; `arr`, `num`,
`has_array` and `unpinned` are its page array, `valid` and `phys` its mapping table.  `pool`,
`tasks`, `unpin_list` and their counters change under `lock`, the pool mutex.  A kind records size,
memory type and the flags that change the control flow (sparse, on demand, CMA, zeroed).  The
model is the x86 release build with the default limits: debug poisoning, `ZERO_ALL_PAGES` and the
ARM cache attributes are left out.  `chg` is what is left of a sparse change: the slots that want a
page, the slots to free, and whether pairs are swapped; a step moves the page of one pair (`Move`, an
iteration of the loop), because a later pair may name a slot of an earlier one, and `MovesDone` goes
on to free the rest.  `Faults` says which calls may fail.

In two places the code goes wrong in a way that nothing later mends (section 6): it frees the head of
`g_sUnpinList`, or it loses a page that its PMR still counts.  The behaviour ends there (`wrecked`), and the
properties say that it ends for no other reason.  `Misuse` names two requests beyond what the code is
made for; `page_pool` makes one of them, changes that want a page in a slot that has one
(`taken_slot`).  Never requested are indices behind the array, which the tests at 3615 and 3646 let pass by
one, and indices that name a slot twice (2830 prints a message): what the first read is not in the model, and
the second makes the mapping table count wrong.

### `OsTimer`

`user_pc` follows a user through `OSAddTimer`, `OSEnableTimer`, `OSDisableTimer` and `OSRemoveTimer`.
A slot has the fields `bInUse`, `bActive`, `pvData` of the table, its kernel timer (`pending`,
`firing`) and its work (`queued`, `running`, where `running` names the place in
`OSTimerCallbackBody`).  `flush_workqueue` is modelled as Linux does it: it waits for the executions
that were queued or running when it began (`awaited`), of every timer, and not for later ones.

### `OsDma`

Three parties share one request: the caller (`pc`), the engine (`engine`, one state for each
transfer) and the cleanup thread (`thread`).  Flags and counts have the names of `OS_CLEANUP_DATA`.
Pages are slots with a count of references, so that the arithmetic of the error path of a sparse
transfer (`PutLast`, `PutRewind`) is that of the code.  `Faults` says what may fail; four of its
members are paths on which the code is wrong (section 6) and are not in the listed run.

### `DisplayCommit`

A worker's `job` is a commit: first only checked (`Check`, under the locks of its crtcs and connectors),
then dropped (`Drop`) or, when the commits before it are done with the hardware, swapped in
(`SwapState`).  So a commit is checked while an earlier one of the same crtc is in flight, and the check's
write to `ctx.vm` (`mtgpu_crtc_mode_fixup`) falls between any two of its steps.  The job's phase then
walks through the commit tail, in the order of the driver's own helpers (crtcs off, encoders off, mode,
encoders on, crtcs on) or, on a SUDI104 (`mtgpu_drm_drv.c:101`), in that of Linux's helpers (encoders off,
crtcs off, mode, crtcs on, encoders on): `device` says which, `After` holds both.  The fields of a job are
what the helpers read from the old state and from the `*_changed` flags; they are emptied when they
have been used for the last time.  `route`, `active`, `mode`, `event` are the new state the DRM core
has swapped in; `vm` is `ctx.vm`; `scan`, `drives`, `vblank`, `vsync`, `armed`, `irq` are the hardware and
the vblank machinery of DRM.  Three histories: `owed`, events of commits that have not been sent; `fixed_up`,
crtcs whose `vm` comes from a check not swapped in; `astray`, crtcs that were enabled with such a mode.
Left out: a core without `mode_fixup`, writeback, self refresh, detection of MST encoders, asynchronous cursor
updates, the report of idle displays, and planes and registers, so also whether a frame is shown when its
event is sent.

## 3. Runs

| run | shows | instance and why it is enough |
|---|---|---|
| `sync_ioctl` | the gate implements `TimelinePhases`; no timeline is of both kinds; its kind and name do not change in use | three threads: two that race, and a third that relies on what they left |
| `kick_fences` | references, descriptors and checkpoints have exactly their holders; the firmware never reads a freed checkpoint; nobody waits for work that is not queued, nor for a foreign fence without the callback that passes its signal on, and kicks do not wait for each other; what finalise and the queries touch late is stale only if the descriptor was closed | two kicks, one foreign fence both may wrap, a merge of two files, three descriptors (fewer than the files, so that none is free at times), memory and submission may fail |
| `fence` | references stand for holders; no fence, context or cache is used after it is gone, and nothing is left; a watched fence stays listed; no early signal | a fence that is native or wraps a foreign one, two contexts (they share the slab cache and the queue), one notifier beside the worker (with the release handler and the callback: four parties that can hold one fence) |
| `fence_liveness` | an abandoned context is freed; a watched fence signals | one context, two notifiers |
| `sw_timeline` | points signal exactly when reached; nobody finds memory gone or a destructor something outstanding; the timeline implements `SwTimeline`; closing releases waiters and frees what nobody holds | two threads, two points (one behind the other), one handle of the core |
| `buffer_sync` | locks, references and check fences balance on every path; the order of `ImplicitSync` is kept | two contexts, two shared buffers in opposite orders, a duplicate, an unshared one; another driver; any of four failures |
| `buffer_sync_liveness` | every kick returns and published work finishes (`NobodyStuck`) | same, the old API, crossing requests only |
| `page_pool` | every page in one place and of the right type and all given back, counters, limits and tables agree, the list of unpinned PMRs is exact, only unpinned memory is reclaimed, and memory is wrecked in the two known ways only | two PMRs of three kinds, three pages, five changes, a pool limit smaller than a PMR so that every limit is met, a failure at each allocation |
| `page_pool_liveness` | calls return, the mutex comes free, tasks are done | two PMRs, two pages |
| `timers` | a disabled timer is quiet; a timer has one chain of expiry and work; enabled timers are served and disabling returns | two slots, three users: the table is full, a slot changes hands, two timers share the queue |
| `dma` | busy pages are pinned and mapped; nobody finds the request freed; everything is given back once; a request ends | three transfers of two pages, dense or sparse, each of which may fail; two attempts to stop the engine |
| `display_commit` | crtcs and encoders never stand the wrong way round, on either kind of device; commits reach their state (but for the mode, where a check came between); each event is sent once; an armed event will get its vblank | both orders of the tail; two crtcs with a connector each, one of which has two modes, or one crtc with two connectors; two workers, so that one commit is checked while another is in flight |

Bounds are constants or operators named in the modules: `MaxHwContexts`, `MaxUserRefs`,
`MaxHandles`, `NumTimers`, `NumDMA`, `MaxPages`, `Retries`, and the finite sets of objects.  Fences,
kicks and requests are used once (what is over stays over), so that no counter needs a bound of its
own; timers and crtcs go on for ever.  `CHECK_DEADLOCK FALSE` stands where
all objects may be used up.

Every property has a mutant in the module, an operator next to the original that a plausible bug
would make of it (a forgotten put, an off-by-one, a test left out), listed in `PROJECT.json`; the
property fails under it.

### Fairness

- Fences: a thread inside a notifier goes on, the worker runs its queue, RCU grace periods and
  callbacks end, a release handler that started ends: all are kernel code that does not wait for
  users.  Nobody need ever release a fence or announce again; `WaitedFenceSignals` therefore assumes
  that announcements keep coming, as they do while the GPU works and through the watchdog.
- Software timelines: calls that began return and a debug request ends.  Nobody need close or
  advance.
- Buffer sync: strong fairness on taking a lock, because Linux mutexes hand over to a waiter that
  has waited long; weak fairness elsewhere; the GPU and other drivers finish what they start.
- Timers: weak fairness of the steps of a call that has begun, of the expiry of a pending timer, of
  its soft interrupt and of the worker.  A user need not begin a call.  That the queue is frozen
  while the machine is suspended only delays the works.
- DMA: the caller goes on with a request it began, the engine finishes what was issued, the cleanup
  thread is scheduled.
- Page pool: strong fairness on the operations (they wait for the mutex, see above) and on the
  cleanup thread, weak on the shrinker that holds the mutex.

## 4. Proofs

For all values of the constants, checked by TLAPS:

- `PvrSyncIoctlProofs`: type correctness; `MutualExclusion`, `KindsExclude`, `RenameIsEarly`,
  `SwPointSafe`, `KindFixed`; and `Refinement`, that the atomics implement `TimelinePhases`.  The
  invariant counts: `in_setup` is the number of threads between increment and decrement, at most
  one saw its increment take it to 1, whoever announced itself left `in_use` non-zero, and once
  somebody was admitted nobody configures.  The last is inductive only together with the others:
  the configuring thread read `in_use = 0` at a moment the user had not yet read `in_setup`.
- `PvrFenceProofs`, for any number of threads, fences and contexts:
  - `RefsAccounted`, `FenceMemSafe`, `WaitedIsListed`, `SignalFollowsCheckpoint`.  The argument is
    about one fence at a time: its count is the sum of who holds it, release starts exactly when that
    is zero, only the release handler takes it off `fence_list`, and only a fence off that list is
    freed.  Of the threads one fact is needed: what one is about to put is what it took off its own
    signal list.
  - `NothingDangles` and `TypeOK`, with what `CInv` adds: the kref of a context counts its creator and
    the fences whose release handler has not finished (`KrefExact`); its destruction is queued once,
    when the kref has gone to zero, and nothing of the context follows it in the work queue
    (`QueueInv`, `PlaceInv`); announcements visit registered contexts only; and what is freed has left
    every list (`FreeInv`).
- `PvrSyncFileProofs`, for any number of kicks, descriptors and merges: `HoldersExact`,
  `FirmwareSafe`, `WaitsForQueued`, `StaleOnlyIfClosed`, `TypeOK`, whatever fails.  The counts are
  inductive only with where a sync file can be (`FilesOpen`: behind one descriptor, or with its kick at
  five places) and with `Hidden`: until its work is queued a fence is behind its own sync file only and
  nobody has found it; and with `Wrapped`: a wrapper belongs to the kick that made it, and its callback is on
  the foreign fence until its checkpoint is signalled.  From this queued work waits only for work
  queued before it, stated without an order as: every set of queued work has a member that waits for
  none of the set (`Ordered`); so what is stuck is stuck behind a foreign fence.  `Firmware` says that the signal list holds the fence of queued work from before `fd_install`.
- `PvrCountingTimelineProofs`: `SignalledExactly`, `NothingDangles`, `TypeOK`, and that the timeline
  implements `SwTimeline`.  The invariant is a chain of counts (`Files`, `Lives`, `Held`,
  `Context`): the file is open as long as a call holds it, the timeline lives as long as file or
  handles do, a fence as long as its creator, the list or a user has it, the context as long as the
  timeline or a fence.  So whoever defines a point does it before `force_complete`, which is what
  `SignalledExactly` lacks to be inductive; and every value up to the last belongs to one fence
  (`Values`), which is what an advance of `SwTimeline` needs.
- `PvrBufferSyncProofs`, for any buffers in any order and any number of kicks and drivers:
  - `LocksBalanced`, whatever fails.  The part that needs the proof is the slow path: an object
    locked there is one the loop has still to reach (`Ahead`).  The error path of a lock that fails
    while the slow path's object is held needs three contending kicks and is outside the runs; the
    proof covers it.
  - `RefsBalanced`, whatever fails: the fences there are belong to works published or being
    prepared, an object names at most one fence of a work, and a fence is held by whoever names it,
    by the kick until it lets go, and by the waits (`RInv`).
  - `FencesFit`, unless `get_fences` fails: what the second pass collects from an object was counted
    there by the first, because the objects stay locked in between (`Due`).
  - `KeepsOrder`, that this module implements `ImplicitSync`; with `ConflictsExclude` of the abstract
    specification it follows that no two conflicting works run together (`KicksExclude`).  A work
    waits for all that stood in its way at publication (`AllCovered`): a fence of each is in the
    resulting list of the objects passed so far (`Enough`), and the locks keep it so until the work is
    published (`Held`).  The hypothesis is `Reliable`: neither interrupted waits nor failing
    `get_fences`, because the code ignores both (section 6), and then the order is lost.
- `DisplayCommitProofs`: `ScansIntoEncoder`, `StateReached`, `FlipsAccounted`, `ArmedGetsVblank` and
  `TypeOK`, for both kinds of device, whatever is dropped.  Commits under way share neither crtcs nor
  connectors (`Disjoint`), so the state of a crtc's hardware follows from the phase of the one commit that has
  it (`ScanIs`, `RouteIs`, `Events`): as the old state says, off, or as the new state says; which phases
  these are depends on the device (`CrtcsOld`, `RoutesOff` and the like).  Checks share nothing either
  (`ChecksApart`), so what a check found stays so until it is swapped in (`CheckOK`); and `vm` is the mode of the
  crtc unless a check wrote it since (`VmIs`, `VmDone`).
- `PhysmemOsMemProofs`, for any number of PMRs, pages and slots, any kinds, changes and limits, and a
  failure of every call, with `Misuse = {}`: `PagesAccounted`, `BooksAgree`, `TypesHonoured`,
  `UnpinListExact`, `ReclaimOnlyUnpinned`, `TypeOK`.
  - None of the invariants is inductive without `PmrInv`, which says at each place of an operation how
    the page array and the mapping table of the PMR stand to each other: they name the same slots in
    a PMR at rest (`Settled`); the slots about to be filled are empty and differ (`Asking`); what is
    about to be freed is there (`Freeing`); and what is left of a change names filled slots to free, and
    targets that are all filled or all empty (`Changing`), which the moves made so far must keep.
  - With that, each step takes pages from one kind of place (operating system, pool, task, temporary
    array, slot, lost) to another and leaves all others alone; so each page stays in one place, and in
    one slot, task and pool (`OnePlace`).  Counters follow because slots and pages are as many
    (`PagesInCount`).
  - The limit of the pool holds although a task is queued long before it fills the pool, because the
    task tests the count again under the mutex, where it adds its pages.
  - Destruction after the shrinker emptied the PMR is the only way to `wrecked` (`WreckInv`): every
    other removal from the list finds its entry.
  - `LockInv`, that an unpin holds the mutex to its end, is what keeps the shrinker from an entry that
    is half removed.
- `OsFuncProofs`, about two modules that both model parts of `osfunc.c`; it extends both, which is why
  `OsTimer` names its specification `TimerSpec` and the place of a user `user_pc`:
  - `OsTimer`: `QuietAfterDisable`, `OneChain`, `TimerTypeOK`, for any number of slots and users.  The
    invariant follows the user of a timer through `OSDisableTimer`: with `bActive` cleared no
    execution that begins reaches the callback; after the first flush no older one is left that could
    arm the timer; after `del_timer_sync` nothing queues the work; so what the second flush counts is
    all there is (`HeldOK`).
  - `OsDma`: `NothingDangles` for every fault but `thread` and `empty` (`ThreadStarts`);
    `BusyPagesHeld` and `GivenBack` where `late` and `pin_some` are left out, too (`PagesCounted`).
    These assumptions are on `Faults`, and section 6 says what happens without them.  The invariant:
    the thread exists as soon as a transfer is prepared (`Counts`); the callback that takes the count
    to zero is the only one to notify, and notifies last (`Callbacks`); so `start_cleanup` and a thread
    that has woken add up to one exactly when all transfers are done or the caller has wound the
    request down (`Notified`), and until then nobody has served or freed it (`Ended`).  `Pages` ties the
    references on each slot to the slots in use, through the pairs of a sparse transfer.

Assumptions are the named `ASSUME`s on constants; TLC evaluates them in the runs.  The theorems about
`OsDma`, and `FencesFit` and `KeepsOrder` of `PvrBufferSync`, assume what was said above of `Faults`,
which the run's faults satisfy; those about `PhysmemOsMem` assume `Misuse = {}`.  There the run goes
further: `taken_slot` is model-checked and not proved, and with `unpin_empty` some of them are false
(section 6).

Where references are counted the sets of fences, contexts, kicks and merges are assumed finite.

Only model-checked: every liveness property (fairness and `ENABLED` are out of the prover's
reach): `CallsReturn`, `RequestEnds`, `TimersServed`, `NobodyStuck`, the freeing of contexts, the
signalling of watched fences and the closing of software timelines.

## 5. Not modelled

- The parts listed `not_modelled` in `PROJECT.json`, with the reason there: not yet reached, or
  thin wrappers around one kernel call, register programming and text.
- The binary core.  Its checkpoints, notifier, PMR locks and cleanup thread appear as external
  actions, read off their use.
- In modelled files: allocation failures that undo all they did; names and statistics; bytes of
  memory; the capacity of a reservation object inside Linux.

## 6. What the models found

Where the code does other than its comments say or than one would expect, the module keeps the
statement as a definition that is false of it, or leaves the path out of its runs by a constant.

- `pvr_sync_file.c:340`: two kicks on a fresh timeline both create its hardware context; one is
  lost, although the comment says "First time".  `PvrSyncIoctl!ContextCreatedOnce` is false.
- `pvr_buffer_sync.c:292, 312`: the result of an interruptible wait is not used; a signal lets a
  kick run before the fence it waits for.  `PvrBufferSync!WaitsComplete` is false.
- `pvr_buffer_sync.c:552`: references on checkpoints "dropped later by kick code" that never sees
  them.  `PvrBufferSync!CheckpointRefsDropped` is false.
- `pvr_buffer_sync.c:207, 276`: with fault `get_fences` the array of check fences is too small or
  dependencies are lost.
- `physmem_osmem_linux.c:3004`: destruction acts on a page count it read without the mutex.  When the
  shrinker empties the PMR between there and 3024, `_RemoveUnpinListEntryUnlocked` finds no entry, its
  loop cursor is the list head, and `OSFreeMem` (421) frees memory around `g_sUnpinList` that was never
  allocated; then an empty PMR is freed, against the assertion at 2670.  `page_pool` reaches it;
  `UnpinListExact` says that nothing else does.
- `physmem_osmem_linux.c:2481`: a sparse change that asks for a page in a slot that has one is refused
  (2283), but when the pool had pages for the slots up to this one the error path empties it, and its page is
  lost while count and mapping table still have it; the comment at 3597 says that such errors are
  handled.  `page_pool` reaches it; `BooksAgree` says what the tables show then (`PageDropped`).
- With `Misuse = {"unpin_empty"}`, a PMR that is unpinned without pages stays on the list when it is
  pinned (3453).  Whether the core ever does this cannot be read from the sources.
- `OsDma`, faults `late` and `pin_some`: when a sparse transfer cannot be prepared after its first
  page, the error path counts slots from `valid_idx` instead of `2 * valid_idx` and puts earlier
  pages once for each round; when only some pages can be pinned these stay pinned.  Fault `thread`:
  the result of `kthread_run` is not looked at.  Fault `empty`: the first transfer, sparse and without
  valid pages, starts no thread, and the request is never cleaned up.
- `osfunc.c:2140`: the cleanup thread reads `sync_completion` before it waits; if it does so before
  the caller has stored it, the caller waits for ever.  `OsDma!RequestEnds` makes this exception.
- `mtgpu_drm_dispc.c:450`: `mode_fixup` writes the new mode to `ctx.vm` when a commit is checked, not
  when it is carried out.  If the commit is dropped (it was a test, a later check failed, `-EBUSY`, an
  interrupted wait), or is checked while the commit before it is in flight, an enable that comes between
  (480) programs a mode that is not its own.  `StateReached` excepts the crtcs this happens to (`astray`)
  and says that nothing else programs a wrong mode.
- `pvr_sync_file.c:205`: a foreign fence or a software point that never signals wedges the work behind it;
  closing a software timeline is what prevents it (`PvrCountingTimeline`).  `WaitsForQueued` says that
  nothing of the driver's own does.

## 7. Plan

Done: gate, path of a kick through `pvr_sync_file.c`, fences, software timelines, buffer sync, page
pool, timers, DMA transfers, display commits.  Next, most important first:

1. Life cycle: `module_common.c`, `pvr_platform_drv.c`, `pvr_drm.c`, `mtgpu_drv.c` with suspend and
   resume of `pvr_dvfs_device.c`; failures at every step of init, and the work queues at deinit.
2. Video unit: command queues, completions, close.
3. HDMI hot plug and audio; the rest of the display (writeback, cursor, dummy crtc, suspend).
4. Event objects and MISRs of `osfunc.c`; mapping counts of `pmr_os.c`.

Liveness of display commits (each returns, each event is sent) was found to hold on an instance
with one mode; it takes several minutes and is not among the runs.

## 8. Running

`tlc -config <run>.cfg <module>.tla` with the pairs of `PROJECT.json`; `tlapm` on the eight
modules whose names end in `Proofs`.
Every run takes less than five minutes on two workers.
