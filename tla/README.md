# Magic Lantern 70D: TLA+ models and proofs

Models of the concurrent and stateful parts of Magic Lantern for the Canon 70D,
checked with TLC on small instances and, where stated, proved with TLAPS for all
values of the constants. Paths are relative to the repository. Every definition
that models code is listed with its source lines under `map` in `PROJECT.json`.

## The system and its parts

Magic Lantern (ML) runs beside Canon's firmware on DryOS, a priority-scheduled
real-time system, on a single-core DIGIC V. Its code is called from its own tasks,
from Canon's tasks (LiveView state machine, GUI, property manager) through hooks
and callbacks, and from interrupts. Shared state is protected by binary
semaphores, by `cli`/`sei`, or not at all. What there is:

| Part | Code | Stateful behaviour | Model |
|---|---|---|---|
| Memory patching | `src/patch.c`, `patch_cache.c`, `cache_hacks.c` | batches with rollback, hook slots, ROM words nailed into a locked cache, re-applied after every flush | `Patch` |
| raw_vid recorder | `modules/raw_video/raw_vid` | event pool and queue, vsync and key producers, stop tasks, one worker, writer tasks, copies with callbacks | `RawVid` |
| Module loader | `src/module.c`, parts of `tasks.c`, `config.c` | load task, lock file over power cycles, shutdown, help strings on request | `ModuleLoad` |
| EDMAC copies | `src/edmac-memcpy.c` | one channel pair for all tasks, callbacks in interrupts, waits that time out | `EdmacMemcpy`, which implements `CopyService` |
| Shoot and SRM memory | `src/exmem.c` | asynchronous allocation with late callbacks, autodetection, SRM buffers, shutter lock | `ShootMem`, `SrmMem`, composed in `ExMem` |
| Callback registry, notification box | `src/ml-cbr.c`, `notify_box.c` | lists in growing pools under a lock, hand-over to a drawing task | `MlCbr`, `NotifyBox`, composed in `CbrNotify` |
| mlv_lite, mlv_rec, raw_vidx recorders | `modules/raw_video` | slots, capture, compression, writers | planned |
| Memory backend | `src/mem.c` | choice of an allocator, guard zones | planned |
| Properties | `src/property.c` | registration, acknowledgements, waits | planned |
| Lens, focus, shooting, power saving | `lens.c`, `focus.c`, `shoot.c`, `powersave.c` | scripts over properties | after the property manager |
| Menus, drawing, fonts, overlays, raw geometry, sensor timing, audio, boot, debugging, PTP, other modules | rest of `src/` and `modules/` | user interface, pixel and register arithmetic, straight-line code | not modelled |

The parts interact as follows: modules are brought up and taken down by the module
loader; modules such as `crop_rec` patch the firmware through `patch.c`; the raw
recorders copy frames by EDMAC, through the shared semaphore of `edmac-memcpy.c`, into
memory that `exmem.c` borrows from Canon's code; modules register named callbacks, which
run under the registry's lock and may post to the notification box.
`PROJECT.json` lists every part with the reason where it is left out, and the
hazards: what can go wrong in each part that a test would hardly reach.

## Plan

Done: the models above, with proofs of every safety property that TLC checks on them.

Next, by the hazards they carry:

1. `property.c`: an acknowledgement taken for that of an older request
   (`property.c:387`), registration while properties arrive.
2. `mlv_lite`: slots between vsync, compression and writing tasks, and what of
   `mlv_rec` and `raw_vidx` differs.
3. `RawVid` on top of `EdmacMemcpy`: the recorder's abstract copy as a refinement of
   the shared channels.

## The models

### Patch

State: `patches` is `patches_global[]`; `locked` and `cached` are the locked cache
segments word by word (lines by `Index` and `Tag`, so that words share lines and lines
compete for a place); `ram`; `stale` are the words that the instruction cache may still hold
of RAM code rewritten since the last flush, by address;
`hooks` is `function_hooks[]`. Public calls run between `cli` and `sei` on one core, so
they do not interleave; `pc` walks one call through its loops: `apply` (the batch),
`push`, `reapply` (all ROM patches after a flush), `check` (lock still needed?),
`rollback`, `finish`. `owned` (what was patched when the call began), `named` (the addresses
the call was given) and `fault` are history for the properties.
`CanonWrite` lets the firmware overwrite RAM between calls.

Limits: a caller does not use an array again after `apply_patch` has rewritten its
addresses; any free hook slot may be chosen (the code takes the first); the
relocation of a single instruction (`reloc_instr`) is left out.

Instance (`MCPatch`): four ROM words, of which two share a line, one competes for the
same place and one cannot be faked by lockdown; a RAM instruction and a RAM datum; two
values; one hook slot; at most 3 patches and batches of 2. That is enough for a
rollback over a collision, a full list, a hook that is refused, and a flush with two
patches to re-apply in one line.

### RawVid

State: `type` and `q` are the event pool and the message queue; each task has a
program counter and the event in its hands (`vpc`/`vev` the vsync callback, `kpc`/`kev`
the key handler, `spc`/`sev` the stop_com tasks, `wpc`/`wev` the worker); `crop`,
`cur`, `flush`, `writers` are the two crop buffers and their raw_write tasks;
`edmac_sem` and `dma` the copies in progress, counted by target buffer; `orphans` the raw_write
tasks that a stop left behind; `lv` counts raw LiveView requests. A step runs from one call that
may block or yield to the next, and the steps of all tasks interleave.

When both buffers are full, `crop_buf` is set to NULL and the worker stays active. The next
frame is compared with `crop_buf->end - crop_buf->start` (`worker.c:267`) before `crop_buf`
is tested for NULL (`worker.c:282`). That is undefined; what the build can make of it is a
choice here. The read through NULL yields some size, so the frame may be rejected
(`ImageRejected`); if it passes, either the test is there and a buffer is taken up again
(`ImagePlace`, or `ImageStuck` if that one is still being written), or the compiler (`-Os`)
has dropped the test and the worker goes on with NULL (`ImageLost`). Nothing is
claimed of the worker in state `lost`.

Limits: frames are whole and pixels are left out; the 2 s timeout on `events_sem`,
which is held only inside `get_empty_event`, is left out; the copy uses its own
semaphore here, the shared channels are `EdmacMemcpy`'s subject.

Instance (`MCRawVid`): three events (the code has as many as its queue has places,
which is the assumption that matters), one stop_com task at a time, one retry, buffers
of one frame.

### ModuleLoad

State: on the card `lock` (LOADING.LCK), `en` (the .en files) and `saved` (the settings
in magic.cfg) survive; everything else is lost with power. `tpc` is `module_load_task`
and the init loop, `mq` its message queue, `strings` what each entry's `strings`
points to, `initing` the module whose `init` is running, `spc` the shutdown handlers
(`PROP_TERMINATE_SHUT_REQ`, and `PROP_ABORT`, which calls `module_shutdown` twice), which run in
the property task while `module_task` may still be loading. The test of an entry and the call of
`init`, and the test, the call of `deinit` and `valid = 0`, are steps of their own. `Crash` may come
at any point, a shutdown may be cancelled, and the card may refuse to make or to remove the
lock file.

Limits: the user does not work in the menu before `module_task` has looked at the lock
file, nor during a shutdown (`MenuUsed`); linking is one step that may fail; `module_task` goes on
after `ml_shutdown`, which ends its `TASK_LOOP`; `unmount_sd_card`, which unloads modules too, is not
built for the 70D.

Instance (`MCModuleLoad`): one module with a deinit routine and a queue of three
messages, which covers every order of requests for its strings.

### EdmacMemcpy

State: the two semaphores, `cbr` (whose callback is registered), `pc` of every task and
recorder, `running` (copies in progress), `done`, and `late` (some wait has timed out).
Tasks wait with a timeout of a second; recorders clean up in the callback. A copy that
timed out goes on, and `Interrupt` then runs whatever is registered. Copies that the
channels cannot do are made by the CPU and a finished copy is simulated (`SmallCopy`).

Limits: resource locks against Canon's own use of the channels and the geometry of the
rectangles are left out; `edmac_memset` is a task like any other.

`CopyService` is what the callers rely on: one user at a time, who leaves with the data
in place, until the service gives up on a copy for the first time. `EdmacMemcpy` implements
it (`ImplementsService`): the user is the one between the start and the end of a copy
(`ServedBy`), `copied` is `done`, and `given_up` is `late`. After a timeout the abstract
service promises nothing, and neither does the code.

Instance (`MCEdmacMemcpy`): three tasks and two recorders, so that a late interrupt can
meet a copy of either kind while others of both kinds wait.

### ShootMem, SrmMem and ExMem

`ShootMem` has `mem_sem` and the one `call` that runs under it, `alloc_sem` and `free_sem`,
`suite_info` (the `alloc_msg_t` shared with the callback), what tasks hold (`own`), and
Canon's resource manager RscMgr, an external task: its message `queue`, the allocations it
has put aside (`waiting`), the `suites` it has given out and the callback it is running
(`granting`); `Memory` is what suites take, MB by MB. `call.next` says what the result of
the current allocation is for, which is how autodetection's sequence of backup, tests and
final allocation runs through the same actions. `SrmMem` has `srm_buffers` and
`srm_allocated`, Canon's view of the buffers given out (`srm_out`: for each, the older ones
still out), the shutter lock as this file sets it, and whether a picture is being taken
(`job_state`), which changes at any time. `ExMem` lets tasks use both.

Assumed of Canon's code, which is not in the repository: RscMgr serves its messages in
order, one at a time; an allocation that does not fit is put aside until it does (these
may be served in any order), and a suite has the size that was asked for; SRM memory comes
buffer by buffer, at least `SrmLeast` of them, until all is taken, and then Canon's code
locks the shutter itself (the comment in `srm_alloc_internal` says so). Nothing is assumed of
the shutter lock. The comment at `exmem.c:440` hopes that it keeps pictures from being taken while
SRM memory is borrowed, but the code cannot tell: a press that came before it is not stopped
("gui_uilock doesn't seem to work in this case, because shutter is already pressed",
`silent.c:1004`), `job_state` may follow the button later than the 50 ms between the two checks
(`lens.c:788`, and `lens.c:1136` waits up to 2 s for it), `UILOCK_SHUTTER` is shared and others
reset it (`silent.c:1181`, `movtweaks.c:333`), and after a timeout `srm_alloc_internal` unlocks it
with buffers in hand. So no property says that pictures and SRM memory exclude each other.

Limits: `mem_sem` is taken and given by `mem.c` around each call, as modelled; sizes are in
whole MB, like those the code tests; suites are sizes, their chunks are left out but for the
largest contiguous one; `_srm_malloc` is `_srm_malloc_suite` of one buffer, and where the
size is too large it is followed by the free. `Next` stops at `crossed`, explained below.

Instance (`MCExMem`): memory 4 with a contiguous piece of 2 and a backup of 2, so that
autodetection finds a size short of the whole; one task that autodetects, one that asks for
contiguous memory, both use SRM memory; two `alloc_msg_t`, so that one late answer can be
outstanding while another request is made; three SRM buffers.

### MlCbr, NotifyBox and CbrNotify

`MlCbr` has the pool of records (`cbr_record_pool`: event name and list of nodes), the number
of node `arenas` and of nodes `used`, the lock, and the `walk` of each task in
`ml_notify_cbr`, one callback at a time. `NotifyBox` has the globals of `notify_box.c` by
their names, the drawing task (`npc`), what is on the `screen`, the `redraws` in the queue of the GUI
task and the tasks inside `NotifyBox` (`nb`, `arg`). `redraw()` only posts an event
(`zebra.c:4004`), which a shutdown drops (`gui-common.c:688`); the screen is wiped when the GUI task
comes to it, and the drawing task goes on meanwhile. (`_redraw_do` does nothing before ML has
started, and has the menu drawn instead when it is open; the model has the screen wiped.) Every
access to a global that another task can see is a step of its own, because `notify_box_main_sem` keeps posters from each other but not from the drawing
task. `CbrNotify` composes the two: a callback that posts waits for `notify_box_main_sem` while
`ml_cbr_lock` is held.

Instance (`MCCbrNotify`): two events and record arenas of one, so that an event is refused;
node arenas of one, of which there are two; two callbacks, one of which posts; two posts.
`BoxGoesAway` depends on posts coming to an end (`MaxPosts`): the box stays as long as
somebody keeps posting.

`DryosTasks` declares the tasks that `ShootMem`, `MlCbr` and `NotifyBox` share.

## What TLC checks

| Run | States | Result |
|---|---|---|
| `patch` | 841,999 | All eight invariants hold: ROM patches on the list stay in effect through every flush, undo and rollback (`RomPatchesInEffect`), originals are the ROM's (`RomOriginalsRecorded`), the cache is not left locked (`LockReleased`), nothing the CPU may execute, stale cache contents included, jumps to a slot of another address, and no slot leaks (`NoDanglingHook`, `NoLeakedHook`), errors roll back except for RAM code (`RollbackCompleteButRamCode`), a call takes off the list only patches at addresses it was given (`OthersKept`). |
| `patch_all_or_none` | violation | "either apply all patches or none" (`patch.c`) fails: patches of RAM code stay on the list when a later patch of the batch is refused. |
| `patch_code_flushed` | violation | RAM code is written and left unflushed when a call returns, against "will flush the instruction cache later". |
| `raw_vid` | 386,439 | An event has one owner (`OneOwner`), posting never fails (`PostNeverFails`), posted events stay as they are (`PostedFrozen`), there is one copy at a time, also over sessions (`CopyExclusive`), no buffer is written to the card while a copy fills it (`FlushSafe`), frames go to buffers that no writer of the session has, and none of an earlier session shares one with it (`PlacedInFreeBuffer`), LiveView requests are paired (`LvPaired`), a queued stop ends the recording unless the worker is lost (`StopObeyed`). |
| `raw_vid_re_enabled` | violation | `prevent_recording` can stay set with the recorder inactive, against "Consumer will re-enable recording when it is ready". |
| `raw_vid_leak` | violation | An event can be lost from the pool, against "or we will leak events and starve the queue". |
| `module_load` | 1,561,978 | Once a module has run, a crash keeps modules from being loaded until a clean shutdown (`CrashSkipped`), skipping has a cause (`SkipExplained`), strings that are freed were read from files, or were those of an unloaded module (`FreedStrings`), no module is deinitialised twice in a session (`DeinitOnce`). |
| `module_skip` | violation | Modules can be skipped after a clean shutdown. |
| `module_toggle` | violation | Switching a loaded module off keeps it from being deinitialised at this shutdown, against "Won't take effect until next restart". |
| `edmac_memcpy` | 88,331 | Copies exclude each other and who gets past the wait has its data, until the first timeout (`OneCopy`, `CopiedWhenFinished`), the copies implement `CopyService` (`ImplementsService`); the channels become free again even after timeouts (`Released`). |
| `exmem` | 308,800 | No suite is lost, freed twice or held by two however late the answers come (`SuitesAccounted`), what autodetection finds can be had (`AutodetectFits`), SRM buffers are nobody else's and go back in order (`SrmBuffersSafe`), the shutter is locked while they are taken and does not stay locked with nobody to unlock it (`ShutterReleased`), `mem_sem` does not stay taken (`MemSemReleased`). |
| `cbr_notify` | 321,022 | Lists hold what was registered, by priority, and no node leaks (`RegistrationsKept`), no callback runs once its removal has returned (`RunningIsRegistered`), no older text stays under the latest message (`BoxShowsMessage`), which is drawn if it was handed over while the task waited (`WaitingMessageShown`), and goes away (`BoxGoesAway`); the registry's lock is released although callbacks wait for the box (`WalkEnds`). |

`findings` in `PROJECT.json` quotes the comment each violation contradicts. Two findings belong to
passing runs: `doc/ramdump.md` says of LOADING.LCK "Exists only during module load", while the
code keeps it until the shutdown, which is what `CrashSkipped` rests on; and the use of a NULL
`crop_buf` in `worker.c:267`, which is why `StopObeyed` has an exception. For every
property of a passing run there is a mutant (a `\* Mutant` definition beside the
original) under which TLC finds the property violated.

`OneCopy` and `CopiedWhenFinished` are conditional on `~ late` because the code gives no
such guarantee afterwards: a completion that arrives between the end of the wait and the
unregistering of the callback leaves a token that ends the next wait too early.

### What the conditions in the properties stand for

Several properties hold only under a condition, and each condition is a behaviour of the
code that the model has and the property leaves out:

- `crossed` (`exmem.c:181`): an answer that comes after the wait has timed out and before
  the caller has said so in `alloc_msg_t` is seen by neither side as the other's to clean
  up. The suite is lost, and its token in `alloc_sem` ends the next allocation's wait at
  once, which then frees an `alloc_msg_t` that RscMgr still uses. The model stops there.
- `NullFree` (`exmem.c:90`): `shoot_free_suite` with a null pointer asks for no free and
  waits for its answer forever, with `mem_sem` taken. `silent.c:1036` passes on what
  `shoot_malloc_suite_contig` returned without looking at it.
- `wpc = "lost"` (`worker.c:267`): see `RawVid` above.
- `deinits # {}` in `FreedStrings` (`module.c:1273`): a module that a shutdown has unloaded is no longer
  valid but its `strings` still point into the linked code, so if the shutdown is cancelled and the
  menu opened, `module_task` frees memory that was never allocated.
- `untidy` in `SkipExplained` (`module.c:1990`): the shutdown left a changed setting unsaved, came before
  `module_task` had made the lock file, or the card would not remove it.
- `refused` and `Running` in `CrashSkipped`: the card would not take the lock file, whose creation
  nobody checks, or a shutdown has begun and removed it.
- `ml_shutdown_requested` in the properties of the box: redraws are dropped from then on.
- `WaitingMessageShown` starts from a task that waits: a message posted between the end of the
  loop and `notify_box_timeout = 0` (`notify_box.c:52`) is never drawn.
- `raced` (`exmem.c:467-472`): when the second check of `srm_alloc_internal` finds a
  picture being taken, it returns with the shutter locked, until buffers are freed again.
- the buffer kept as use-after-free (`exmem.c:499-506`) is safe only while nobody gives
  back `shoot_full_suite`, which nothing enforces; `SrmBuffersSafe` excepts it. With fewer than
  two SRM buffers `srm_allocated` would stay set; the assumption `SrmLeast` rules that out.
- `late` in `OneCopy`, `CopiedWhenFinished` and `given_up` in `CopyService`: after the first timeout they
  claim nothing, as said above; only `Released` goes on to hold.
- `RegistrationsKept` holds while the first arena of records suffices: the record that an
  expansion of the pool provides gets no name, so its callbacks are never found again.

### Fairness

- `RawVid`: the worker, a raw_write task that was created, and stop_com tasks run when
  they are ready, which DryOS's scheduler gives them; the worker and the start of
  raw_write share one condition because on one core only that some of them runs is
  needed. Nothing is assumed about key presses, vsyncs, the end of copies or card writes.
- `EdmacMemcpy`: a task that holds the channels goes on (its wait ends by itself after a
  second), and a recorder's copy ends in an interrupt. The last is an assumption about
  the hardware that the code itself makes: nothing else would release the semaphore.
- `ExMem`: RscMgr serves its queue, and a call goes on (`take_semaphore` with a timeout
  returns, `msleep` ends). Nothing is assumed about when callers ask, or about whether an answer comes before the timeout.
- `CbrNotify`: the drawing task runs, the GUI task serves its events, and a task inside
  `NotifyBox` or in a walk goes on.
  That is weak fairness of each task; `notify_box_main_sem` and `ml_cbr_lock` need no strong
  fairness, because the properties ask only that locks are released and the box is served.
- `Patch` and `ModuleLoad` claim safety only and assume no fairness.

## What is proved

Nothing is assumed but the `ASSUME`s named below, which TLC evaluates on the instances;
every other fact is proved. Each theorem rests on an inductive invariant that TLC checked
on the instance first.

`PatchInvariant` states the invariants; the proofs are in `PatchProofs` (types, the list, the
locked cache, ROM patches, then hooks and rollback). They are for any set of words, any
placement in cache lines, any requests and limits (`PatchAssumption`: the kinds of values are disjoint, requests
carry plain values):

- `TypeCorrect`: `Spec => []TypeOK`, including that `patches_global[]` never holds more
  than `MAX_PATCHES` entries. `TypeOK` alone is not inductive: the push after a flush
  relies on what was checked before it, which `PushInv` records.
- `PatchesStayInEffect`, `OriginalsRecorded`, `CacheUnlocked`: the invariants
  `RomPatchesInEffect`, `RomOriginalsRecorded` and `LockReleased`. The inductive
  invariant `IInv` adds: addresses on the list are distinct and real ROM patches of one
  cache never compete for a line (`ListInv`); the locked cache holds whole lines, its
  words are the ROM's or those of a patch on the list, and the patches already walked
  are nailed (`CacheInv`); when the lock is held (`LockInv`). This is why
  `reapply_cache_patches` needs no collision check of its own: the first application
  made it, and no later call can bring a competitor onto the list.
- `FlushSucceeds`: `reapply_cache_patches` never returns an error. Its error path is dead
  code, and the next theorem rests on it: after such an error `apply_patches` would roll back
  and the hook's slot be wiped, although a jump written to RAM code stays (`rollback` leaves
  RAM code alone, finding `AllOrNone`).
- `HooksInPlace` and `HooksOwned`: `NoDanglingHook` and `NoLeakedHook`. `HookInv` follows the
  slot of a hook being placed through the call: it is filled until its patch fails, nothing
  jumps to it before the patch is applied or once it has failed, and every other slot in use
  belongs to a patch on the list. `StaleInv` is about what an unflushed instruction cache may
  hold: a jump left there leads to a slot that is still free, because `patch_hook_function`
  flushes before it fills one. (That `unpatch_memory` may return without a flush is
  the finding of `patch_code_flushed`.)
- `FailuresRolledBack`: `RollbackCompleteButRamCode`. `RollInv` says that a patch this call
  has put on the list is in effect, and that the rollback will still come to it unless it is
  one of RAM code.
- `OthersSpared`: `OthersKept` (`NamedInv`: what has gone from the list since the call began
  was at an address the call was given, and the rollback walks only such addresses).

`RawVidProofs`, for any number of events, stop tasks, buffers and retries
(`RawVidAssumption`: the pool is finite):

- `TypeCorrect`, `EventsOwned` (`OneOwner`), `PostsSucceed` (`PostNeverFails`) and `EventsFrozen`
  (`PostedFrozen`). `EventInv` says that the queue holds
  no event twice and none that is free or in somebody's hands. A task about to post an event
  therefore finds the queue shorter than the pool, which is as long as the queue: the
  pigeonhole principle for sequences without duplicates.
- `CopiesExclusive`, `FlushesSafe`, `FramesPlaced` and `LvRequestsPaired` (`CopyExclusive`,
  `FlushSafe`, `PlacedInFreeBuffer`, `LvPaired`). `BufInv` ties the worker, the copies and the
  writer tasks to the two crop buffers; `StopInv` follows a stop: behind it comes at most the one
  frame that vsync was working on, so a session started after it never fills a buffer and never
  has one written. That is why a `raw_write` task orphaned by a stop shares its buffer with no
  writer of the session, the last clause of `PlacedInFreeBuffer`. It may well share it with that
  one frame: when it ends it resets `cur` of a buffer in which the session has placed a frame
  (`worker.c:198`), and nothing here excludes that. The clause depends on `prevent_recording` never
  being reset, the finding of `raw_vid_re_enabled`: were that mended alone, an orphaned writer and
  one of the new session could have the same buffer.

`ModuleLoadProofs`, for any modules and any length of the queue:

- `TypeCorrect`, and `OnlyOwnStringsFreed` (`FreedStrings`). `HelpInv` is about the
  order of the queue: requests of the menu are queued while the strings are as they ask for,
  so those to free the strings of a module come behind those to load them, or the other way
  round, and none are queued to free the default strings. `LinkInv` says when a
  module with linked strings is valid.
- `CrashesSkipped`, `SkipsExplained` and `NoSecondDeinit`: the action properties `CrashSkipped`,
  `SkipExplained` and `DeinitOnce`, over power cycles. `LockInv` says at which places of
  the load task and of the shutdown the lock file is on the card; `UnloadInv` that an entry whose
  `deinit` was called is no longer valid, or is the one being unloaded.

`EdmacMemcpyProofs`, for any number of tasks and recorders:

- `TypeCorrect`: `Spec => []TypeOK`.
- `CopiesExclude` and `FinishedIsCopied`: `OneCopy` and `CopiedWhenFinished`. The
  inductive invariant ties each program counter to the semaphores: who is between start
  and cleanup is alone and holds `edmac_memcpy_sem`, a copy in progress is that of the
  registered callback, and a token in `edmac_read_done_sem` belongs to the task that
  waits for a finished copy.
- `ServiceImplemented`: `Spec => Service!Spec`, the refinement of `CopyService`. With the same
  invariant every step is one of the abstract service or leaves it alone (`ServiceStep`);
  lemma `Served` says that the user is determined: whoever is between start and end.

`ExMemProofs` and `SuiteProofs`, for any tasks, sizes and numbers of suites, `alloc_msg_t` and
buffers. The assumptions are that amounts of memory are positive and the margin is no larger
than the backup (`ShootAssumption`), that sizes asked for are numbers (`SizesAssumption`), and
that there are at least two SRM buffers (`SrmAssumption`). `ExMemInvariant` states the invariants
about suites; `ExMemProofs` has the lemmas about single steps, `SuiteProofs` the theorems.

- `ShutterUnlocked`: the invariant `ShutterReleased`. `LockInv` says what holds at each place of a
  call that locks the shutter: locked from the first check to the end of the loop; outside
  these places a lock stands for allocated buffers or a failed second check; and a call is in
  progress exactly while `mem_sem` is taken, so that no other call can unlock the shutter half-way
  through this one. That allocated buffers mean a task that has one comes from `AllocInv` below:
  the last place with a buffer is known (`Last`), and `_srm_malloc_suite` hands out from there.
- `SrmSafe`: `SrmBuffersSafe`. `SrmInv` ties `srm_buffers` to Canon's view: place i is empty or
  has buffer i, used exactly if one task has it (`PlaceInv`); given out are the buffers that are
  in place and not freed early, each after all lower ones (`OutInv`), so a walk from the first
  place to the last frees them in order; and when there are buffers, and used ones (`AllocInv`).
- `SuitesKept`: `SuitesAccounted`. The statement counts places; `ShootInv` says for each suite that
  it is in one place, or in the queue to be freed, or not given out (`PlacesInv`). For a step to keep
  that, more is needed: RscMgr has each `alloc_msg_t` once and unanswered (`PendingInv`), the call that
  waits still owns its `alloc_msg_t`, a late callback is one whose caller has given up, and a
  token in `alloc_sem` is the answer to the call that waits (`WaitInv`), and there is an `alloc_msg_t`
  for each request the call still makes (`SpareInv`). An answer that crosses the end of its wait
  breaks `WaitInv`, which is why nothing is claimed after it.
- `DetectedFits`: `AutodetectFits`. `SizeInv` adds the sizes: what a call asks for is the backup,
  the size it tests, or at most what it has found (`Sized`); what was granted has the size that
  was asked for at every place on its way (`AskedInv`); and RscMgr has given out no more than
  there is (`CapInv`). A test that works takes its memory besides the backup and all that callers hold, and
  the three are disjoint by `PlacesInv`; so what is found fits besides what others hold, after
  backup and tests have come back. Memory is counted MB by MB, as the size of a set of
  pairs, because the provers can reason about the size of a set but not about a sum over one.
- `ExMemTyped`: `TypeOK` of `ExMem`, from all of these.

`CbrListProofs` and `CbrNotifyProofs`, for any events, callbacks, priorities, pool sizes, tasks and
messages (`CbrAssumption`, `BoxAssumption`, `CbrNotifyAssumption`: the pools are not empty, a box
stays for at least two ticks, the loader is a task). `CbrListProofs` has the data: where the searches
of `ml-cbr.c` end, what inserting and removing a node does to a sorted list, to the number of
nodes and to the number of entries of a callback, and how a record is found or made.

- `TypeCorrect`: `TypeOK` of `CbrNotify`.
- `RegistrationsListed`: `RegistrationsKept`. `CbrInv` counts: each list is sorted and holds a
  callback at most as often as it was registered, the lists have at most as many nodes as are in
  use, and both numbers are equal while the first arena of records suffices (`CountInv`).
- `RunningRegistered`: `RunningIsRegistered`. `WalkInv` says that a walk has the lock and is at a
  node of its record while a callback runs. Registering and unregistering need the lock, so
  the list under a walk stays as it is, even when the pool grows.
- `MessageShown`: `BoxShowsMessage`. Posters exclude each other but not the drawing task, so the
  globals change under it. `ShowInv` says that the screen shows nothing but the message unless a
  redraw is asked for (`notify_box_dirty`), a poster between writing the message and asking for one
  is about to (`Unmarked`), or the GUI task has yet to serve one (`WipePending`); an older text may
  stay at the head of the loop only when the time is up and nobody can prolong it. A request in the
  GUI task's queue is lost only to a shutdown, which is why the wipe may come at any later time.

Only model-checked:

- liveness (`StopObeyed`, `Released`, `MemSemReleased`, `WalkEnds`, `BoxGoesAway`,
  `WaitingMessageShown`): fairness is outside the prover's reach;
- the violations, which are counterexamples.

## Not modelled

- Planned: `property.c`, `mlv_lite` and its relatives, `mem.c`; see the plan.
- Frames and files: what recorders write is a matter of contents, for which `RawVid` has
  whole frames only. The orphaned writers of `worker.c:478` and the give-up of
  `event_pusher.c:164` happen in the model and nothing is claimed against them.
- Races the code does not guard against at all: the menu's reads of the module list
  (`module.c:1869`) and callbacks during unloading (`module.c:778`). That a shutdown deinitialises a
  module which `module_task` has just found valid, and whose `init` then runs (`module.c:541`), happens in
  the model, and nothing is claimed against it.
- Menus, drawing, overlays, image and register arithmetic, boot code, debugging aids, PTP,
  and the scripts of lens, focus and shooting: sequential code, pixels, hardware registers
  or Canon's answers, in which a model would repeat the code.
- The emulator (`qemu-eos`), host tools and tests make up most of the lines in the
  repository and are not part of the program on the camera, nor are the ports to other
  cameras. The models therefore stand for a small share of the repository's lines: the
  concurrent and stateful core of what runs on a 70D.

## Running

    tlc -workers 2 -config MCPatch.cfg MCPatch
    tlapm PatchProofs.tla         # and every other module whose name ends in Proofs

Each run of `PROJECT.json` names its module and configuration; every passing run takes
about a minute or less, `cbr_notify` with its liveness properties about three. The proofs
of `ExMemProofs` and `SuiteProofs` take about twenty minutes each, the others less.
