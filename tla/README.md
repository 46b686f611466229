# xtensa_dsp: a verification development of the XRP driver and library

The repository contains the host side of XRP, the remote-processing stack that
lets Linux programs run commands on Xtensa DSP cores: a kernel driver
(`driver/xrp-kernel`), the user library on top of it (`driver/xrp-user/xrp-host`)
and a task layer for image processing (`driver/xrp-user/dsp-ps`). The DSP
firmware is shipped as binaries; it appears here only as the other end of the
shared memory. This directory models the core of that stack in TLA+, checks it
with TLC on small instances and proves the central properties of the command
path, the memory pool, the host queues, the files and the device with TLAPS.

Paths below are relative to `src/driver`. `PROJECT.json` lists, definition by
definition, the source lines each definition models.

## 1. The system

| Component | State it keeps | Operations | What is hard |
|---|---|---|---|
| Command path (`xrp-kernel/xvp_main.c`) | per queue a mutex and one command slot in shared memory; `off`, `n_queues`, `reboot_cycle`, `reboot_cycle_complete` | `XRP_IOCTL_QUEUE`: map buffers, fill the slot, wait by interrupt or polling, collect, reboot after a timeout, unmap | several clients time out at once; late answers; a reboot under the feet of the other clients; signals |
| Memory pool (`xrp_alloc.c`) | address-sorted free list under a mutex; reference counts | allocate, get, put, free, fall back to the page allocator | splitting and coalescing in any order; a failing `kzalloc` outside the lock |
| Host queues and events (`xrp_threaded_queue.c`, `xrp_host_common.c`, `hosted/xrp_linux.c`) | request list, worker thread, events with references and a chain of waiting groups | enqueue, wait, wait_any, retain and release, destroy | lost wake-ups; links on the waiters' heaps; the worker destroying its own queue |
| Interrupts and reports (`xvp_main.c`, `xrp_report.c`) | `reporter`, `report_id` and `cmd_flag` in shared memory, the list of report items | interrupt handler, tasklet, create and release, SIGIO handler | tasklet against release; coalesced signals; level-triggered acknowledgement |
| Files and mappings (`xvp_main.c`) | busy list per file, mappings of a request, table of known files | open, close, alloc, free, mmap, share and unshare a block | error paths in the middle of a request; memory of another device |
| Imported dma-bufs (`xvp_main.c`) | list of items with references | import, release, sync | look-up and insertion in two critical sections |
| Life cycle (`xvp_main.c`, `xrp_hw_simple.c`) | clocks, runtime-PM count, boot handshake word | probe, remove, resume, suspend | pairing of enable and disable on error paths; programs that come in before the probe has ended |
| Buffers and groups (`xrp_host_common.c`) | reference and map counts, members of a group | create, map, add, set, get, release | `xrp_get_buffer_from_group` hands out a pointer it does not retain |
| Task layer (`dsp-ps/csi_dsp_core.c`) | tasks, requests, list of outstanding events | create task and request, set buffers, enqueue, dequeue | several threads dequeue; the list is walked without its mutex |
| Address map, log ring, namespace table | lookup tables and ring indices | translate, read the log, find a handler | boundaries |

How they interact. A caller's `xrp_enqueue_command` puts a request on a host
queue; the queue's worker issues the ioctl; the driver maps the buffers (memory
pool, files), posts the command in the slot of a hardware queue and waits for
the interrupt; the answer travels back through the ioctl to the worker, which
signals the event and drops its reference; the caller waits for the event, alone
or together with others. A command that times out makes the calling thread
reboot the firmware for everybody. Reports travel the other way: interrupt,
tasklet, SIGIO, callback.

## 2. The modules

| Module | Role |
|---|---|
| `XrpSubmit` | the command path: clients, queues, DSP, reboot |
| `XrpCommand` | the abstract synchronous command: run at most once, success only with the response of that run |
| `XrpSubmitRefines` | the mapping from the first to the second |
| `XrpSubmitProof` | theorems about them |
| `XrpPool` | the allocator of the private pool |
| `XrpPages` | the abstract allocator: an aligned run of free addresses, refused only when there is none |
| `XrpPoolProof` | theorems about the allocator and its refinement |
| `XrpQueue` | a host queue, its worker, its events and their waiters |
| `XrpChannel` | the abstract queue: an ordered channel |
| `XrpQueueRefsProof`, `XrpQueueProof` | theorems about the queue and its refinement; the first has the invariant and the lemmas about requests and references |
| `XrpAddressMap` | translation between host and DSP addresses, as functions |
| `XrpFile` | open files, device memory, and the areas a request shares with the DSP |
| `XrpFileProof` | theorems about both |
| `XrpBuffer` | buffers and groups of the user library, as functions on a heap |
| `CsiTask` | tasks and requests of the csi_dsp library, on top of `XrpBuffer` |
| `CsiHeapProof`, `CsiTaskProof` | theorems about both; the first has the invariant and the lemmas about buffers and groups |
| `XrpDevice` | probe and remove, power management, open and close |
| `XrpReport` | interrupts, the report channel and its users, on top of `XrpDevice` |
| `XrpDmaBuf` | imported dma-bufs, on top of `XrpDevice` |
| `XrpDriver` | the composition of the last three |
| `XrpDriverProof` | theorems about the last four |
| `MCXrp...`, `MCCsiTask` | instances for TLC: symmetry sets, tables, scopes |

Definitions marked *Variant* in the modules are faulty forms of the definition
that follows them. No specification uses them. Each one breaks a property when
it takes the place of the real definition (`PROJECT.json`, "mutants"), which
shows that the property depends on that piece of the code.

### XrpSubmit

Clients are threads inside `xrp_ioctl_submit_sync`. `pc` names the stretch of
the function a client is in; one action is one stretch between two points where
other actors can interfere:

    idle -Submit-> map -MapRequest-> lock -Lock-> check -Retry-> lock
    check -Proceed-> fill -Fill-> publish -Publish-> wait
    wait -WaitDone-> collect -Collect-> unlock -Unlock-> unmap -Unmap-> idle
    wait -WaitBusy-> count -CountTimeout-> gather -GatherLock*, Halt-> boot
    boot -BootOk | BootNoFirmware | BootSyncFail-> complete -BootComplete-> unlock
    wait -WaitSignal-> unlock

A command is `<<client, serial>>`; payloads are abstracted to this identity,
because every property about answers only asks *whose* answer it is. `body` and
`whole` say which command the fields of a slot describe and whether all of them
are written; `flags` is the word the two sides synchronise on. `Handshake`
models `xrp_synchronize`: its word overlays the flags word of a queue, and a
firmware may accept fewer queues than the device tree names (`n_queues' = 1`).
`held` is the set of commands whose buffers are shared with the DSP. `abandoned`
is a history variable: the queues on which somebody stopped waiting since the
last boot without a reboot (a signal, or `firmware_reboot=0`).

The DSP is external: it picks up a posted request and stores a reply at any
later time, or never.

### XrpPool

`free_list` is a sequence of blocks `[start, size]`, as in the code's linked
list; one walk under the lock is one step. The second `kzalloc` after a split
and the free after the last reference are steps of their own, because they
happen outside the lock. `answer` remembers the last decision so that the
refinement to `XrpPages` can compare it with what was free.

### XrpQueue

One queue with the references of all threads that use it. `event[c].link` and
`links[t][i]` are the pointers of the real chains (`group`, `next`, `prev`), not
an abstraction of them: whether a waiter survives the departure of its
neighbours is a matter of these pointers. The broadcast of an event is the only
critical section that is more than one step: it holds the event's lock
(`Locked`) while it takes each group's lock in turn. Sleeping on a condition is
explicit (`asleep`, `waiting`, `gwaiting`): a wake-up that is not sent is lost.
`DropEvent` includes the destruction of the queue by its own worker, where the
join fails and `sync_exit` ends the thread.

### XrpFile and XrpAddressMap

Threads make system calls through files of two devices. `ref` is the count of
an allocation, `vmas` the user mappings made from it, `busy` the list on which
`xrp_ioctl_alloc` leaves it for `xvp_mmap`. `rq` holds the mappings of a
request, one per slot (`Slots`): input, output, each buffer, the descriptors.
One slot is shared per step, in the order of `xrp_map_request`, as a block of
this driver (`ShareNative`), as memory of another driver (`SharePfn`), by pinning
pages (`ShareGup`) or through a shadow copy (`ShareCopy`); each may fail, and
then the slots that follow keep what `kmalloc` or the stack had in them
(`UnsetMapping`, `HalfMapping`), which `UnmapRequestNowb` reads. Which areas the
DSP reaches follows from the address map of the device, with its bisection.
`PoolOf` says of a block whose pool it is from; `Nil` stands for pages of the page
allocator, to which `xrp_private_alloc` falls back, wherever they are. The
descriptors of a request (`KernelArray`) may cover more than one page, of which
`xrp_share_kernel` looks at the first (`TranslatesFirst`).

### CsiTask and XrpBuffer

One instance with one task. An operation of the library that makes and releases
several buffers is a fold of heap functions (`CreateBuffer`, `AddToGroup`,
`ReleaseBuffer`...), so that the action shows the order of the calls and its
error exits, which for the algorithm calls include those that forget the group
and up to two references to a buffer in it. `enqueue` and `dequeue` are split where the mutex of the event list
is not held: that is where two threads meet. The task's queue and
`xrp_wait_any` are used at what `XrpQueue` shows of them.

### XrpDevice, XrpReport, XrpDmaBuf and XrpDriver

`stage` is how far the probe has come; files can be opened from `misc_register`
on, before the probe has ended. The callbacks of the power management are
functions from a state to its possible outcomes (`RuntimeResume`), because the
kernel, the probe and the removal call them in different places. `clk` counts
the references to the clocks.

The report channel is followed from the DSP's write (`DspReport`) through the
interrupt handler (`IrqEnter`, `IrqReport`, `IrqSchedule`, `IrqCmd`, `IrqAck`),
the tasklet and the signal to the callback. The handler reads `xvp->reporter`
twice, to take the flag back and to schedule the tasklet, and a release may come
in between; where a process meets it in a creation or a release, `Collided`
records the accident. A creation has three steps and a release three,
split where the interrupt handler may run or another process come in between:
`xvp->reporter` is shared and has no lock. What a freed reporter or an unmapped
buffer had in it is dropped (`Freed`, `Forget`), since an access to either is
recorded and nothing is read from them. `rep[r].live` says whether the memory
is a reporter; `wild` records an access to one that is not, and ends the
behaviour. `cause` records five accidents against which the code has no
protection: a second channel (two creations at once are one, whichever process
ends first), a creation that fails, a report interrupt in the
middle of a creation or release, the close of another file in the middle of a
release, and the death of a process that has a channel.

`XrpDmaBuf` has the two critical sections of an import and the look-up, the
detachment and the release of an item as separate steps. `mess` records what the
code has no protection against: an import of a dma-buf that is listed already or
is being imported, and an import that fails after it was listed.

## 3. The runs

| Run | Instance | Shows |
|---|---|---|
| `submit_faults` | 3 clients, 2 queues, 1 command each; signals, both values of `firmware_reboot`, downgrades | the eleven safety properties below |
| `submit_service` | 2 clients, 2 queues, reboots of every outcome, fair | `Returns`; refinement of `XrpCommand` |
| `stale_answer` | 2 clients, 1 queue, signals | **violation**: a late answer completes the next client's command |
| `exposed_buffers` | 2 clients, 2 queues | **violation**: buffers unmapped while the DSP works on them |
| `downgrade_hang` | 2 clients, 2 queues, downgrades, fair | **violation**: mutexes never released |
| `pool` | 2 threads, 6 pages, 3 sizes, 2 alignments | order and accounting of the list; refinement of `XrpPages` |
| `queue` | 2 threads, 2 commands with events, waits for one or two | memory safety, chains, wait_any, order; refinement of `XrpChannel` |
| `waiters` | 3 threads, 1 event, 1 command without event, fair | chains of three: every call returns; the queue is freed |
| `files` | 2 threads, 2 devices with a file each, a block of d1's pool and one of the page allocator, 2 foreign areas, descriptors of two pages, requests with input and output and with 1 buffer | references and pins are accounted for; programs see their own blocks; the DSP reaches what the driver looks at; `TranslationExact` |
| `tasks` | 2 threads and 2 requests; 2 threads, 1 request, 1 block; 1 thread, 1 request, 3 blocks; fair | references to buffers and to the device; where memory errors can come from; the event list; every request comes back |
| `device` | nine scopes, see below | clocks, interrupts, the report channel, callbacks, dma-bufs |
| `dropped_requests` | 1 thread, 2 commands, fair | **violation**: an accepted command is never executed |

Safety of the command path (`submit_faults`). `SlotExclusive`: no two clients
in one queue's critical section. `BootExcludesIo`: nobody is between taking and
releasing a queue's mutex while the firmware boots. `OneRebooter` and
`RebootHasOwner`: of the clients that time out in a cycle at most one reboots,
and the counters differ only while somebody does, so that the retry loop ends.
`AnswerIsOwn`: an answer is the one to the submitted command, unless a command
was abandoned on that queue. `NoTornCommand`: the DSP sees whole commands.
`SilentWhenOff`: once the device is off nobody talks to it. `ExposureEnds`,
`LeakOnlyWhenOff`: what becomes of shared buffers. `NoMutexLeft`: a client
leaves without mutexes. The properties with the condition `Intact` are about a
firmware that keeps serving all queues; `downgrade_hang` shows why they need it.

Host queues (`queue`, `waiters`). `NothingFreedInUse`: whoever drops the last
references, no freed queue, event, link or group is touched. `ChainSound`: the
chain of an event holds exactly its waiters, properly linked. `AnyIsComplete`:
`xrp_wait_any` returns the index of a finished command. `ImplementsChannel`:
commands run once, in order, and outcomes are final. `CallsReturn`,
`QueueReclaimed`: no lost wake-up, no hanging join.

Memory of the driver (`files`). `RefsAccounted`: the count of a block is the
number of its mappings, busy-list entries and sharing requests, plus what is
lost because `vm_mmap` failed or a device went off under a request; pinned pages
likewise. `BusyExclusive`: a listed block has no other user. `OwnMappings`: a
program maps a block only through the file that allocated it, whoever had it
before. `DspReaches`: the whole of a shared area lies in one range of the
device's address map, whether it belongs to another device, to another driver or
to the program. Three kinds of memory are shared without a look at all of it
(`Unchecked`): blocks of the file itself, shadow copies, and descriptors, of
which the first page is looked at; nothing is assumed of where they are, and
the property says of them only what the code does. `TranslationExact`
is an assumption TLC evaluates before the run: for all device trees of up to
three ranges the sorted table and the bisection give what the tree says, and
the translation back is the inverse.

Tasks (`tasks`). `BuffersAccounted`: every reference to a buffer has a holder;
what the error paths of the algorithm calls forget is counted apart, and nothing
else is forgotten. `MemorySafe`: freed or foreign memory is used only after one
of three situations (`slips`): two threads in a dequeue, or an enqueue in its
middle; settings whose buffer could not join the group; more buffers than
`CSI_DSP_MAX_BUFFER`. `Outstanding`: the list, its length and the states of the
requests agree. `Returned`: an enqueued request comes back.

The device (`device`). `PowerAccounted`: clocks and usage count pair up on all
error paths, but for named exceptions. `InterruptNoticed`: with the handler out
and the line low no answer and no report is unseen, except one that came after
the handler had looked. `ReporterSound`: without one of the five accidents no
reporter or report buffer is touched after it is gone. `CallbackOwn`: a callback
gets a report sent under its number, modulo the 16 bits the kernel keeps, unless
a second report overtook the signal. `DmaBufsAccounted`: the driver's references
to a dma-buf, and while nothing goes wrong the list and its items, match the
imports.

Why the bounds are enough to be interesting. In `files` device d2 reaches one
block through two ranges that touch on the host's side and not on the DSP's; the
block of the page allocator and the second page of the descriptors are out of
reach of d1;
`MaxVma` = 2 lets a mapping be copied by a fork; one device (`Fragile`) may go
off, which is where references are lost. In `tasks` memory for one buffer makes
every allocation fail somewhere and three are what one call can use. The
`Scopes` of `device` are one question each, with only what it needs switched on:
power management with two files and two accidents (with and without
`CONFIG_PM`), interrupts with commands, two processes and two channels, kills
with two channels, two numbers that differ in the bits that are kept (1, 2) and
two that do not (1, 5; `IdWord` = 4 stands for 2^16), and up to four imports
(`MaxImport`) of one or two dma-bufs by two files, before and after the end of
the probe. Two queues are the least with
which one client can hold a mutex that the rebooting client wants; three clients
let two time out while the third sleeps on a mutex and retries. The second
command on a queue, which may receive a late answer, comes from another client,
so one command per client suffices. Six pages starting at an odd page give an
alignment gap in front of, behind and on both sides of a block. Two threads and
two events reach every branch of the linking and unlinking loops except the
removal from the middle of a chain, for which `waiters` has three threads.
Symmetry sets are used in runs without liveness properties only.

Fairness. Kernel and library threads are scheduled: weak fairness of the steps
of a call that has begun (a wait ends because `firmware_command_timeout` is
finite). Kernel mutexes are handed over in order: strong fairness of taking one.
Nothing is assumed of the DSP, nor of the moment at which a caller makes a call.
In `CsiTask` the queue's worker and the threads run, and the program goes on
calling `csi_dsp_request_dequeue`, without which nothing can come back.
In `XrpQueue` the ioctl of the worker ends; that is what `Returns` of
`submit_service` shows for the driver.

Deadlock checking is off in `submit_faults` and `downgrade_hang`, where the
driver really can stop, which is what the second of them is about, and in
`files`, `tasks` and `device`, where a behaviour ends once memory is corrupted,
the bounds are used up or the device is gone.

### Disagreements found

* `stale_answer`: the interrupt-mode wait is interruptible and a signal leaves
  the command with the DSP without a reboot; its answer completes the next
  command. `xrp_api.h` promises that success means the command's own response.
* `exposed_buffers`: of two clients that time out, the one that does not reboot
  unmaps its buffers before the DSP is halted. `ExposureEnds` shows that the
  window closes: the reboot is already under way.
* `downgrade_hang`: `n_queues` shrinks during a reboot, between the loop that
  takes the mutexes and the loop that releases them.
* `dropped_requests`: a command without an event holds no reference to its
  queue; when the worker drops the last one, the rest of the list is lost.

Two more have no run of their own; the statements of `DspReaches` and
`BuffersAccounted` are about what the code does instead.

* The comment above `__xrp_share_block` (`xvp_main.c:1390`) says "Areas allocated
  from the driver can always be shared in both directions". For a block of the
  file itself the code takes this for granted (`xvp_main.c:1467`), but the
  block may be pages of the page allocator (`xrp_alloc.c:263`), of which nobody
  knows whether the DSP reaches them, and so may a shadow copy (`xvp_main.c:1278`).
  Outside the address map the command then carries `XRP_NO_TRANSLATION`
  (`xvp_main.c:1990`..`2002`). `Unchecked` is this exception; without it
  `DspReaches` is false in `files`.
* `xrp_api.h:257` says that what `xrp_get_buffer_from_group` returns "must be
  freed with release_buffer". The function returns it without a reference, the
  retain being commented out (`xrp_host_common.c:278`), so a program that
  follows the header releases a reference it does not have. The task layer does
  not follow it (`DropPlane`); the variant `DropPlaneTwice` does, and breaks
  `MemorySafe`.

## 4. The proofs

| Module | Proves about | For every |
|---|---|---|
| `XrpSubmitProof` | the command path and its refinement of `XrpCommand` | set of clients, number of queues, `MaxCmd` |
| `XrpPoolProof` | the pool and its refinement of `XrpPages` | pool, page size, sizes, alignments, threads, `MaxRef` |
| `XrpQueueRefsProof`, `XrpQueueProof` | a host queue and its refinement of `XrpChannel` | set of threads and commands, which of them have no event, outcomes, `MaxArray` |
| `XrpFileProof` | the files, their memory and requests; the address map | threads, files, devices and their maps, blocks, areas, shapes, `MaxVma`; tables of any length |
| `CsiHeapProof`, `CsiTaskProof` | the task layer: requests, buffers and groups, enqueue and dequeue | set of threads, requests and buffers, free memory, `MaxPlanes`, `MaxBuffer` |
| `XrpDriverProof` | the device, the report channel and the dma-bufs together | files, reporters, report numbers, items, dma-bufs, scopes and bounds |

| Theorem | Statement | Rests on |
|---|---|---|
| `TypeCorrect` | `TypeOK` of `XrpSubmit` | - |
| `SlotsExclusive`, `BootExclusive`, `RebooterUnique` | `SlotExclusive`, `BootExcludesIo`, `OneRebooter` | `LockInv` |
| `RebootOwned`, `SilentOnceOff`, `MutexesReleased` | `RebootHasOwner`, `SilentWhenOff`, `NoMutexLeft` | `IntactInv` |
| `AnswersAreOwn`, `CommandsAreWhole` | `AnswerIsOwn`, `NoTornCommand`, assuming `Downgrade = FALSE` | `AnswerInv` |
| `BuffersReturned` | `LeakOnlyWhenOff` | `HeldInv` |
| `ExposureIsBrief` | `ExposureEnds`, assuming `Downgrade = FALSE` | `AnswerInv`, `WorkInv` |
| `SubmitImplementsCommand` | `ImplementsCommand`, assuming `Downgrade = FALSE`, no `Signals` and that every timeout reboots | `AnswerInv`, `WorkInv`, `FreshInv` |
| `PoolTyped`, `ListCoalesced`, `MemoryAccounted` | `TypeOK`, `ListInOrder`, `Accounted` of `XrpPool` | `PoolInv` |
| `PoolImplementsPages` | `ImplementsPages` | `PoolInv` |
| `TypeCorrect`, `NoUseAfterFree`, `WaitAnyCorrect` | `TypeOK`, `NothingFreedInUse`, `AnyIsComplete` of `XrpQueue` | `IndInv` |
| `ChainsCorrect` | `ChainSound` | `IndInv` |
| `RefinesChannel` | `ImplementsChannel` | `IndInv` |
| `Invariance` | `IndInv` of `XrpQueueRefsProof` | - |
| `TypeCorrect`, `MemorySafety`, `OutstandingCorrect`, `BuffersAccountedFor` | `TypeOK`, `MemorySafe`, `Outstanding`, `BuffersAccounted` of `CsiTask` | `IndInv` |
| `Invariance` | `IndInv` of `CsiHeapProof` | - |
| `FilesTyped`, `RefsAlwaysAccounted`, `ListsExclusive`, `MappingsOwn` | `TypeOK`, `RefsAccounted`, `BusyExclusive`, `OwnMappings` of `XrpFile` | `FileInv` |
| `DspReachesAll` | `DspReaches` | `FileInv`, `BisectionExact` |
| `FilesSafe` | `FileInv`: the four above and what makes them inductive | - |
| `BisectionExact` | the bisection finds an entry that holds the address and, in a sorted table, misses none | - |
| `TranslationInverse` | the translation to the DSP and back is the identity, if no two ranges overlap for the DSP and none wraps | `BisectionExact` |
| `DriverTyped`, `PowerBalanced`, `InterruptsNoticed` | `TypeOK`, `PowerAccounted`, `InterruptNoticed` of `XrpDriver` | `DriverInv` |
| `DmaBufsBalanced` | `DmaBufsAccounted` | `DriverInv` |
| `ReporterIsSound` | `ReporterSound` | `DriverInv`, `ChannelInv` |
| `CallbacksOwn` | `CallbackOwn` | `DriverInv`, `CallbackInv` |

No property of these but the types is inductive. Each strengthening stands at
the end of its module ("Strengthenings") or, where a proof needs it only, in
the proof module. The hypotheses of the command path's three conditional
theorems are switches of the model, which exclude what `downgrade_hang` and
`stale_answer` show to go wrong; `submit_service` checks the refinement under
the same ones.

Assumptions on the constants, which TLC evaluates in the runs that extend the
modules. Command path: `NQueueAssumption` (at least one queue),
`ClientAssumption` (the null owner is no client), `SwitchAssumption` (the
switches are Boolean). Pool: `PoolAssumption` (the pool is whole pages),
`SizeAssumption` (a request does not wrap around when it is rounded up, and the
page is no larger than the integer), `ArgumentAssumption` (alignments are
numbers, a block can be referenced). Host queue: `QueueAssumption` (finitely
many threads and at least one, the null pointer is no thread, command or link,
commands end in one way at least, a wait takes a bounded array). Task layer:
`CsiAssumption` (the groups are those of the requests, of the task and of a
call, all different; a buffer is its address, a number, and the null pointer is
none; memory is finite; a buffer has a plane at least, a request room for one
buffer). Files: `WordAssumption` (a word has values),
`FileAssumption` (the null pointer is no file, block or shape; address maps are
tables; a request has at most two buffers), `RunAssumption` (a block is a run
of pages, wherever they are; so are the descriptors). Driver: `ScopeAssumption`,
`ReportAssumption`, `DmaAssumption` (the null pointer is neither a reporter nor
an item nor a dma-buf, report numbers are positive, and a scope stays within
its bounds).

### The command path

1. `LockInv`. A client inside its critical section owns its queue's mutex, and a
   booting one owns those of all queues in use (`LockHeld`). That the rebooter is
   unique follows from the counters (`CountersOrdered`): `reboot_cycle_complete`
   never exceeds `reboot_cycle`, is smaller while a reboot is owned, and a
   client that talks to the DSP saw no later count than it. So a client whose
   increment hits `seen + 1` found both counters equal, and nobody owned a
   reboot.
2. `IntactInv`, under `Intact`. A mutex that is held belongs to somebody who is
   in that queue or rebooting (`LockOwned`); a client that talks saw the current
   cycle (`SeenCurrent`), because a reboot needs its mutex to finish; the core is
   halted when it is booted and once off (`HaltedWhenDue`); and the counters
   differ only while somebody owns the reboot. The layer is conditional because
   a downgrade breaks it; `Intact` can only be lost, so the condition is carried
   backwards over a step (`IntactBefore`).
3. `AnswerInv`. A queue on which the running DSP has anything to do has a client
   that waits for it, or a reboot to come and no client about to use it
   (`QuietUnlessAwaited`); hence a client fills a quiet slot only, and what it
   finds there while it waits is its own command at some stage (`OwnStage`). A
   timed-out command cannot survive the reboot (`QuietAfterBoot`).
4. `HeldInv` and `WorkInv`. Buffers are shared exactly between
   `xrp_map_request` and `xrp_unmap_request` unless the device went off, and
   what the DSP works on is the command of the client that waits. So if the DSP
   works on buffers that were taken back, their owner lost the race to reboot,
   and `QuietUnlessAwaited` says that the winner is under way.
5. `FreshInv`. A command is nowhere in the shared memory until it is posted. The
   refinement maps a command to its run by looking for it in `work`, `reply` and
   the slots, so a command that is not posted must not be found there, and one
   that was taken must not be found a second time.

### The pool

`PoolInv` says the same as `Accounted` address by address: the free list covers
what no allocated, held or lost block covers, and blocks that are not on it
do not overlap. In that form a walk that splits or joins is a statement about one
block and its neighbours. The walk is compared with `XrpPages` by what it
covers: because blocks that touch are always joined, a free run of the pool lies
within one block of the list, and first-fit refuses only if no block has an
aligned run; without coalescing the refinement would be false.

### The host queue

`IndInv` stands at the beginning of `XrpQueueRefsProof`. Its parts:

* `Requests`, `EventStates`: a request is in one place, in the list, at the
  worker or executed, and its event is pending until the worker signals it. That
  nobody executes a command twice, and that an outcome is final, are about these.
* `EventRefs`, `QueueRefs`: a reference to an event belongs to a thread that
  holds it or to the request in the list or at the worker; one to the queue to
  a caller that keeps it or to an event that exists. So the last reference that is
  dropped is the last there is: whoever drops it, no thread is inside a wait for
  that event, and (`End`) the queue is destroyed once, by one thread.
* `Chains`: for each event there is a sequence of links that *follows* the
  pointers: its members are exactly the places of arrays that wait for the event,
  each once, `next` and `prev` agree with its order and the event points at its
  head (`Follows`). A new link enters at the head; a leaving one is cut out,
  wherever it stands, which is what the three branches of the unlinking in
  `xrp_wait_any` have to achieve.
* `Cursor`: while a broadcast holds the event's lock its cursor is in that
  sequence, or at its end. A link can neither enter nor leave then, so the
  cursor never stands in the stack of a thread that has gone.
* `AllNoticed`: a thread whose group was signalled has a complete event in its
  array that it has not unlinked yet, or has its index already. Without it
  `AnyIsComplete` is not inductive: the index is looked for after the wait, event
  by event, while other events complete.

`ChainSound` speaks of the chain that is found by walking along the `next`
pointers (`Chain`), a recursive function. That the walk ends, and that it visits
the sequence of `Chains`, is shown with the first place at which it would not.

### The tasks

`IndInv` stands at the beginning of `CsiHeapProof` and has two halves. The steps of enqueue and dequeue
disturb the first, those on buffers the second. They meet in the status of a
request, in the commands that wait, each of which holds its request's group,
and where corruption of the list is recorded (`wild`).

* `ListInv`: an event is on the list once, and a request that runs is there or
  with exactly one thread that is about to put it there (`Listed`). The list
  outlives corruption: it is a statement about the list and its lock only, so
  `Outstanding` holds without a condition.
* What a thread inside `csi_dsp_request_dequeue` knows of the list it has copied
  (`Knows`): its events are on the list, and the one it found stays complete.
  A dequeue that nobody disturbed is alone, and what it copied is the
  beginning of the list (`Undisturbed`). Hence the index that `xrp_wait_any`
  returns names what it takes off, and no freed event is used: corruption of the
  list needs a dequeue that was disturbed.
* `StoreInv`: as long as memory is intact, no buffer is used after its last
  release, each buffer is in one group, once, the planes of an array name
  different members of its group, and each reference has a holder (`Balanced`):
  membership, mappings, plane, settings, or an error path that forgot it. The
  counts of the library say this of numbers; that a plane can be dropped
  without touching another's buffer follows because the holders are different
  buffers (`Single`, `Different`).
* `Groups`: a group is held by its owner and by the command that carries it, and
  a group nobody holds has no members.
* `Stale`: an address in `sett_ptr` whose buffer could not be added to the group
  may be that of a plane by now, because the pool gives out the address again.
  Releasing the request releases that plane's buffer once more; `MemorySafe`
  says that this is the only way a buffer is used after its release. `Stale`
  follows what such a buffer has left, so that the step that goes wrong is
  the one that records it.

An operation that makes, maps, drops or releases several buffers is a fold in
the model. What a fold computes is shown in two steps: there is a sequence of
intermediate heaps, each from the one before (`OfLoop`, `ReleaseLoop`...), from
the recursive function behind the fold; and the heap at each stage is the first
one with a closed form's changes. If one stage differed there would be a first
one that does, which takes the place of the induction.

That the pool assigns memory first fit (`Fresh`) matters to the runs only: the
proofs use that a call is given different buffers that nobody holds.

### The files

`RefsAccounted` equates a count with the sizes of three sets of users: mappings,
entries of busy lists, slots of requests. Each step adds or removes one element
of one of them, or all the slots of one request; the sets are kept finite
(`BlockCounted`, `PinsCounted`), because `Cardinality` says nothing otherwise,
and the count is kept whether or not memory was corrupted. What makes it
inductive:

* A free block has no users (`FreeBlock`), so that an allocation, or a shadow
  copy, starts with nothing; and a block on a busy list has no other
  (`ListedBlock`), so that `xvp_mmap` may turn the list's reference into the
  mapping's. Lists have no block twice, hence `xrp_allocation_dequeue` takes
  away what it found (`RemoveFacts`).
* `Calling`: the slots a request has yet to share hold nothing. Otherwise
  writing a mapping would forget a reference, and the error path, which unshares
  all slots, would drop one that was never taken.
* `Owned`: what is mapped belongs to the file it is mapped through, and a shadow
  copy to nobody; a file owns blocks of its own device only. A block changes its
  owner only when it is free, and then nobody maps it.
* `Reached`: what is shared is in reach, or of one of the three kinds that are
  not looked at, from the moment it is shared; the map of
  a device does not change, nor does the file of a call. A block shared through
  its own file stays that file's while it is shared, and a copy nobody's, so that
  the exceptions do not spread over a request's life. For a block through
  another file the code looks at the first and the last byte only;
  `PagesBetween` derives the rest from the fact that a block is a run of pages.

`Calling`, `Owned` and `Reached` stand at the end of `XrpFile`. The bisection
is a function on the windows of a table (`Windows`). That this function exists,
and that it answers rightly for every window, is shown with a smallest window
for which it does not, because induction itself is out of the provers' reach:
`Solves`, `Right`. What holds an address is found in any table; that nothing is
missed needs the table sorted and without overlaps (`Sorted`).

### The driver

`DriverInv` has one part per concern, each kept by the steps of its own module
and untouched by the others (`NextOnDevice`, `NextOnDma`).

* `PowerInv`: besides the balance, that a device before its first boot is
  untouched, and that an open file keeps it awake.
* `NoticeInv`: what nobody has looked at keeps the line high and the handler
  still has to look for it.
* `Imports`: what is attached is listed, once (`Listed`); every call has its
  dma-buf and item, and no two releases drop the same item (`Threads`); the
  reference an import takes in its search outlasts the attachment's (`Counted`);
  without a second import of what is listed there is one import for each item
  (`Single`, `Lone`). `AllHeld` adds the driver's references. The imports that
  were not released are counted as a set of pairs of a file and a number, whose
  size changes by one with each import and each release.
* `ChannelInv`, while none of the five accidents has happened: one process owns
  the channel, the reporter is alive while that process is not releasing it, the
  DSP writes to that process's buffer only, and the tasklet is scheduled only
  between creation and release (`Scheduled`), as is a handler that has read the
  reporter once and will read it again only there (`Scheduling`).
* `CallbackInv`, while no second channel is created: it need not exclude the
  other accidents, because a buffer belongs to one process from its allocation
  on, and its content is clean before (`Clean`), follows the DSP's last report
  (`Delivered`) and is not the buffer of another (`Sole`).

The attempt to prove three properties corrected them. `BusyExclusive` did not
say that a list names a block once, without which taking it off the list would
not end its stay there. `CallbackOwn` and `DmaBufsAccounted` had held in the runs
in stronger forms that are false with more files or processes than the runs
have: a process that creates a second channel leaves the first one's buffer to
the DSP's reports for the second, and an import that fails for one file takes
back a reference that another's search counts on. They are now stated with these
conditions.

### Only model-checked

Liveness (`Returns`, `CallsReturn`, `QueueReclaimed`, `Returned`,
and the fairness part of every specification), because the prover has no
reasoning about fairness and ENABLED. That sorting the
ranges of a device tree gives a `Sorted` table with the same ranges, which
`TranslationExact` checks for small trees: that a sorting permutation exists for
every sequence (`SortSeq`) is induction over the data.

## 5. What is left out

* Of the command path: the loopback modes (debugging aids, constant after the
  module is loaded), `LOAD_MODE_MANUAL`, runtime power management, the content
  of commands and namespaces; invalid arguments, which return before anything
  changes. The counters are unbounded, not 32-bit: they advance once per
  timeout. The memory barriers of the slot are taken to work.
* Of the pool: blocks from the page allocator (`XrpFile` has them) and its
  failure, sizes that wrap around when they
  are rounded to pages (`SizeAssumption`).
* Of the host queues: buffer groups, failed allocations and a failed
  `pthread_create`, an event twice in one array, `xrp_run_command_sync` (an
  enqueue, a wait and a release in a row).
* Of the files: the contents of buffers, cache maintenance, architectures
  without coherent pages but for the choice they make between pinning and
  copying, `xrp_ioctl_free` of addresses that are no mapping.
* Of the task layer: the members of a call's group are added one by one and a
  failed addition ends in the state of a failed creation; a task's buffer
  without planes, which the code takes for created, is not listed. Left out are
  the calls that only send one command to the DSP
  (`csi_dsp_task_config_frontend`, `_backend`, `_start`, `_stop`, `test_config`),
  invalid arguments, `xrp_set_buffer_in_group`, buffers on user memory.
* Of the device: the reference the kernel itself holds on a device while it is
  probed or removed, a second probe, the edge-triggered interrupt modes (they
  need no acknowledgement), polling; a failing `vm_mmap` of the report buffer
  (in `XrpFile`); the exits of a release whose argument cannot be read or names
  no mapping of the file (`xvp_main.c:949`, `976`), which the library does not
  take; equal report numbers in two processes: they are the DSP's task numbers;
  the release of a dma-buf through a file that did not import it;
  dma-buf synchronisation; file descriptors that are not
  dma-bufs. After an access to memory that is gone nothing more is said.
* Other components are listed in `PROJECT.json` with the reason. Not planned:
  the firmware loader and the hardware glue of other boards (input and output),
  the CMA pool (a wrapper), the synchronous queue (not built).

## 6. Plan

Done: the command path, the pool, the host queues, the files, the task layer,
the device with interrupts, reports and dma-bufs; proofs about all of them, with
every invariant and action property that the passing runs check.
Left: the ring of the DSP log (`xrp_debug.c`), and the handshake step by step.
