# TLA+ models of the S5PC110 emulator

This directory specifies the parts of qemu-s5pc110 (QEMU with a model of
Samsung's S5PC110 board) whose correctness depends on the order in which things
happen: the board's interrupt controllers, UART, DMA controller, modem mailbox
and timers; the main loop with its timers and alarm signal; bottom halves and
asynchronous disk I/O; the qcow2 image format; the virtio block device and the
merging of writes; live migration. The modules are translated from the C
sources; `PROJECT.json` maps each definition to its lines.

## 1. The system

The emulator is one process. Its main thread runs translated guest code,
device models and an event loop; a pool of worker threads does blocking disk
I/O. Devices talk to each other and to the CPU through `qemu_irq` lines, which
are plain function calls: setting a line runs the receiver to completion.

| Component | State | Operations | Interacts with | What makes it correct |
|---|---|---|---|---|
| PL192 VIC (`hw/pl192.c`), four in a daisy chain (`hw/s5pc1xx.c`) | raw, enabled, selected and soft interrupts; priorities and vectors; cached winner and vector; service stack; daisy input | device line change, register write, acknowledge (read of VECTADDR), end of interrupt (write of VECTADDR) | devices drive it, controller k calls into controller k-1, controller 0 into the CPU | the winner is the most urgent request; requests and withdrawals reach the CPU; masking nests |
| CPU interrupt acceptance (`cpu-exec.c`, `hw/arm_pic.c`) | interrupt_request, CPSR I and F | take an IRQ between two translation blocks | VIC, guest | handlers nest, no request is lost |
| Thread pool (`posix-aio-compat.c`) | request list, thread counters, outstanding list, signal pipe | submit, ioctl, cancel, worker loop, completion signal, completion queue | block drivers above, main loop and AsyncContexts beside | each request executed once and called back once; no lost wake-up; nobody touches a cancelled buffer |
| AsyncContext, bottom halves (`async.c`) | stack of contexts, a list of bottom halves in each | push, pop, new, schedule, cancel, delete, poll | thread pool, block layer, devices | callbacks run only in their own context; scheduled work is run |
| AIO loop (`aio.c`) | handler list, `walking_handlers` | register, wait, flush, process queue | thread pool | flush drains; wait returns when something happened |
| Synchronous block I/O (`block.c`) | AIOCB pools, a nested event loop per call | read, write, get and release a block | all of the above | the call returns, and only its own callbacks ran inside it |
| UART (`hw/s5pc1xx_uart.c`) | receive FIFO, interrupt pending/source/mask, line | can_receive, receive, register access | character device, VIC | bytes are not lost or reordered, the line follows the registers, a driver misses no byte |
| Main loop (`vl.c`, `cpu-exec.c`) | timer lists, host alarm and its flags, pending exits | set, delete and run timers, rearm, signal handler, run a CPU, sleep in select | every device | lists stay sorted, no alarm is forgotten, due timers fire |
| OneDRAM (`hw/s5pc1xx_onedram.c`) | semaphore, mailboxes with check bits, two rings, retry and boot timers | register access from both sides, send, receive | modem socket, VIC | one side uses the memory at a time, bytes arrive once and in order, the modem boots |
| Countdown timers (`hw/ptimer.c`) | count, limit, period and fraction, next event | set, run, stop, tick, read | main loop's timers, bottom halves | a running timer is armed, periods do not drift |
| PL330 DMA (`hw/pl330.c`) | channel threads, two queues, a ring of tagged bytes, events, interrupt and abort lines | debug instruction, execution of programs, peripheral ready, reset | VIC through the multiplexers, peripherals | bytes arrive once, in order and at their place; lines follow the state; programs end |
| qcow2 (`block/qcow2*.c`) | L1, L2 and refcount tables, their caches, allocations in flight, snapshots | write, allocate, copy, link, save, load and delete a snapshot, restart after a crash | thread pool, monitor | the guest, a restart and a snapshot read what they should; counts cover references |
| Virtio block and write merging (`hw/virtio-blk.c`, `block.c`) | queue, batch, MultiwriteCBs, requests to be issued again | take, merge, submit, complete, stop, continue, save | image formats, guest | each request is completed once; merging neither loses nor invents data |
| Migration (`migration.c`, `buffered_file.c`, `savevm.c`) | state, stream buffers, freeze flag, dirty pages | connect, iterate, complete, tick, thaw, cancel, close | sockets, monitor, RAM | one guest goes on, with the memory the other stopped with; the monitor is resumed |

The interrupt multiplexers of `hw/s5pc1xx.c`, the PWM, system timer, RTC,
watchdog, I2C, key interface, SD/MMC, NAND, audio and display devices are not
modelled.
Everything else the repository contains (other image formats, networking,
monitor, the translator, the machines of other boards) is listed in
`PROJECT.json` with the reason it is left out.

What is hard to test in this code: a chain of controllers that each cache what
the next one should do; acknowledge and end of interrupt, which change two
controllers and must match although requests come and go in between; worker
threads whose time-outs race with new requests; cancels that race with workers;
event loops nested in callbacks of other event loops; a signal that arrives
inside the code that rearms its timer; answers computed before `select` and used
after it; metadata written in steps between which the host may crash. `PROJECT.json` lists the
hazards at their lines, with the properties that cover them.

## 2. Modules

| Module | Models |
|---|---|
| `Pl192` | the chain of interrupt controllers, device lines and an arbitrary guest |
| `Pl192Guest` | `Pl192` composed with the CPU's acceptance of IRQs and a guest kernel that follows the controller's protocol |
| `Pl192Proofs` | theorems about `Pl192` and `Pl192Guest` |
| `AioSpec` | what a user of asynchronous block I/O may rely on: the life cycle of a request |
| `PosixAio` | the thread pool, its completion queue, AsyncContexts, nested event loops |
| `BottomHalf` | the lists of bottom halves of nested AsyncContexts, and the walk of `qemu_bh_poll` |
| `ByteChannel` | what a serial receiver promises: a bounded channel of bytes |
| `Uart`, `UartGuest` | the UART's receive side and interrupts with the character device; a driver, and any guest |
| `MainLoop` | timer lists, the host alarm, and how the thread gets out of guest code and out of `select` |
| `OneDram` | the shared memory, mailbox and semaphore between application processor and modem |
| `Ptimer` | the countdown timer library with its fixed-point division |
| `Migration` | an outgoing live migration and the peer |
| `Qcow2` | writes, copy on write, reference counts, snapshots and crashes of a qcow2 image |
| `Pl330` | the DMA controller: channels, queues, ring, debug instructions, interrupts |
| `VirtioBlk` | the virtio block device and `bdrv_aio_multiwrite` |
| `Lists` | what the code does to linked lists, used by `PosixAio`, `MainLoop`, `BottomHalf` and `Qcow2` |
| `ListProofs`, `RingProofs` (`Uart` and `OneDram`), `TimerProofs` (`MainLoop` and `Ptimer`), `PosixAioProofs`, `BottomHalfProofs`, `StateProofs` (`Migration` and `Qcow2`), `VirtioBlkProofs` | theorems about these modules |
| `MC...` | constants for TLC |

Several modules have a variable that is chosen in `Init` and never changes
(`setup` of `PosixAio`, `Pl330`, `VirtioBlk`; `env` of `Qcow2`; `guest` of
`Pl192Guest` and `UartGuest`; `dynticks` of `MainLoop`; `promptAp` of `OneDram`):
one run then looks at several machines or guests. Some properties name the
machines they hold for; section 4 says what happens in the others.

### Pl192

`vic[k]` is the `pl192_state` of controller k, one record field per C field
that matters (bit masks are sets of inputs or levels; `priority_stack` and
`irq_stack` are one sequence, `stack_i` its length minus one; `daisy_callback`
is whether the pointer has been set, since it can only be controller k + 1).
`irq` and `fiq` are the CPU's two inputs. `aborted` records `hw_error`, which
ends the emulator.

`pl192_update` is recursive through `pl192_raise` and `pl192_lower`: the update
of a controller may set the daisy input of the one before it and update that.
The recursion goes down the chain only, so it is written as a finite iteration:
`UpdateOne` is one call up to the point where it raises or lowers its output,
`Emit` passes that on to the next controller or to the CPU, and `Chain` is four
`Emit`s, enough for the board's four controllers (`ChainAssumption`). Each call
also rewrites the CPU's FIQ input.

The actions are `pl192_irq_handler` (a device line), one action per writable
register, `ReadAddress` (`pl192_irq_ack`) and `WriteAddress` (`pl192_irq_fin`).
`Boot` lets a run start from a configured chain: with no input asserted the
configuration writes change nothing but their registers, so these are states
the program reaches. One detail is not in the documentation of the chip:
`pl192_mask_priority` on a controller with nothing in service reads
`vect_priority[33]`, two words past the array, which is the field `current` of
the same structure and holds 33. `ServiceLevel` says so; a level of 33 masks
nothing, so an acknowledge with nothing to acknowledge pushes a level without
effect.

`StackTest` is the depth at which `pl192_mask_priority` calls `hw_error`
(`Overflow`). On the board it is 32 (`PL192_INT_SOURCES`) while the stacks have
17 entries, one per level and that of reset: the 17th unfinished acknowledge
writes past their end. `MaxNest` keeps the model from there, and the assumption
says that it is at most the number of levels.

### Pl192Guest

Adds `cpsr_i` and the guest's handler activations. `AcceptIrq` is the test in
`cpu_exec`; the other actions are a kernel that acknowledges once on entry,
quiets its device, finishes once, returns, and may enable IRQs while the
handler runs (`Nesting`). Devices raise and withdraw requests at any time.

### PosixAio

The main thread's C stack is explicit (`stk`), because the interesting
behaviour is re-entrance: a completion callback may submit, cancel, or perform
a synchronous read, whose nested `qemu_aio_wait` walks the same list. A worker
is a program counter: `ready` (about to look at the list), `wait` (in
`cond_timedwait`), `timedout`, `io`, `kill` (between unlock and `kill()`). What
is done under the mutex is one step; unlock, `cond_signal`, `kill` and the
signal handler are separate steps. A block's `level` is not in the code: it is
the context its submitter was in, which is what `async_context_id` should say.

A callback either finishes the operation (`async_ret` of the synchronous call
it belongs to is set) or submits the next part of it, as image-format drivers
do. `SyncFails` is the path where the driver refuses the request at once, which
still schedules a bottom half. Each context has one flag for its completion
bottom half: the code allocates one per pop, but they all do the same thing and
delete themselves. `select` returns when there is a byte in the pipe and blocks
otherwise. `Interrupted` is its return with EINTR, after which the `while
(ret == 0)` test leaves the loop; it may happen at any time and is not counted on.

`AioSpec` is the abstract view: free, issued, executing, executed, calling,
free, with cancel allowed before execution or after it. `PosixAio!state` is the
refinement mapping.

### BottomHalf

Every function of `async.c`. The list of each context is a sequence, the calls
in progress are a stack: the main loop, a poll standing on a bottom half, a
callback, a submission between `qemu_bh_new` and `qemu_bh_schedule`, a
synchronous read between push and pop. Deleted bottom halves stay in the list
until a poll of the same context frees them. `alive`, `early`, `ran` and
`home` are not in the code. A device's bottom half may be scheduled as idle; `early` is whether
a callback deletes its own bottom half before the rest of its work or after.

### Uart, UartGuest, ByteChannel

The main loop asks `can_receive` (`fd_chr_read_poll`), lets go of the mutex in
`select`, and delivers afterwards: the guest runs in between. `Uart` has the
queue with both its lengths, the FIFO control register, the three interrupt
registers and the line. `s5pc1xx_uart_update` is translated with its `&&` where
`&` is meant: TXD is set whenever UFCON is not zero. The guest of `UartGuest` is
an interrupt-driven reader, which may also flush the FIFO, or one that does
anything. `FifoIsChannel` maps the queue to `ByteChannel`, open while the FIFO
is on; of reads while it is off nothing is promised.

### MainLoop

The build without an I/O thread. The steps of `qemu_mod_timer`,
`qemu_rearm_alarm_timer`, `host_alarm_handler`, `tcg_cpu_exec`, `cpu_exec`,
`main_loop_wait` and `vm_stop`/`vm_start` are separate, and the signal may arrive
between any two. Time is relative (ticks left). The two system calls of a
rearming take less than a tick together; a deadline is at least a tick
(MIN_TIMER_REARM_US). Calls of the timer functions come from guest code, I/O
handlers and timer callbacks, a bounded number in each visit. A callback that
sets a timer to "now" is taken to mean a time after the one the pass of
`qemu_run_timers` began with, so the timer is left to the next pass; one that
always sets it no later than that would keep the loop of `vl.c:1104` from ending.

### OneDram

Bytes are numbered as they are produced, so order, loss and repetition are
visible. `ap` is how far the guest's driver has come with the loading handshake,
`apTold` that it has read a word that announces data and not looked yet; it takes
bytes only then. The modem sends from the moment it is connected, also while the
image is loaded; what the reset of `onedram_bootup` finds in its ring is `lost`.
The AP uses the rings only after PHONE_START and leaves less in its own than the
socket buffer takes (1K of 4K). When it has no authority `onedram_tcp_read`
announces the bytes and does not store them, as the code does; `written` is what
it has stored.

### Ptimer

Words of W bits and fractions of F bits, so that the shift in
`ptimer_get_count` takes all its values. Ticks come up to `MaxLate` late.

### Migration

The stream is a sequence of pages with the version of their contents, and a last
item for the device state. It passes through the QEMUFile buffer, the buffer of
`buffered_file.c` and the socket. A callback makes many writes, and the peer
reads or goes away between any two of them. `ConnectFails` is a connect that fails
at once; it leaves the monitor suspended with nobody to resume it (`stuck`).
`wait_for_unfreeze` is called with
the wrong pointer by `buffered_close` and returns at once in the build; the loop
then polls.

### Qcow2

One L2 table; the clusters of header, L1, refcounts and snapshot list are not counted.
Data and metadata writes are separate steps, and the host may crash between them. What
may fail is the data write, the copies, the update of the L2 table, an allocation (its
refcounts cannot be written, or have no block: `CountingFails`), the write of a new L2
table and that of the L1 entry; reads, and a driver that refuses the data write at once,
do not fail. Snapshot operations are single actions (the monitor waits for requests in
flight, except in `delvm`), refcounts are otherwise written through, the L2 cache does
not evict. A cancel reaches writes in the image file, whose allocation then stays in
`cluster_allocs`, and writes that wait for another's allocation, which stay in its
`dependent_requests` and are restarted all the same; the block of a cancelled write is
not given to another request while it is there. `may` is what each sector may hold by
what the guest was told, `snapVal` what the snapshot was taken of; both are not in the
code.

### Pl330

A byte in memory is named by its address, so a byte stored in the wrong place is
visible. `pl330_exec` is a cycle over the channels, the read queue and the write
queue until nothing moves, each a step. Programs have counted loops; the
security checks, which cannot fail on this board, are left out. The peripheral is
the I2S interface: `WriteIiscon` is the guest's write of its control register,
which pauses and resumes it, `Resume` the audio callback, which does nothing while
it is paused. The four setups are a tidy guest, one that lets its programs end and
whose programs store what they have loaded before they wait, with a ring so small
that it wraps; a guest that kills channels and lets one wait with bytes in the
ring, with a ring that does not wrap; one that sends anything and resets; and one
with five commands: four to pause the peripheral, have a waiting channel hold up
another and kill that with an instruction in the queue, which leaves its sequence
numbers behind, and one to start it again.

### VirtioBlk

Writes are collected into batches (`BatchSize`), sorted, merged when they touch
or overlap (`Joined`), and submitted in parts; the block layer below answers
later, refuses (NULL) or calls back before it returns, as qcow2 does. With the
policy "stop" (`werror=stop`; `enospc` differs only in which error it applies
to) failed requests are kept in `rq`, the machine stops, and a bottom half
issues them again. One iovec per request; `bdrv_merge_requests`, a hook no driver
sets, is left out. The guest's writes do not lie within each other. The five
setups are merging with the iovec limit reached; failures with the machine stopped
and continued, of batches of one part and of batches of two, where one part fails
while the other is in flight; every way to fail, reported; and parts that are
refused with the machine stopped, saved and loaded.

## 3. Runs

| Run | Instance | Shows |
|---|---|---|
| `vic_single` | 1 controller, 2 inputs, 2 levels, 2 vectors, from reset, nesting 2, where `StackTest` is reached | `TypeOK`, `NoPhantomIrq`, `StackDiscipline` for a guest that writes the registers in any order |
| `vic_chain` | 3 controllers, 1 input each, 2 levels; a kernel with 2 nested handlers, and a guest that changes the IRQ/FIQ selection and acknowledges at any time; every choice of the daisy inputs' levels | `KernelServed` (`Balanced`, `NeverAborts`, `AckVectorLive`, `NoNullCallback`), `IrqDropsOnlyWhenQuiet`, `NoPhantomFiq`, `LinkCoherent`, `FreshHighest` |
| `aio_pool` | 2 blocks, 2 nested contexts, 2 workers with 2 submissions and 1 with 3, with and without ioctls | `PoolConsistent` (`PoolAccounting`, `BlockInOnePlace`, `IoOnLiveRequest`), `NoLostWakeup`, `OwnContext` (`CallbackInOwnContext`, `NoOrphan`), `FlushDrains`, the refinement `ImplementsAioSpec`, `Returns` (`Completion`, `MainReturns`) |
| `bottom_halves` | 1 device that may be idle, 3 requests, 2 nested contexts | `BhSafe` (`WalkOnLiveBh`, `NoReentry`, `NothingLost`), `ScheduledRuns` |
| `uart_receive` | 2 bytes, array of 4, capacity 3; driver and any guest | `RoomStays`, `StatusShown` (`LineFollowsStatus`, `DataReadyShown`), the refinement `FifoIsChannel`, `HeadIsRead` |
| `main_loop` | 2 timers of the virtual clock, 1 of the real one, delays up to 1 tick, one-shot and periodic host timer | `NothingForgotten` (`Sorted`, `AlarmKept`, `NoSleepOverFlag`), `TimersFire` |
| `onedram` | rings of 4, 5 bytes each way (so they wrap), 1 retry, an AP that is prompt and one that is not | `StreamsKept` (`OutStream`, `InStream`, `Announced`), `BootCompletes` |
| `ptimer` | 5-bit words, 3-bit fractions, 6 calls, ticks up to 2 late | `CountRight` (`EnabledArmed`, `RoundedDown`), `NoDrift`, `PeriodicFires` |
| `migration` | 3 pages, each written at most twice, buffers of 2, 2 migrations | `HandoverSafe` (`SafeHandover`, `SourceSurvives`, `FrozenHasHandler`), `MonitorResumes` |
| `qcow2_image` | 2 clusters of 2 sectors, 2 or 3 writes of any range, 2 snapshot commands, 1 crash; six surroundings with one source of trouble each | `GuestReads`, `ImageReads` (`Durable`, `SnapshotIntact`), `RefsRight` (`RefsCovered`, `RefsExact`, `AllocsDisjoint`), `WritesEnd` |
| `pl330_dma` | 2 channels, 6 programs, 3 or 5 commands and register writes, 1 peripheral, ring of 5 or 32 bytes | `CopyRight`, `EndComplete`, `AtRest` (`InBounds`, `NoLockup`, `Owned`, `NoLostRestart`, `AbortFollows`, `LineIsStatus`), `Ends` |
| `virtio_blk` | 3 requests, 4 sectors, up to 2 failures | `RequestsKept` (`Accounted`, `ParkedStops`, `McbLive`), `DataRight` (`Stored`, `OnlyWritten`, `FlushAfterWrites`), `Served` |

A property with names in parentheses is their conjunction, with the module's `TypeOK` in
one of them. Every property has a mutant in `PROJECT.json`: a definition changed the way
a bug would change it, under which TLC reports that property.

**Bounds.** Two levels and two inputs on one controller give ties, preemption
and masking; three controllers a first, a middle and a last one, the only roles
in a chain. Two workers give every pair of roles in a race; three submissions on
one worker let a block be reused while another request is outstanding; two
nested contexts let one lie between two others. Rings and queues are so small
that they fill and wrap within the bytes of a behaviour. Two clusters with two
sectors give partial, whole and overlapping writes, and three writes a chain of
two waiting for a third. Three requests give a batch that is merged with one
left over. A second migration starts from the dirty bits of a cancelled one. Some
bounds carry weight: the guest's finitely many writes let a migration converge,
the modem's finitely many bytes (`MaxIn`) let the boot complete.

**Deadlock** is checked in `aio_pool`, `bottom_halves`, `uart_receive` and
`main_loop`. In the interrupt controllers a guest that ends more interrupts than
it took makes the emulator exit; in the others the guest, the peer or the device
has made all the calls its bound allows and may stop.

**Fairness** is weak unless said otherwise. Nothing is assumed of guests that
may do anything, of users, or of devices asking for work.

| Module | Fair | Why |
|---|---|---|
| `PosixAio` | the main thread's own steps, each worker, the signal | the host schedules threads, I/O ends, signals are delivered; the ten second time-out, spurious wake-ups and signals that happen to interrupt `select` are not counted on |
| `BottomHalf` | the thread's own steps; strongly the pop of a context and the main loop's poll when its time-out is not long | calls return; the main loop sleeps no longer than `qemu_bh_update_timeout` says |
| `UartGuest` | the driver | the virtual CPU runs; nothing of the character device |
| `MainLoop` | the thread's steps, the tick of time, the signal handler | the guest may loop for ever in chained blocks, which is a step |
| `OneDram` | timers, the connection, the AP reading its words and loading the image | the driver's protocol; not that it gives the semaphore away |
| `Ptimer` | time, the tick, the bottom half | the main loop |
| `Migration` | stages, connect, peer's reads; strongly the tick and the write handler | the main loop serves a descriptor or timer that is ready again and again; a peer that is there reads |
| `Qcow2` | the thread's steps, data reaching the disk; strongly the completion of a write | the thread pool's `Completion`; callbacks wait for the thread to be idle |
| `Pl330` | execution, the timer, the audio callback of an interface that is not paused | `pl330_exec` is a loop; the audio subsystem calls back as long as it plays; a pause may last for ever |
| `VirtioBlk` | handlers, answers, a user who continues a stopped machine; strongly the restart bottom half and the notification | the main loop; the block layer answers |

## 4. Where the code does otherwise

While the models were written TLC also gave counterexamples to what comments and
documents say. The properties of the runs leave these cases out, by the machine
they are stated for or by the inputs; what is excluded is named here, with what
a property does not see although it is close to it.

* `pl192.c:164`: "FIQ is directly propagated through daisy chain" does not hold.
  Each update writes the one FIQ input from its own status; that of a controller
  behind the first is lowered by the first. `NoPhantomFiq` is the direction that
  holds; no property sees the FIQ that is lost.
* `pl192.c:247`: the end of an interrupt lowers the line after the update has
  raised it for the next request, which is noticed at the next change of any line
  or register. `IrqDropsOnlyWhenQuiet` excludes the end of an interrupt, and so
  says nothing of this one.
* `pl192.c:176`: the line stays high after an acknowledge, so a handler that
  enables IRQs before it quiets its device is entered again.
* `pl192.c:176`: a controller behind another whose only request is at a level masked
  in SWPRIORITYMASK finds "no interrupt", which is also what it has in service, and
  returns without lowering its output. A request it raised before stays in the
  controller in front, with its vector, after the device has withdrawn it.
  `KernelServed` is about kernels that leave every level unmasked. `NoPhantomIrq`
  and `LinkCoherent` count masked requests as requests (`Requesting`) and do not
  see it. (The run of `NoPhantomIrq` has one controller; that it holds of chains
  is `NoPhantomIrqs`.)
* `pl192.c:202`: the test for a full stack lets 16 acknowledges too many through,
  see section 2; guests nest no deeper than the stacks.
* `posix-aio-compat.c:596`: `paio_ioctl` leaves `async_context_id` of a recycled
  block as its last user set it; `CallbackInOwnContext` and `NoOrphan` are about
  machines without ioctls.
* `aio.c:227`: a nested wait clears `walking_handlers`, so that a handler that
  removes itself later in the outer walk is freed under it (`block/curl.c:96`).
* `aio.c:120`: `qemu_aio_flush` polls bottom halves last; an idle one of a device
  that submits there leaves a request behind. The bottom halves of `PosixAio` are
  the pool's, so `FlushDrains` does not see it.
* `vl.c:1104`: a callback that sets its timer no later than the time the pass began
  with is run again in the same pass, for ever if it always does; see section 2.
* `s5pc1xx_uart.c:236`: a reset of the FIFO leaves DATA_READY set with nothing to
  read. `DataReadyShown` is the other direction: bytes in the FIFO show.
* `s5pc1xx_onedram.c:425`: bytes that come while the AP has the semaphore are
  counted, announced with SEND and not stored; of those that find no room only the
  first part is. `InStream` is about the bytes stored.
* `s5pc1xx_onedram.c:668`: the reset of the pointers when the image has been loaded
  drops what a modem that does not wait for the phone has stored. `InStream` counts
  it as `lost`; `ResetOnlyBoots` says when it can happen.
* `s5pc1xx_onedram.c:665`: READY_FOR_LOADING and READY overwrite an unread word, and
  PHONE_START is dropped behind one. `BootCompletes` and `Announced` are about an AP
  that reads each word before the next.
* `s5pc1xx_onedram.c:60`: the semaphore is not requested from the AP, only
  polled; nothing is promised of an AP that waits to be asked.
* `ptimer.c:41`: a timer disabled by a zero period keeps its QEMUTimer armed, and
  the tick still triggers the device. `ptimer.c:99`: the counter may go up by one
  when the shift changes, though the comment at line 88 says "the rounding error
  never causes the timer to go backwards"; `RoundedDown` bounds it by the exact
  value only.
* `buffered_file.c:225`: after a write error found by the write handler the tick
  stops itself and the monitor is never resumed; `MonitorResumes` excepts a lost
  peer. `migration.c:404`: completion is decided before the buffers are flushed,
  and an error of that flush is not looked at; no guest goes on then. `SafeHandover`
  and `SourceSurvives` say that there are never two, and that one is left as long
  as the migration has not completed.
* `migration-tcp.c:116`: the monitor is suspended before the connect; when that fails
  at once (129-133) the migration is freed and nobody resumes it. `MonitorResumes`
  is about migrations that are under way and not about this one (`stuck`).
  `vl.c:3097`: a guest that writes all the time can keep the expected downtime
  above the limit for ever; in the model each page is written finitely often.
* `qcow2-cluster.c:529`: the count of a shared L2 table is lowered before its
  copy is linked, so `RefsCovered` is about images without snapshots.
  `qcow2-cluster.c:256`: the L1 entry in memory is changed before the write that
  may fail (`Durable` excludes that failure). `savevm.c:1820`: `delvm` does not
  wait for writes in flight; a write of part of a cluster may be lost, so with
  `delvm` the guest writes whole clusters. `qcow2.c:352`: a cancelled write
  leaves those that wait for it (`WritesEnd` excludes cancels). `qcow2.c:545`: a
  write cancelled while it waits is restarted and made when the one it waited for
  ends, and may then replace what a later write, reported as done, has stored;
  `GuestReads` and `Durable` say nothing where waiting writes are cancelled
  (`LateWrites`). `Durable` also says nothing of the surroundings in which every
  write may fail, as the L1 entry's is among them; the ones with a crash have
  failing table updates, and `Qcow2Image` covers the other failures. A released
  block that is still in `dependent_requests` or `cluster_allocs` may be given to
  the next request, which is not modelled. The comment at `qcow2-cluster.c:665`
  ("each write allocates separate cluster") describes an older scheme: the one at
  776 says what the code does and `AllocsDisjoint` shows.
* `pl330.c:583`: a load or store that finds its queue full has already moved its
  address; the programs do not fill the queues. `pl330.c:439`: after a kill the
  sequence numbers of the queue are not those of the next instruction, so the
  channel's later transfers are not issued, and a program that ends with DMASTZ ends
  with nothing stored (`InStep`; `EndComplete` excepts it, and the fourth setup gets
  there). `pl330.c:990`: with no kill at all, a channel that waits for its peripheral
  with bytes at the head of the ring keeps every other from storing, and
  `pl330.c:1025` then puts the other in a LOCKUP fault. `NoLockup` says that there
  is no other reason than these two (`HeldUp`), and that a tidy guest never meets
  either; two channels have bytes in the ring together only where the program
  `early` runs, in all setups but the first.
  `pl330.c:326`: removing a tag across the end of the array puts the index beyond
  it; guests that kill have a ring that does not wrap. `pl330.c:219`: a burst of
  the whole ring never fits. `pl330.c:457` and `:1119`: a second fault of a thread
  is counted again, and INTCLR lowers only enabled lines; `AbortFollows` is about
  guests that only kill a thread in a fault, `LineIsStatus` and the setups about
  guests that do not disable a pending event.
* `block.c:1699`: a write inside an earlier one cuts off the rest of that one.
  The shapes leave such writes out, so `DataRight` does not see it.
  `block.c:1776`: when the first part is refused, only one request of the batch
  is told. `block.c:1784`: a part that fails before `bdrv_aio_writev` returns is
  counted afterwards, and the `MultiwriteCB` may be freed with parts to come.
  `Tolerated` excludes these two from `Accounted`, `Stored` and `Served`: a driver
  refuses only in batches of one, reported, and fails at once only in batches of
  one part.
* `block.c:1771`: "we'll wait for the submitted AIOs to complete and report the error
  in the callback" is not what `multiwrite_cb` does (`block.c:1623`): it calls the
  callbacks at the first error, with parts still in flight. The requests are
  completed, or kept and issued again, and the late part of the failed batch may
  overwrite what a later write has stored and reported; `Stored` excepts requests
  of failed batches (`FailedOnce`).
* `virtio-blk.c:413`: the restart loop reads `req->next` after the request may
  have been linked elsewhere or freed. `virtio-blk.c:516`: `virtio_blk_load` drops
  the requests it has read; `Accounted` and `Served` are about machines that are
  not loaded.

## 5. Proofs

### Interrupt controllers

`Pl192Proofs` proves, for chains of one to four controllers with any number of
inputs, levels, vectors, any boot configuration and any guest:

* `TypeCorrect`: `Spec => []TypeOK`
* `LinksCoherent`: `Spec => []LinkCoherent`
* `NoPhantomIrqs`: `Spec => []NoPhantomIrq`
* `NoPhantomFiqs`: `Spec => []NoPhantomFiq`
* `StacksNest`: `Spec => []StackDiscipline`
* `WinnerFresh`: `Spec => []FreshHighest`
* `CallbacksSet`: `Spec => []NoNullCallback`
* `KernelBalanced`: `GSpec => [](Balanced /\ NeverAborts)`
* `KernelIsServed`: `UnmaskedBoot => (GSpec => []KernelServed)`
* `IrqKept`: `UnmaskedBoot => (GSpec => IrqDropsOnlyWhenQuiet)`

They rest on `ChainAssumption` only (at least one input and level, at most four
controllers, "no interrupt" is not a level, no more nesting than the stacks hold).
`KernelBalanced` is about kernels that nest at most `MaxNest` handlers, whatever
that is within this assumption. The last two have one more
hypothesis, `UnmaskedBoot`: the boot code leaves every level unmasked in
SWPRIORITYMASK, which is the reset value (`pl192.c:397`); the kernel never writes
that register. Section 4 has what happens without it.

`LinkCoherent` and `NoPhantomIrq` are not inductive. The IRQ input is set by
controller 0 from `irq_status` and `daisy_input`, and a daisy input from the
status registers of the controller behind, so the invariant has to say at once
that every controller's status registers are up to date with the registers they
are computed from, that each daisy input is matched by a request behind it, and
that the CPU's inputs are matched by requests of the chain. And an action passes
through states in which this is false: between `UpdateOne` and the last `Emit`
one controller has changed and the one before it has not been told. The
inductive invariant `Coherent(c)` is therefore stated about a call in progress:
every link and the CPU's IRQ input are justified, except the one just below
`c.at`, which may be unjustified while `c.sig = "lower"` is still on its way.
The lemmas show that `UpdateOne` establishes it for the controller it updates
(`UpdateOneCoherent`), that `Emit` moves the exception one controller towards
the CPU (`EmitCoherent`), and that after four `Emit`s nothing is on its way any
more. An invariant of the states is `TypeOK /\ Coherent(Now)`
(`CoherentInvariant`), with one step per action. `MinIsLeast` supplies what the
priority sorter needs of `Min` by well-founded induction on the naturals.

`StacksNest` has an invariant of its own, `Stacked` of every controller: its
stack is not empty, starts with the entry of reset, and has the level and
interrupt in service on top (`StackDiscipline` without the first part says
nothing of an empty stack's top). `pl192_update` and the walk along the chain
touch neither stack, level nor interrupt in service (`UpdateService`), so the
argument is about the push of an acknowledge and the pop of an end of interrupt
on each controller they reach (`AckStacked`, `FinStacked`); the pop is safe
because `pl192_unmask_priority` tests for underflow first.

`WinnerFresh` has the invariant `Settled`: what an update leaves in
`current_highest` and `address`, as a function of the registers. Every change of a
register the sorter reads is followed by an update of that controller, in the same
call or by the walk along the chain; acknowledges and ends of interrupt change none
of them on the controllers they do not update (`MaskChoice`). `SorterBest` shows
that what the sorter returns is the best candidate.

`CallbacksSet` has the invariant `Guarded`: a controller with no callback has no
daisy input, none chosen, none in service and none on its stack.

The composition with the kernel implements `Spec` (`GuestImplements`), so all the
above holds for it. `KernelBalanced` counts: the stack of controller 0 has one
entry per handler in service (`Serving`), that of controller 1 one per entry of
controller 0 for its daisy input (`Through`), above the entries of reset. An end
of interrupt decides by `current` which controllers it pops; `Stacked` makes that
the irq of the entry it pops, so it undoes the acknowledge that pushed it
(`AckStacks`, `FinStacks`), and `Guarded` gives the second controller
(`FinishInOrder`). The counts also bound the stacks by the number of handlers, so
an acknowledge does not meet `Overflow`.

`KernelIsServed` needs that the cached vector is still that of a live request.
The kernel acknowledges at controller 0 only, so a controller behind it only ever
has entries for "no interrupt" at level 33, which is what `pl192_mask_priority`
reads there (`Steady`, `MaskSteady`). Its priority test therefore never fails and,
with every level unmasked, each update passes its result on (`UnmaskedOutput`).
That makes `Joined` an invariant between operations: a daisy input is held exactly
while the controller behind requests, and the vector cached with it is that
controller's (`ChainInvariant`; during a call the link whose change is on its way
is exempt, `Linked`). Following the links from controller 0 (`LiveStep`) ends at
an asserted input. For `IrqKept` the same walk shows that the input of the CPU is
lowered only by a controller 0 that requests nothing (`Held`), and `Joined` that
then no controller does (`QuietChain`).

### Lists

`Lists` holds what the code does to linked lists (unlink, insert, sweep) for
`PosixAio`, `MainLoop`, `BottomHalf` and `Qcow2`, and `ListProofs` what these operations
do to the objects of a list, to its order and to its freedom of repetitions.
Induction is written as a least counterexample (`LeastOf`, from the
well-foundedness of the naturals). `Filtered` is a recursive function; that it
has the values its definition says is shown by building the table of its values
up to the length of the list (`TableExists`, `TableHolds`), so that
`FilteredParts` can say what the sweep of `qemu_bh_poll` leaves.

### UART

`RingProofs`, for FIFOs and byte sets of any size:

* `RoomKept`: `Spec => []RoomStays`. The invariant `UartInv` adds to `RoomStays`
  the types and `LineFollowsStatus`. The arithmetic of the ring buffer is in
  `Count`, `CountPlus` and `CountMinus`; the guest only ever makes room
  (`ReadUrxhKeeps`, `WriteUfconKeeps`), the character device only sends what was
  promised (`ReceiveFits`).
* `StatusRight`: `GuestSpec => []StatusShown`, with `DriverInv`, which says what
  the driver has done when it is past its reset.
* `UartImplementsChannel`, `GuestSeesChannel`: the refinement of `ByteChannel`.
  Pushing into the array appends to the channel (`PushAppends`), a read of URXH
  takes its head (`ReadTakesHead`), a write of UFCON is the channel's control
  action, everything else is a stutter.

### OneDRAM

`RingProofs` too, for rings of any size, any number of bytes and retries:

* `OneDramStreams`: `OneDramSpec => [](SocketTakesAll => StreamsKept)`. The
  hypothesis says that what the AP leaves in its ring fits the socket buffer
  (SOCKET_BUFFER_MAX_SIZE, 1K, for a ring of FMT_BUF_SIZE, 4K): without it
  `onedram_tcp_write` sends a part and drops the rest.
* `OneDramToAp`: `InStream` and `Announced` need no hypothesis.
* `OneDramReset`: `OneDramSpec => ResetOnlyBoots`: `onedram_bootup` never resets the
  rings of a phone that is up, and the AP's ring is empty when it does; what it drops
  is what the modem stored before the AP has heard of PHONE_START.

The invariant `OneDramInv` looks at a ring as the sequence of bytes between its pointers
(`RingIsSeq`). `OutSide` says that what the socket got followed by what is in the ring
is what the AP has written, `InOK` that what was dropped, then what the AP took, then
what is in the other ring is what has been stored there; `Booting` and `Quiet` say that
the timer of the boot is not armed again once PHONE_START has been sent and that the AP
has neither written nor taken anything until then, so that the reset can only drop bytes
of the modem. Writing over the end of a buffer appends to the ring (`PutJoins`), moving
the tail drops from its front (`HeadAdvances`), and the two chunks of
`onedram_fmt_send_cmd` are all of it when the socket takes that much (`TakesAll`).

### Countdown timer

`TimerProofs`, for every width of words and fractions, every period, limit,
frequency and lateness:

* `CountCorrect`: `PtimerSpec => []CountRight`. `RoundedDown` is about the normalised
  division of `ptimer_get_count`: the truncated and rounded divisor is at least the
  exact one scaled by the shift (`DivisorCovers`), so the quotient is at most the
  exact quotient (`QuotientRounds`). What is shifted out of `period_frac` is a
  remainder by a power of two (`ScaledRemainder`, `Pow2Sum`). `Pow2` is a recursive
  function; `PowTableExists` and `TablesAgree` give its equation.
* `EventsDoNotDrift`: `PtimerSpec => NoDrift`, from `ReloadRight`.

### Disk I/O thread pool

`PosixAioProofs`, for any number of requests, worker threads, nested waits and
contexts:

* `PoolIsConsistent`, `WakeupsKept`, `ContextsKept`: `[]PoolConsistent`,
  `[]NoLostWakeup`, `[]OwnContext`
* `FlushesDrain`: `Spec => FlushDrains`
* `PoolImplementsAioSpec`: `Spec => ImplementsAioSpec`

The inductive invariant `AioInv` has to know the stack of nested calls
(`Shape`): which frame may be where, and that no control block is in two
callbacks. `Own` is the invariant behind `OwnContext`: a request's level is the
number of synchronous calls below its callback, every synchronous call has at
most one request alive at its level and none once its flag is set, so leaving
the context orphans nothing. `Queued` ties the request list, the `active` flag
and the return code, and `Cancelling` says that a cancel in progress waits for a
block that is still listed. Most steps move frames that are neither callbacks
nor synchronous calls (`SameCore`) and are dealt with by a few lemmas
(`PushPlain`, `SwapPlain`, `QuietKeeps`). `Effect` sums up what any step does to
the lists, the return codes and the callbacks; the refinement follows from it
(`StandingRight`, `StepMaps`).

`BlockInOnePlace` was not inductive as first stated: nothing kept a block that
was never allocated out of a callback. It now says so.

### Main loop

`TimerProofs`, for any timers, clocks and delays, with a signal between any
two steps: `AlarmsKept`, `Spec => []NothingForgotten`. The invariant `LoopInv`
follows `qemu_mod_timer` through its steps: between the unlink and the insert
the timer is on no list (`OpTyped`), the lists are sorted throughout, and when
the thread is not between reading the deadline and setting the alarm, an alarm
that is not later than every head, an unhandled signal or the expired flag covers
the lists (`Covered`). A deadline that has been computed and not yet set is at
most the head of every list, because the signal handler does not touch the lists
(`DeadlineRight`, `SettimeKeeps`). `FlagSeen` says that the flag set by the
handler is accompanied by the event that ends the sleep.

### Bottom halves

`BottomHalfProofs`, for any number of bottom halves and depth of contexts:
`BottomHalvesSafe`, `Spec => []BhSafe`. The heart of the invariant `BhInv` is
`Shape(stk)`: a context is entered by a frame of its own, a walk stands directly
on that frame and a callback on its walk, and the frame that enters a context is
above all frames of other contexts (`Nest`). Hence the innermost walk is alone in
its context (`WalkAlone`): no walk, callback or submission further out holds a
bottom half of the list it sweeps (`WalkHolds`), and a callback is not entered
twice (`CallbackAlone`). `OwnersRight` (a request that is not deleted is
scheduled, being submitted or being called) makes a poll that returned 0 leave an
empty list (`WalkEmpties`), so `async_context_pop` loses nothing. In the first
context this argument fails, since the bottom halves of devices may be idle; it is
not needed there because that context is never popped.

### Migration

`StateProofs`, for any number of pages, sizes of the file's buffer and of the
socket, rate limit and number of migrations: `Handover`, `Spec => []HandoverSafe`.
The invariant `MigInv` looks at all that is on the way to the peer as one sequence
(`Pipe`: the socket, then `buffered_file.c`'s buffer, then the file's). `Sent` says
that while the peer is there every clean page has its current version in the last
item of it in that sequence or, without one, in the peer's memory already
(`UpToDate`), and that the device state is the last item, sent when no page is dirty
and the guest is stopped. Writes, freezes and flushes leave the sequence as it is
(`WriteSplits`, `FlushKeeps`, `PutKeeps`): this is where the order matters, as
`buffered_put_buffer` may write past its own buffer only when the flush before has
emptied it. A page saved is appended (`PageSent`), a read takes the head
(`ItemRead`). `Broken` says that a failed write means a lost peer; with `Phases`,
which ties the stages to the state and to whether the guest runs, it follows that an
error brings the guest back only where the peer's cannot start. `Phases` also has to
know that a migration that completed is never started again.

### qcow2 images

`StateProofs`, for any size of the image, of its clusters and of the image file, any
number and shape of writes, any layout and any environment within `Plain`:

* `Qcow2Reads`: `Qcow2Spec => [](Plain => GuestReads)`
* `Qcow2Image`: `Qcow2Spec => [](Plain => ImageReads)`
* `Qcow2Refs`: `Qcow2Spec => [](Plain => RefsRight)`

`Plain` says that there are no snapshot commands, that the host does not crash after a
failed write of the L1 entry (`qcow2-cluster.c:256`, section 4) and that devices cancel
only writes that are in the image file. It leaves every failure of the model: of data,
copies, table updates, allocations and new tables. An allocation that fails leaves at
most counts that nothing refers to (`CountingFailsFacts`, `AllocFailedKeeps`). The
inductive invariant is `QcowInv`:

* `TablesOK` and `NewL2OK`: the entries of the L2 table name counted clusters, no
  cluster twice and never the table's own; the L1 entry on disk is the one in memory
  unless its write failed, the cached table is the one on disk, and a new table is
  written before the L1 entry names it. This is what makes every moment a good one to
  crash at.
* `PartsOK`: the part of a write in flight either lies where the table says
  (`InPlace`) or is `FreshPart`: in clusters that are counted, that no entry names
  and that no other write has (`Own`). `AllocsOK`: the writes in `cluster_allocs`
  allocate for different guest clusters (`Mine`) whose entries stay empty until one
  of them links its own. That is the promise of the search for overlapping
  allocations in `qcow2_alloc_cluster_offset`; `WaitingOK` says who is on whose
  `dependent_requests`.
* `DataOK`: what is read is what may be read (`ReadsOK`); writes that have not ended
  may be read and do not overlap (`OverlapsOK`); the parts a write is done with are
  read (`DoneOK`), the data of a part that was written is in its clusters
  (`LandedOK`), and when they are linked the rest of them has been copied (`LinkOK`;
  here zeros, as the entries are empty).
* `CountsOK`: without failures, cancels and crashes a count that is one has an owner,
  so no cluster is leaked between callbacks; with it goes `GoneOK`, only what a device
  cancels is forgotten.

The search goes through the allocations in flight and cuts the request short where it
meets one (`CutShort`); it is a recursive function of the position in the list, and
`ConflictFacts` is shown by building the table of its values (`CutTable`). Clusters of
the first layout are numbered in their order (`Rank`), which is injective, so that an
image starts with its entries apart. TLC checked `QcowInv` with two and with three
guest clusters before it was proved.

Snapshots are left to TLC. A shared table gives up its count before its copy is
linked, so that between the steps the counts are those of neither image, and the
invariant would have to sum the references of both tables through each of them.

### Virtio block device

`VirtioBlkProofs`, for any number and shape of requests, size of batches and of the
iovec, and any order of answers:

* `BlkRequests`: `Spec => [](Tolerated => RequestsKept)`
* `BlkData`: `Spec => [](NotNested /\ Honest => DataRight)`
* `BlkWritten`: `Spec => [](OnlyWritten /\ FlushAfterWrites)`, with no hypothesis

The inductive invariant `BlkInv` has three layers. `BlkTyped` holds of every machine:
the queue is the end of the requests made, a part in flight or still to be submitted is
made of data of the requests of its batch, each sector at its place (`PartsRight`), and
a flush in flight is older than the writes collected. `RequestsOK` holds of the failures
the device copes with (`Tolerated`), which are all failures of parts in flight, however
many of a batch; refusals only in batches of one that are not issued again, and failures
before `bdrv_aio_writev` returns only in batches of one part. It looks at the device as
numbered places (`Held`) that share no request and together hold exactly what is not
completed (`Kept`), so that each action is a move between two places (`KeptMoved`), a
completion (`KeptFinished`) or a new request (`KeptGrown`); `BatchOK` counts the parts
in flight of a `MultiwriteCB` against `num_requests` and says that one with parts in
flight has not been freed, reported or not, `SubmitOK` that a batch is given out before
it reports. `DataOK` follows the data: the sectors of a write whose callback is still to
be called are in a part on its way, or hold data that is not older or belongs to a
failed batch (`DataComing`); what was complete when a request was made stays complete
(`BeforeDone`).

What `multiwrite_merge` computes is shown by building the table of its values along
the sorted requests (`MergeTableExists`, `MergeRight`): the writes so far consist of
data of the requests so far, each at its place (`MergeShape`), the last of them ends
where the last request ends (`MergeEnd`), and they span every sector the requests
cover (`MergeSpans`). The last two need `NotNested`: the code drops what the earlier
write has beyond the later one's start (`block.c:1699`), which is only right when the
later one reaches at least as far. `Honest` is that the policy is not "ignore", which
reports errors as successes (`virtio-blk.c:107`). The three layers were checked by
TLC on the setups of the run and on six more before they were proved.

### Assumptions

The theorems rest on the `ASSUME`s of the modules they are about, which TLC
evaluates in every run: constants are natural numbers or disjoint sets, the
bounds of the models are natural numbers, and the sets of bottom halves are
finite. Hypotheses beyond them are `UnmaskedBoot` of `KernelIsServed` and
`IrqKept`, `SocketTakesAll` of `OneDramStreams`, `Tolerated` of `BlkRequests`, `NotNested` and
`Honest` of `BlkData` (`DataRight` has `Tolerated` in its part `Stored`), and `Plain` of
the theorems about `Qcow2`. Some properties carry conditions of their own: `Accounted`
and `Served` are about machines that are not loaded, `Announced` and `BootCompletes`
about a prompt AP. The configurations of the runs satisfy the hypotheses, except that
one of the five setups of `virtio_blk` has parts that are refused and some
environments of `qcow2` take snapshots or cancel waiting writes. The
constants of `Qcow2` describe an image that can exist: the first layout leaves a
cluster for the L2 table, and the guest writes within the disk. No theorem assumes
fairness.

### Only model-checked

The invariants of `Qcow2` in environments with snapshots; `CopyRight` and `AtRest` of
`Pl330`, which depend on what the channels' programs are.
Liveness (`Returns`, `ScheduledRuns`, `HeadIsRead`, `TimersFire`, `PeriodicFires` and the others
stated with `~>`) is out of the prover's reach, as it needs fairness and
`ENABLED`.

## 6. Not modelled

* Interrupt controllers: PROTECTION and identification registers, wrong offsets
  (`hw_error`), the PL190 registers; acknowledges that write past the end of the
  service stacks (17 entries, the code tests for 32).
* Disk I/O: what a request transfers, retries and short reads; failure of
  `pthread_create` and `kill`; cancels of requests of a synchronous call;
  `qemu_aio_flush` inside a callback; registration of handlers with `aio.c` while
  its list is walked.
* UART: registers that only hold what is written. OneDRAM: words the command
  handler ignores, the RAW and RFS partitions, which the code never touches.
* Timers: saving and loading of `ptimer.c`, the PWM, system timer, RTC and
  watchdog built on it.
* Main loop: the I/O thread build, `-icount`, reset and shutdown.
* Migration: block migration, other transports, the incoming side's errors, a
  stopped guest, changes of speed and downtime.
* qcow2: compressed clusters, growing tables, backing files, encryption, read
  errors, a data write refused at once; the block of a cancelled write given to
  another request; crashes inside snapshot operations. Other image formats.
* PL330: DMALPFE and the security checks. Virtio: SCSI, configuration, reset, the
  layout of the queue.
* The translators, disassemblers, other boards, user-mode emulation, networking,
  display, audio, monitor and VNC: their logic is decoding, formatting and
  register files, far beyond what can be enumerated, and they are most of the
  repository's lines.

## 7. Plan

1. Proofs about snapshots of `Qcow2`, and `Owned` of `Pl330`.
2. Models of the PWM timers over `Ptimer`, and of handler registration in
   `aio.c`.

No module uses a RECURSIVE operator, so each can be proved about.
