# Verification of the HPSC bare-metal firmware

This directory models the firmware that runs on the real-time processors of the
HPSC chiplet: TRCH (a Cortex-M4, `src/trch`, the supervisor of the chip), the RTPS
R52 (`src/rtps`), the first-stage boot loader BL0 (`src/trch-bl0`), and the drivers
and libraries they share (`src/drivers`, `src/lib`). The TLA+ modules are
translated from the C code; TLC checks them on small instances, TLAPS proves the
central results for every instance. `PROJECT.json` lists runs, mutants, theorems,
hazards and, for each definition, the source lines it stands for.

## The system

TRCH owns the chip. `trch/main.c` sets the devices up, then loops for ever:
boot whatever is requested, poll the shared-memory links, drain the command queue,
mask interrupts, sleep in WFI if nothing is pending, unmask. Everything else
happens in interrupt handlers, all of one priority, so they do not nest; each runs
to its end between two instructions of the main loop. There is no operating
system, no atomic instruction is used, and the build is `-O0`: every `x |= y` on a
variable or register shared with a handler is a load and a store.

| component | code | state it keeps | operations | interacts through |
|---|---|---|---|---|
| command queue | `lib/command.c` | ring of 4 slots, head, tail | `cmd_enqueue`, `cmd_dequeue`, `cmd_pending`, `cmd_handle` | enqueued by the mailbox interrupt and by `links_poll`, drained by the main loop |
| supervision | `trch/watchdog.c`, `drivers/wdt.c`, `trch/boot.c`, `trch/reset.c` | `wdts[]`, object pool, `reboot_requests`, reset registers, timers, NVIC bits | stage-2 timeout interrupt, `boot_request`, `boot_handle`, `boot_reboot`, `reset_assert/release`, `create_wdt`, `watchdog_deinit_group` | interrupt and main loop share every piece of it; supervised CPUs start and kick the timers |
| mailbox link | `lib/mailbox-link.c`, `drivers/mailbox.c` | two mailboxes (data, events A and B), `cmd_ctx` | `request`, `send`, `poll`, handlers for command, reply, ACK | client on one processor, server on another |
| shared-memory link | `lib/shmem-link.c`, `lib/shmem.c` | two regions with a status word (NEW, ACK) | `send`, `recv`, `poll`, `request` | both processors store to the same status word |
| mailbox driver | `drivers/mailbox.c` | mailbox table, reference-counted blocks of mailboxes per interrupt | claim, release, send, read, interrupt dispatch | links claim mailboxes; one interrupt serves a block |
| command server, PSCI | `trch/server.c`, `trch/psci.c`, `rtps/server.c` | table of dynamic links | PING, WATCHDOG, ACTION, link connect/disconnect/ping, PSCI suspend and wake-up | called by `cmd_handle`; uses links, resets, boot requests |
| RTPS main | `rtps/main.c`, `rtps/links.c`, `rtps/watchdog.c`, `lib/psci.c`, `lib/mutex.s` | links to TRCH and HPPS, bring-up of the second core, lock, its watchdog | primary and secondary start, PSCI request, main loop, interrupt dispatch | client of TRCH, server of HPPS; TRCH reboots it when the last stage of its watchdog expires |
| time | `lib/list.c`, `lib/swtimer.c`, `lib/sleep.c`, `drivers/systick.c`, `trch_panic` and the tick of `trch/main.c`, `lib/panic.c` | list of software timers, time, the watchdog of TRCH | schedule, cancel, run, tick, `msleep`, panic | the tick interrupts everything; callbacks and handlers call back into the timers |
| containers | `lib/llist.c`, `lib/event.c` | list of polled links; an event loop nobody posts to | insert, iterate, post | links, main loop |
| interrupt controllers | `drivers/nvic.c`, `drivers/gic.c`, `lib/intc.c` | enable bits, per core for private interrupts of the R52 | enable, disable, disable all | every driver with an interrupt |
| blocks and MMU | `lib/balloc.c`, `drivers/mmu.c`, `trch/mmus.c` | array of free blocks (at most 128), contexts, tables in the blocks | alloc/free, map/unmap, context and stream create/destroy | `trch/mmus.c` maps at start |
| DMA | `drivers/dma.c`, `trch/dmas.c` | channels, transactions, microcode, events | transfer, wait, completion and abort interrupts | `lib/sfs.c`, tests |
| boot | `trch-bl0/`, `lib/sfs.c`, `trch/syscfg.c`, `boot_load` | stored images, configuration | load with checks and fail-over, load images | before the main loop, and at every reboot |
| plain drivers | `etimer`, `rti-timer`, `gtimer`, `smc`, `ns16550` | registers | register access | drivers of the above |

What is hard here:

* **Interrupt against main loop** on the command queue, on `reboot_requests`, on the
  reset registers, on `wdts[]`: each is touched by both without masking.
* **Sleeping**: the test for pending work and WFI must not miss an interrupt.
* **Two processors** that share mailboxes and status words, with messages that carry
  no identification, timeouts on every wait, and retries after them.
* **Restarts**: subsystems are rebooted over and over by their watchdogs, by commands
  and by PSCI, and TRCH itself may restart while they run; pools, pending
  interrupts and timers outlive a reboot.
* **Time**: it wraps around, a tick changes it between any two reads, callbacks change
  the list that is being walked, and the tick also stands in for the main loop with the
  watchdog.
* **A reset of one side only**: events of the mailboxes, replies of TRCH and a running
  second core are left over from before a reset of the R52.
* **Bounds**: a ring of four, a pool of watchdog objects, operator precedence in the
  full test.

## Modules

| module | models | how |
|---|---|---|
| `CommandFifo` | what the queue promises | a FIFO with one current command: Accept, Take, Finish |
| `CommandQueue` | `lib/command.c` and the main loop around it | `pc` is the place in the main loop, split where the interrupt can change what the next statement reads (`reg` is the loaded `cmdq_head`); `HandleCmd` is the whole handler; `raised`/`shmNew` hold the announced messages; refines `CommandFifo` |
| `CommandQueueProofs` | theorems about it | see below |
| `MCCommandQueue` | instances | `kind` picks one kind of clients per behaviour |
| `Reboot` | watchdogs, boot requests, reset lines | `pc` walks `boot_reboot` statement by statement; `TimeoutIsr` is the whole stage-2 handler; read-modify-writes are two steps through `reg`; the supervised CPUs are `core`, their timers `on`/`fresh`, the NVIC `pending`/`unmasked` |
| `RebootProofs` | theorems about it | see below |
| `MCReboot` | instances | subsystems and groups of the HPSC boot modes |
| `LinkRpc` | what `request()` promises | a remote procedure call: Call, Execute, Return, valid until a wait gives up |
| `MailboxLink` | `lib/mailbox-link.c` | main code and handlers of two processors, one step per access to a mailbox register; refines `LinkRpc` |
| `MailboxLinkProofs` | theorems about it | see below |
| `Mailboxes` | `drivers/mailbox.c`, connect and disconnect of `lib/mailbox-link.c`, the link table of `trch/server.c` | the server's commands are walked one step per call that changes what the interrupt sees (`claim`, `block`, `arm`, `ready`, `unsubscribe`, `release`); the interrupt handler looks at the mailboxes one after the other; remotes raise events at any time; `Line`, `Latch` and `pending` are the interrupt line and the NVIC |
| `DriverProofs` | theorems about it and `Dma` | see below |
| `MCMailboxes` | instances | one device, or two as TRCH uses them |
| `Balloc` | `lib/balloc.c` | operators on the array of free blocks |
| `Mmu` | `drivers/mmu.c`, `trch/mmus.c` | `mmu_map` and `mmu_unmap` walk the tables store by store; `rt_mmu_init` and `rt_mmu_deinit` around them; `Leaf` is what the SMMU finds for a page at that moment |
| `MCMmu` | instances | its `ASSUME` has TLC evaluate what the theorems about `Mmu` suppose, and that `Mmu_map` has entries enough |
| `DmaRequests` | the requests of `drivers/dma.c` and its `txes[]` | `TxesExact`, `CopiedExact` and the variables they are about, for `Dma` and for the theorems, which make an instance of `Dma` |
| `Dma` | `drivers/dma.c`, `trch/dmas.c`, `load_dma` of `lib/sfs.c` | `Program` is the microcode that `_setup_req` generates, byte by byte, and `HwStep` the controller executing it; the main loop's `dma_transfer` and `dma_wait`, split at INTEN and WFI; the two handlers |
| `MCDma` | instances | |
| `Boot` | `trch-bl0/main-relocated.c`, `lib/sfs.c`, `trch/syscfg.c`, `boot_load` of `trch/boot.c` | BL0 step by step over the copies; then the loading of each subsystem, at start and after it has overwritten its memory and is rebooted |
| `MemoryProofs` | theorems about it, `Balloc` and `Mmu` | see below |
| `MCBoot` | instances | |
| `ShmemLink` | `lib/shmem-link.c`, `lib/shmem.c` | both processors run the same parameterised actions; status updates are a load and a store; a message is copied in two pieces; refines `LinkRpc` |
| `ShmemLinkProofs` | theorems about it | see below |
| `LinkedList` | `lib/list.c` | operators on the two pointers of each node |
| `Wdt` | `drivers/wdt.c` | operators on one timer of two stages, and what its hardware does in a unit of time |
| `Clock` | `lib/swtimer.c`, `lib/sleep.c`, `lib/panic.c`, tick and start of `trch/main.c`, the dog of TRCH | composes `LinkedList` and `Wdt`: `pc` walks `sw_timer_run` node by node and `msleep` read by read; `SysTick` is the whole interrupt and may come at any step |
| `ClockProofs` | theorems about it, and about `LinkedList` | see below |
| `MCClock` | instances | |
| `Gic` | `drivers/gic.c` | operators on the enable bits of distributor and redistributors |
| `Rtps` | `rtps/`, `lib/psci.c`, `lib/mutex.s` | composes `Gic` and `Wdt`: core 0 (`pc`) from reset to main loop with its interrupt handlers, core 1 (`pc1`), HPPS, the PSCI server and the reboot in TRCH, and time |
| `RtpsProofs` | theorems about it | see below |

Details worth knowing when reading the modules against the code:

* `CommandQueue!QueueFull` is `head + (1 % QLen) = tail`, as C parses line 33 of
  `lib/command.c`.
* `Reboot!At`: an enabled pending interrupt is taken before the main loop goes on.
* `Reboot!fresh`: a timer restarted since the images were loaded cannot expire during
  the rest of that boot; the rest takes milliseconds, the timeouts are seconds
  (`wdt_groups` in `trch/watchdog.c`). `boot_load` itself may take any time, and the
  model lets any timer expire in it.
* `Reboot!ReleaseLoad` is the one read-modify-write that releases a CPU. `reset_release` does
  several of the same register for some CPUs (`reset.c:117-151`), and the pulse of a CPU that
  was on is one step.
* A boot that fails to load still releases the CPUs (`boot.c:149`) and then panics
  (`main.c:201`); `Boot!LoadNext`, which is about the images only, panics at once.
  Panics are states from which TRCH takes no step. `"lost"` is a
  write through the NULL pointer that an empty pool returns.
* In the links `gaveUp` records, for the properties only, which kinds of waits have
  timed out so far. The handlers of a processor preempt its main code, not each other.
* `Mailboxes!links`: a slot stands for an entry of `links[]` and its `mlinks[]`, which
  are allocated and freed together. The links TRCH serves are connected in `Init`; the
  links the server connects are client links, for which the code asks for no owner
  check, so claiming an owner's mailbox and its configuration register do not occur.
* `Mailboxes!IsrMbox`: a mailbox that is allocated but has no address yet is read at
  address 0; whatever is found there, its event may look signalled.
* `Mailboxes!Release` leaves `REG_INT_ENABLE` alone, as `mbox_release` does.
* `Mailboxes!Arm`: the callback, its argument, the bit in `REG_INT_ENABLE` and the subscription
  to the interrupt (`drivers/mailbox.c:170-187`) are one step: an interrupt that
  comes between them comes before or after all of them.
* `Mailboxes!Ping` sends the request; the waits for its ACK and reply are in `MailboxLink`.
* `Mmu`: pages, frames and descriptors are counted, not addressed. Region sizes are
  multiples of the granule, so `mmu_map`'s alignment errors do not occur. `Leaf` is the
  table walk of the SMMU without a TLB, level and frame of the descriptor it ends at; a
  block descriptor has no room for the address bits below its block. Memory keeps its
  contents when it is freed; `balloc_create` zeroes the area. `Careful` clients, as in `trch/mmus.c`, unmap exactly
  what they mapped and do not map pages inside a mapped block. The second boot list fails
  on its third region and exercises the path on which `rt_mmu_init` undoes what it did.
* `Dma`: data is a number of bursts. An interrupt comes at any step of the controller,
  and is taken before the main loop goes on. `ChanOf` is 0 since nobody writes
  `events[]`; DMAGO starts channel 0 since `go.chan` is 0. DMASEV and DMAEND, the next
  instruction, are one step unless `EndLags`: the handler, which prints to the console
  first, comes later than one instruction of the controller.
* `Boot`: a hash stands for what it is the hash of. The environment (boot select,
  memories, file system) is fixed at the start. `"dead"` is BL0's panic, `"panic"` that
  of TRCH. `load_memcpy_ecc` never fails as it is called (`apply_ecc` is false), and the
  `bs[3]` bit of the boot select code is not used. Configuration blobs are as their
  writer made them apart from corrupt images: BL0 has no check of the blob itself.
* `Clock!SysTick`: what the main loop computes between two waits takes far less than a
  tick, so at most one tick falls into it (`hit`), at any place. Callbacks, handlers and
  start-up may take any number of ticks. `left`, `epoch`, `owed` and `rest` only serve
  the properties: the real distance to a deadline, how often deadline and time have
  wrapped around, and what is still due. The repository has no user of the software
  timers, and `lib/swtimer.c` sets no limit to what a callback may do; the model's callbacks and
  handlers make any number of calls (`Call`) and schedule and cancel any timer. Three calls
  of a callback are special, because `sw_timer_run` still stands on the node of its timer,
  and are made only as `Liberties` says: a one-shot timer's callback schedules or cancels its
  own timer (`"own"`); a periodic timer's callback, having cancelled its own timer, cancels
  the one that was behind it (`"behind"`) or schedules its own again (`"again"`). The code
  is wrong under the first two (`Clock_calls.cfg`); under the third it is right but
  for liveness.
* `Wdt` counts half seconds, the length of a tick on both processors.
* `Rtps!Pass`: time passes when core 0 waits, is stuck, or goes round in the lock while
  core 1 does nothing; what it computes in between takes far less than 500 ms. An enabled
  interrupt is taken before core 0 goes on. `lost` is a handler that follows a link not
  connected yet; the abort handlers of `rtps/startup.s` loop.
* `Rtps!ZeroBss`: memory outlives a reset and is cleared by core 0 at its start, also under
  a core 1 that still runs (`early`). `owner` is the owner in the registers of the mailbox,
  which also outlives the reset: HPPS may send from then on. The 30 s for which TRCH waits
  for the ACK of its reply are any time.
* `Silent` requests are those whose command sends no reply (`CMD_ACTION`, errors).

## Runs

Each passing run checks safety, and where the component has it liveness or a
refinement. `TypeOK` is checked in `CommandQueue_ring` and
`Reboot_served`; the other modules state it to document their state, and it can be added
to their configurations. It is proved for all modules with theorems.

| run | question | instance and why it suffices |
|---|---|---|
| `CommandQueue_ring` | is the ring, filled and emptied statement by statement around interrupts, a FIFO that loses and misroutes nothing, and does TRCH never sleep on a command? | the real ring of 4 with 3 outstanding commands (one below the length, the bound of the proofs), 3 mailbox links or 2 polled links: the indices wrap many times and every fill level up to the bound occurs |
| `CommandQueue_full` (deviation) | does the full test protect the queue? | 4 mailbox links, 4 commands |
| `Reboot_served` | do timeouts, reboots, commands and PSCI leave supervision intact? | a watched R52 core and two unwatched HPPS cores in another reset register, a pool of exactly one object: every boot after the first depends on the object having been freed; any non-empty `syscfg.subsystems` |
| `Reboot_lost` (deviation) | is a request kept until it is served? | R52 and HPPS, both watched |
| `MailboxLink_rpc` | is the link a remote procedure call, and what is left of it after timeouts? | 3 requests, the last without reply, so that two replies and ACKs can be late or confused; every wait may give up at any time |
| `Mailboxes_links` | do reference counts, claims and the link table agree through every connect, failed connect and disconnect, and does every event reach its link? | one server link and links connected to one pair of mailboxes on the same device, so that they share a block, an interrupt and even a mailbox; 5 mailboxes, so that a second dynamic link fails when it claims its second mailbox; 3 links, so that a slot is reused |
| `ShmemLink_rpc` | the same for shared memory, with both processors storing to a status word | as above |
| `Mmu_map` | do map, unmap, failing maps, set-up and tear-down keep the tables and their memory exact, for a device that looks at any moment? | 32 pages in three levels, a root smaller than the other tables, as with each granule of the driver; an area of 20 descriptors, exactly enough for the maps if nothing leaks; regions of pages, of a block, of both, at the edges of tables |
| `Dma_loops` | does the generated microcode copy the request, and is every transfer reported truly, ended, and its object freed? | loops of at most 2 iterations and jumps of at most 12 bytes instead of 256 and 255, so that 1 to 24 bursts need one burst, one loop, two loops, unrolled bursts at the limit of the jump, and several loops in a row; one transaction object, so that a leak is seen at the next transfer |
| `Boot_start` | does BL0 start the first intact copy, and are the images of a running subsystem never damaged? | all 16 patterns of corrupt copies in two ranks, all entry offsets from 0 to the image's size, with and without fail-over, good and bad parity; images adjacent in memory, one of exactly a burst; a deleted file, a missing one, a list that is too long |
| `Clock_ticks` | do timers and sleeps keep what they promise wherever the ticks fall, and does TRCH go round for ever or come back? | a periodic and a one-shot timer, so that either may be before or behind the other in the list and be cancelled or scheduled by its callback; a time of 10 cycles that wraps around during every sleep and most periods; a tick of 2 cycles, so that deadlines fall between ticks; the real 2 s and 5 s of the watchdog |
| `Rtps_smp` | does the R52 get from any reset to its main loop with core 1, or else back to a reset? | both cores, one request in the queue of TRCH besides one in the mailbox: after a reset those are the old one and the new one. Timeouts of 1.5 s and 2.5 s for 5 s and 10 s and 3.5 s for 30 s keep the order that matters: a request with both its waits (1 s and 1 s, as in the code) ends before the dog does, the wait for the ACK of a reply may outlast the first stage and, with the sleep before it, the second |

Stopping is normal in `Reboot`, `Mailboxes` and `Boot` (after a panic), in `Clock` and `Rtps` (after a panic
before the watchdog runs) and in the links (the client has made its last request), so these runs do not check for deadlock; `CommandQueue_ring`, `Mmu_map` and `Dma_loops` do.

Bounds: `MaxLoad` (commands outstanding), `MaxReq` (requests made) and `QueueBound`
(requests TRCH has received and not handled) are the only counters; everything else is finite by itself. `CommandQueue` needs
`MaxLoad < QLen` and one kind of producer (`Bounded`, `OneProducer`): without them the
code is wrong, which is what `CommandQueue_full` and `CommandQueue_race` show.

Mutants: for each property of each passing run there is an operator marked
`Mutant:` next to the definition it replaces, a bug such as a dropped clear or a
swapped order, under which that run finds the property violated.

### Fairness

* `CommandQueue`: weak fairness of the main loop (the core executes) and strong
  fairness of `HandleCmd`: the NVIC takes a pending interrupt as soon as PRIMASK is
  clear, and the main loop clears it again and again. WFI of TRCH ends by an interrupt
  or by the SysTick (`CONFIG_SYSTICK`, on by default); for mailbox commands the run
  does without the tick, for polled links it is needed and assumed.
* `Reboot`: weak fairness of the main loop; strong fairness of `IntDisable`, since the
  commands served in one turn of the loop are finitely many; weak fairness of `Expire`
  (timers count) and strong fairness of the interrupt (delivered whenever the loop is
  unmasked again). Hanging, starting and commands are not fair.
* `Mailboxes`: weak fairness of the command in progress and of the handler's steps,
  strong fairness of each interrupt (one that is pending and enabled is taken, though
  another of the same priority may be first). Commands and remotes are not fair.
* `Dma`: weak fairness of the processor, its interrupts, the controller and the timer tick
  that `dma_wait` relies on ("it's not a problem as long as we have the watchdog timer",
  `drivers/dma.c:1501`). Transfers and faults are not fair.
* `Clock`: weak fairness of the main code, the tick, the time of the watchdog after a
  panic, and the reset it causes: callbacks and handlers return (their calls are not
  fair); strong fairness of the tick while `msleep` waits, so
  that other interrupts that end its WFI do not keep the ticks out of it for ever.
  Failures are not fair.
* `Rtps`: weak fairness of both cores and of TRCH; strong fairness of time, which also
  passes for a core that goes round in circles. HPPS need not do anything, so that every
  wait for it may have to run out.
* Links: each processor's main code and interrupt handling run (weak fairness); a
  request need not be made. Timeouts are not fair as such: a wait ends by its event or
  by giving up, whichever is possible.

## What is proved

`CommandQueueProofs` proves, for every ring length above 1, every finite set of links
and every load bound below the ring length, with one kind of producer:

* `TypeCorrect`, `CommandsConserved` (`NothingLost`), `RepliesToSender`
  (`ReplyToSender`), `NeverPanics` (`NoPanic`), all from `QueueInvariant`.

`NothingLost` alone is not inductive: that the head does not run into the tail follows
from counting, so `QueueInv` carries the conservation law `load = waiting + in the ring +
in hand` together with `load <= MaxLoad < QLen`; a slot between tail and head is whole
except the one being filled; the slot being copied out has left the ring but cannot be
refilled, because the ring with it still counts fewer than `QLen` commands. The lemmas
`HeadAdvances` and `TailAdvances` say how moving an index changes the number of filled
slots and the set of live slots of a ring; `FilledByCases` removes the modulus for the
prover; `FullUnwrapped` reduces the code's precedence slip to `head + 1 = tail`. Then
there is one lemma per group of actions, and `QueueInvariant` combines them.

It also proves `QueueIsFifo`, the refinement of `CommandFifo` that
`CommandQueue_ring` checks (`FifoRefinement`): the abstract FIFO is the slots between
tail and head, and `QueueInv` makes every step of the ring an abstract step or a
stutter. What it needs beyond the invariant is how that sequence changes when the head
or the tail moves around the ring.

`RebootProofs` proves, for every set of subsystems, groups and cores in which each
subsystem has one group, its boot initialises each core of the group once and no
command reboots it (`SingleGroups`; SPLIT mode and `CMD_ACTION` on a watched subsystem
are excluded because the code is wrong there, see below):

* `PoolTyped` (`TypeOK`), `PoolIsExact` (`PoolExact`), from `PoolInvariant`.

`PoolExact` is not inductive: that `watchdog_deinit_group` frees what was allocated, and
that `watchdog_init_group` stores into an empty place of `wdts[]`, depends on who may
have watchdogs. `PoolInv` adds that a watchdog's core is in its group, that a requested
subsystem has no watchdogs until its boot creates them (`Requested`), that the cores
still to be initialised have none (`ToCreate`), and that the copy of `reboot_requests`
in a read-modify-write is never newer than the variable.

It also proves, when moreover the groups keep apart (`Apart`):

* `NeverAsserts` (`NoPanic`), `CpusMonitored` (`Monitored`), `LoadsInReset`
  (`LoadedInReset`), from `WatchInvariant`.

`Apart` asks that a boot creates the watchdogs of its whole group and releases one of its
CPUs, that no two groups have a reset register in common, that PSCI leaves watched CPUs
alone, and that none of them runs when TRCH comes up. Each part excludes a case in which
the code is wrong (`Reboot_restart.cfg`, `Reboot_undone.cfg`, and two CPUs of one group,
below); `Reboot_served` satisfies it, as the R52 in lock-step does with the A53 off. When the
A53 runs it shares `CRL__RST_LPD_TOP` with the R52, `Apart` does not hold, and that a CPU in
reset stays there until it is booted (`HeldUntilBooted`) is false: nothing is proved of that
case.
`WatchInv` follows a watched CPU around: its timer counts only once it has run, and has
stopped when its interrupt is pending; it runs only if it is the one that boots release;
the watchdogs of a group come and go together but for the boot that creates them; while
a subsystem boots, none of its interrupts is pending, so that none finds a watchdog
missing; and what the main loop has loaded of a reset register is not older than the
resets that interrupts have asserted since.

`MailboxLinkProofs` and `ShmemLinkProofs` prove, for any number of requests and any set of
them without a reply:

* `LinkTyped`, `ShmemTyped` (`TypeOK`); `MailboxServesOnce`, `ShmemServesOnce`
  (`ServedOnce`); `MailboxAckIsReceipt`, `ShmemAckIsReceipt` (`AckReliable`);
* `MailboxIsRpc`, `ShmemIsRpc`: the refinements of `LinkRpc` (`RpcRefinement`).

The argument is that of two processors that take turns. A message goes through stages
(announced, taken off, acknowledged), each told by both ends' program counters and the
flags of the mailbox or the status word; as long as the sender has not given up, it is in
exactly one of them (`BoxInv`, `Region`). In `ShmemLink` the stage also says who may store
to the status word, hence that the value a processor has loaded is still the one there,
which is why no update is lost although none is atomic. The order of what was executed and
received (`OrderInv`), and that an acknowledged request is with the server
(`ReceiptInv`), follow from it. `CmdInv` holds until a request is given up; the
refinement needs the same stages for replies, and that client and server work on one
request at a time (`RpcInv`), and holds until any wait gives up. What is lost afterwards
is what `AckIsReceipt` and `ReplyMatches` show.

`DriverProofs` proves, for any devices, pairs of mailboxes and sizes of the pools:

* `ClaimsAccounted` (`Accounted`), `LinksListen` (`Listening`), and `BlockPutHolds`, that
  the assertion of `block_put` does not fail, from `MboxInvariant`.

`MboxInv` says that the reference counts are the sizes of two sets, the claims on a device
and the subscriptions to an interrupt (`RefsExact`), and what `mbox_link_connect`,
`mbox_release` and `mbox_link_disconnect` have got done at each of their steps: which
mailbox is bound, which is half claimed, which one is being taken back because the other
could not be had. `Accounted` alone says neither, and a step that binds a mailbox changes
two counts and two sets in different steps. `SlotSets` says how a set of places changes its
size by one mailbox; then there is one lemma per step.

About the DMA driver, of which the module makes an instance (`Driver`), it proves

* `ObjectsExact` (`TxesExact`), for any channels, sizes, clients and number of objects:
  `dma_wait` and the handlers free exactly the objects that `dma_transfer` took, and no
  transfer made after the other is refused;
* `RequestsCopied` (`CopiedExact`), for any sizes of requests and clients: a request is
  reported as done without error only when its microcode has copied every burst once, and
  one that faulted is reported as failed.

The first supposes that programs fit into the buffer of a request and that no client with a
callback meets a fault (`ObjectsFreed`; otherwise see `Dma_abort.cfg`). `TxesInv` ties
the descriptors of the channels to the step of the main loop: a client that waits holds
one object, that of the channel it waits for, and a request that still runs is not done.

The second supposes `CopiesWhole`: loop instructions of at least two iterations (the
controller has 256) and jumps over at least one burst in two loops, clients with one
channel, as `lib/sfs.c` is, and a thread that has stopped when the interrupt of its event is
taken. With several channels the driver starts the thread of channel 0 for all of them
(`drivers/dma.c:1483`), and it ignores a start while the thread still runs, so one request
would get the other's event. `Dma_loops` satisfies both conditions. The sizes are unbounded, and so
are the programs, as long as they fit (one that does not is refused). That a request is
copied whole is then a statement about generated code. The driver splits the bursts into
pairs of nested loops, a loop, or single bursts (`_loop`), until none are left. `LoopIs` says
which shape each of these pieces has, that its jumps can be encoded, and how many bursts it
stands for; `LoopsAre` and `ProgramIs` that the program is such pieces one after the other,
whose bursts add up to the size (that the recursive function of `SetupReq` exists, for any
size, goes through `IntervalInduction`, as the recursive functions of `Boot` do below). Of the thread, `Within` says at which place of
which piece it is, what its two loop counters hold, and how many bursts it has copied: those of
the pieces before, of the iterations done, and of the unrolled body up to there. Each
instruction preserves it (`PlainMoves`, `NestedMoves`, `WithinMoves`), and at the event
it gives the size. `CopyInv` adds that the thread that runs has the program of the request
that is in progress, that no interrupt of an earlier request is up, and that a request whose
interrupt is up has been copied.

`ClockProofs` proves, for any timers and intervals, any width `W` of the time of which a
tick is at most about a sixth, and sleeps below half of it (`ClockAssumption`: the SysTick
counts 24 bits, the time 32):

* `ClockTyped` (`TypeOK`) and `SleepsEnough` (`SleptEnough`), from `SleepInvariant`;
* if callbacks make no call of the kinds `"own"` and `"behind"`, whatever else they and the
  handlers call, and how often: `ListStaysIntact` (`ListIntact`), `RunMissesNone`
  (`NoneMissed`), `CallbacksForCause` (`CallbackForCause`), from `TimerInvariant`.

`SleepInv` bounds what is left of a sleep by what `msleep` has computed and by the ticks
that may have come since it read the time (`Lag`). `TimerInv` says that the list is in
order of some ranks of its nodes, which fall along `next` (`Ordered`): an insertion gives
the new timer the rank of the head and moves the head up, a removal changes no rank. With
ranks it can be said of a node that was just removed that it still leads to what was
behind it, and of the walk that everything it owes is behind the node it stands on
(`WalkInv`); reachability cannot say so. That ranks make a list end and reach its timers
(`OrderedIsIntact`) is an induction over the ranks; it unfolds the recursive function
`Met` of `LinkedList`. The induction over the naturals is derived from cardinalities of
finite sets (`SetInduction`: a set closed under successor that missed a number would have
an injection into a smaller set), since the library's induction theorem, which takes a
predicate, is out of the provers' reach. Both exceptions are needed. With `"behind"` a removed
node still points at another removed one, to which the walk goes on: it calls a cancelled
timer, removes it a second time if it is one-shot, and so takes out of the list whatever its
callback has put at the head (`Clock_calls.cfg`). With `"own"` a timer inserted twice points at
itself, and `sw_timer_run` never ends (`Clock_ticks.cfg` with `Liberties = {"own"}` violates
`LoopAlive`; `lib/swtimer.c:34`, `65-69`). With `"again"` the theorems hold, but
two periodic timers that restart themselves in callbacks longer than their intervals can
keep the walk going for ever, which is why `LoopAlive` has `Liberties = {}`. Nothing in
the repository uses the timers so far.

`RtpsProofs` proves, for any timeouts of which the two waits of a PSCI request and a tick
are less than both stages of the watchdog (`RtpsAssumption`), and any bound on the queue:

* `RtpsTyped` (`TypeOK`), `LockExcludes` (`Exclusive`), `MainAfterBringUp` (`BroughtUp`),
  `WatchdogForCause` (`ResetForCause`), from `RtpsInvariant`.

`LockInv` relates the exclusive monitors, the mutex and both cores' places; `AwakeInv`
says whose word `smp_core1_awake` is after a reset that cleared only part of memory. For
`ResetForCause`, `WaitInv` adds the time that the watchdog has counted to the sleeps still
allowed: the sum does not grow while core 0 waits, and is below the timeout. The
assumption holds for the timeouts of the code (`wdt_groups` in `trch/watchdog.c`, the waits
in `lib/command.h:25`), and without it the code would be wrong.

`MemoryProofs` proves, for images of any size, any corruption of their copies, any file
system and any lists of images:

* `FirstIntactStarts` (`StartsFirstIntact`), from `SearchInvariant`, when the boot select
  code selects a NOR memory (`NorSelected`) and every copy, staged where its entry point
  will be, fits into the RAM (`CopiesFit`);
* `ImagesStayInPlace` (`ImagesInPlace`), from `LoadInvariant`, when the images are within
  the memory of the subsystems and loading one, by DMA in whole bursts, does not reach
  into another (`Placed`);
* `BootTyped` (`TypeOK`), under all three conditions.

Every behaviour of `Boot_start` satisfies the three. For MRAM and SPI the code does not
initialise `mem_chip` (`Boot_mram.cfg`), so nothing can be said of what it starts; the code
checks neither sizes nor places, and `Boot_start` gives it images for which they are right,
next to each other and one of them as long as a burst. `SearchInv` says at which copy BL0
is, that all copies before it are corrupt, and what is in RAM while an image is staged,
verified and moved. `MovedIs` is the lemma about the move: copying cell by cell to lower
addresses gives what was there at the start, however much the two places overlap. The
model's `Moved` is a recursive function; the induction over its steps goes, as in
`ClockProofs`, through cardinalities (`IntervalInduction`). `LoadInv` adds to the images of
subsystems that run those already loaded of the subsystem that is being booted, which does
not run: it is in `requests`, and `Hang` can then only overwrite the other's images.

About the page tables and their allocator it proves, for any number of levels, sizes of
tables and of the area, boot lists and requests,

* when they are `Supported`: `MmuTyped` (`MmuTypeOK`) and `TablesExact` (`AreaExact`);
* when they are also `FramesFit`: `ChangesAsked` (`OnlyRequested`) and `ResultsTrue`
  (`ReportedTruly`);

each up to the moment that `free_blocks[]` is full while tables are in use
(`MmuSpec /\ []EntryLeft => ...`; a behaviour may stop before), and

* `EntriesSuffice`: that this moment never comes when the area has fewer places for tables
  than `free_blocks[]` has entries.

`Supported` says that the area has room for every table that some region needs (`Needed`),
that clients keep to what the code supports (`Careful`), and that no region of a boot list
has a block where another region needs a table. `FramesFit` says that where a region has a block, its frames
are aligned like its pages; `mmu_map` does not check it (`drivers/mmu.c:449`). TLC
evaluates both for the instance of `Mmu_map`, in which failing boot lists and windows that
clash with each other are `Supported` too. What the conditions exclude:

* What comes after `free_blocks[]` is full. The area of TRCH has 511 places of 4 KB
  (`RTPS_HPPS_PT_SIZE`) and `MAX_BLOCKS` is 128, so the theorems hold for TRCH until then,
  and it does come to that: `balloc_free` merges a block
  only with one that follows it, so mapping and unmapping one window again and again
  leaves the area in more and more pieces, until `balloc_free` finds no entry, `mmu_unmap`
  returns its error and a table is lost. TLC finds it when `Mmu_map` has an area of 48
  descriptors and 4 entries. As long as an entry is left, the pieces, which are apart,
  can be split and given back (`FreePlace`, `FreeExact`), and one is left of the size of every
  table that is needed (`Room`, `AllocSucceeds`).
* An area too small, and the other clients: `pt_alloc`'s NULL is followed, and a table
  replaces a block or is left below one (`Mmu_unmap.cfg`, `Mmu_overlap.cfg`).

`AreaExact` is not inductive. The invariant, `Good(T)` for some set `T` of tables, says that
`T` is a tree (`Tree`: each table but the root is at one slot of a table of the level above
it, for the block of that slot, and each table descriptor in use leads to a member), that
its members and the free blocks cover the area without overlap (`Area`), and that each is
`Needed`, so that a new one always finds a place; and of the call in progress that `pt`,
`level` and `walk` are a path of the tree to the block of `va` (`DownInv`, `BackInv`), and
that what `mmu_unmap` still has to look at has no table where it would have to find a block
(`ClearInv`). `T` is bound by a quantifier rather than computed from the state: linking a table
adds one member (`Grows`), unlinking one takes it out (`Prunes`), and `TreeIs` says that
the walk of `pt_free` through the memory finds just its members. `SplitExact`, `CutExact`,
`AllocExact` and `FreeExact` say which descriptors `balloc_alloc` and `balloc_free` take
from `free_blocks[]` and give back to it.

For `OnlyRequested` the module relates the tree to the walk of the SMMU: every walk ends at
a member of the tree (`WalkEnds`), and the descriptor there is what it finds (`WalkAt`).
Then a store at the end of the walk for `va` changes the pages of one block
(`StoreSeen`), linking an empty table where nothing is mapped changes none
(`GrowthUnseen`), and unlinking a vacant one changes none (`PruningUnseen`). `Sees` adds
that what a call of `mmu_map` has still to map is not mapped with larger blocks
(`MapClear`), so that a new table replaces nothing, and, while a boot list is mapped, that
what is there comes from its regions (`BootLeaves`). For `ReportedTruly`, `Done` says that
the pages before the one a call is at are as it was asked, and `UsedTables` that no table
is empty but the one just linked or about to be freed: below a table that `mmu_map` finds
where a block should be, some page is mapped (`Populated`). The inductions over levels go
through `IntervalInduction`. That `Block` and `Size` are powers of two, with what follows for
their products and remainders, is an assumption (`PowersAssumption`), which TLC evaluates:
the provers do not know exponentiation.

Model-checked only: all liveness (`EventuallyHandled`, `Recovered`, `EventuallyServed`,
`Returns`, `EventuallyTaken`, `TransfersEnd`, `LoopAlive`, `NeverStuck`), which needs
fairness and `ENABLED`, beyond the prover.

## Where the code departs from what it says

The two deviation runs are listed above. Further ones are kept as configurations
that can be run by hand (`tlc -config <cfg> <module>`); TLC finds each violated. A
configuration with a * is that of a run above, to be given this property in place of its
own (`KicksInTime`, `Recovers` and `CallbacksReady` under `PROPERTY`, the others under
`INVARIANT`):

| configuration | module | property | what happens |
|---|---|---|---|
| `CommandQueue_race.cfg` | `MCCommandQueue` | `NothingLost` | a mailbox interrupt between the load and the store of `cmdq_head` in `links_poll`'s `cmd_enqueue`: its command is overwritten (`lib/command.c:37`) |
| `Reboot_restart.cfg` | `MCReboot` | `NoPanic` | TRCH restarts alone; a timeout pending from before is delivered when `create_wdt` enables the interrupt, before `wdts[i]` is stored: `ASSERT(wdt)` (`trch/watchdog.c:173`; lines 147-149 expect this start) |
| `Reboot_undone.cfg` | `MCReboot` | `HeldUntilBooted` | a timeout inside the read-modify-write of `CRL__RST_LPD_TOP`: the CPUs it reset run on (`trch/reset.c:120`; `trch/watchdog.c:104` "will prevent all CPUs from kicking") |
| `Reboot_split.cfg` | `MCReboot` | `PoolSuffices` | SPLIT mode: a timeout tears down one group, the reboot creates both; the pool runs out (`drivers/wdt.c:129`) |
| `Reboot_command.cfg` | `MCReboot` | `NoPanic` | `CMD_ACTION_RESET_HPPS` while HPPS runs: it enables its timer between `wdt_is_enabled` and `wdt_configure`, whose assertion fails (`drivers/wdt.c:160`) |
| `MailboxLink_rpc.cfg` * | `MailboxLink` | `AckIsReceipt` | the late ACK of a request that timed out is taken for the next one (`lib/mailbox-link.c:136`) |
| `MailboxLink_rpc.cfg` * | `MailboxLink` | `ReplyMatches` | a reply that comes after its request gave up is returned for the next one (`lib/mailbox-link.c:163`) |
| `Mailboxes_handled.cfg` | `MCMailboxes` | `AlwaysHandled` | two devices use the same interrupt numbers and one handler, so that the interrupt of one also serves the other, whose own then finds nothing: `ASSERT(handled)` (`drivers/mailbox.c:338`) |
| `Mailboxes_links.cfg` * | `MCMailboxes` | `CallbacksReady` | an event arrives between the claim of a mailbox and `link->priv = mlink`: the callback follows an unset pointer (`lib/mailbox-link.c:234`) |
| `ShmemLink_rpc.cfg` * | `ShmemLink` | `AckIsReceipt` | after a timeout both processors update one status word; NEW is lost (`lib/shmem.c:83`) |
| `Mmu_unmap.cfg` | `MCMmu` | `AreaExact` | unmapping as one block what was mapped as pages leaks the table (`drivers/mmu.c:532`) |
| `Mmu_overlap.cfg` | `MCMmu` | `MapKeeps` | mapping a page inside a mapped block replaces the block by a table: its other pages are gone (`drivers/mmu.c:426`) |
| `Dma_abort.cfg` | `MCDma` | `TxesExact` | an aborted transfer with a callback leaks its object (`drivers/dma.c:1551`) |
| `Dma_hang.cfg` | `MCDma` | `NoHang` | a fault of a channel whose request has ended: the handler loops for ever, `continue` skips `i++` (`drivers/dma.c:1540`) |
| `Boot_mram.cfg` | `MCBoot` | `SelectedMemory` | `BS_MASK` does not shift, so MRAM matches no case and the rank is uninitialised (`trch-bl0/main-relocated.c:275`; line 36 "0: NOR; 1: MRAM") |
| `Boot_full.cfg` | `MCBoot` | `NotLost` | a list of `MAX_BLOBS` images is terminated in the bytes of the next list, which overwrites the end (`trch/syscfg.c:55`) |
| `Clock_calls.cfg` | `MCClock` | `CallbackForCause` | a periodic timer's callback cancels its own timer and then the one behind it: the walk goes on from the removed node to the cancelled timer and calls it (`lib/swtimer.c:60-65`, `lib/list.c:16-23`) |
| `Clock_wrap.cfg` | `MCClock` | `NeverEarly` | deadlines that have wrapped around are compared with a time that has not: the callback is early (`lib/swtimer.c:63`) |
| `Rtps_smp.cfg` * | `Rtps` | `KicksInTime` | core 0 waits up to 30 s for the ACK of a reply without a kick and is reset though it is well (`lib/mailbox-link.c:136`; `rtps/watchdog.c:19` "nothing to do: main loop will return from WFI/WFE and kick") |
| `Rtps_smp.cfg` * | `Rtps` | `Recovers` | an event left over from before a reset, or a command of HPPS during the boot, is served before `link->priv` is set; the watchdog resets the R52, the event is still there, and so on for ever (`lib/mailbox-link.c:234`, `rtps/links.c:128`) |

Found while reading, without a configuration of their own:

* The interrupt handler of the R52 (`rtps/startup.s:214`) saves r0 but not the other
  scratch registers.
* Two CPUs of one group that run, as in SMP mode with both cores watched, may time out
  together. The first interrupt tears the group down; the second stays pending, since
  `nvic_int_disable` does not clear it, and is delivered when the reboot enables it again
  before `wdts[i]` is stored: `ASSERT(wdt)` (`trch/watchdog.c:173`, `197-204`).
* The timers are not kept sorted (`Clock!Sorted` is violated), though
  `lib/swtimer.c:17` says so; `sw_timer_run` does not rely on it.
* `gic_disable_all` leaves the shared interrupts enabled with affinity routing and
  masks 24 of every 32 without (`drivers/gic.c:187-199`).
* The watchdog of core 1 is created by TRCH and never enabled. The tick of TRCH kicks
  its dog, so that a hung main loop of TRCH is not detected (`trch/main.c:64-70`), and a
  panic before the watchdog runs is final on both processors.
* `watchdog_start_group` and its siblings act on TRCH whatever group they are given
  (`trch/watchdog.c:242-253`); they have no callers.
* The full test of `lib/event.c` has the precedence slip of `lib/command.c`; nobody posts.
* The free blocks of the page-table area pile up in `free_blocks[]` until `balloc_free`
  fails (`lib/balloc.c:163`; above, under `EntryLeft`).
* `rt_mmu_deinit` destroys one of the four streams (`trch/mmus.c:93`), and mapping a block
  whose frames are not aligned like it loses address bits (`drivers/mmu.c:449`).
* NULL is followed when `pt_alloc` has no memory (`drivers/mmu.c:427`), when a transfer is
  refused for its alignment (`lib/sfs.c:51`), and when a command names an index without a
  link (`trch/server.c:139`).

## Plan

Done: command queue, supervision, both links, mailbox driver and dynamic links, time and
the dog of TRCH, the R52 in SMP mode with its lock, DMA, page tables and boot, modelled and
proved. Left: both ends of a mailbox device (`REG_INT_ENABLE` is read, changed and written
by both), the SPLIT mode of the R52, and the walk of a table with a TLB in between, should
the code get maintenance for one.

## Not modelled

Wording of the console output, register layouts, message contents and sizes (only which
request a message belongs to is kept), memory tests, the vendored printf, SHA-256, ECC
and low-level DMA code, and start-up assembly apart from the clearing of memory. The
elapsed and RTI timers and peripheral DMA are used by tests only. The TLB of the SMMU is
not modelled: the code has no maintenance for it, and in the model the SMMU walks the
tables at each access. The lock-step and split modes of the R52 run the code of `Rtps`
without the second core. `PROJECT.json` has the status of each component.
