# Formal models of the Dreamcast Linux tree

This directory holds TLA+ models of the parts of this repository that run concurrently or
react to failures, the TLC configurations that check them on small instances, and TLAPS
proofs about them. Line numbers in `PROJECT.json` refer to the files of the repository; for a
driver that the repository carries as a kernel patch they are lines of the patch.

Run a model with `tlc -config <cfg> <module>` and the proofs with `tlapm <module>.tla`.

## 1. The system and its parts

The repository builds a Linux system for the Sega Dreamcast: kernel patches (`patches/`), a
PID 1 (`init/`), drivers kept out of tree (`drivers/`), userland libraries and tools
(`userland/`), test programs (`tests/`) and build scripts (`dreamcast/`, `scripts/`).

| Part | Where | State it keeps | Operations, interactions | What is hard | Modules |
|---|---|---|---|---|---|
| Modem driver `dcmodem` | `patches/0017` | call state and deadline, request bits, data mode, number and position, transmit FIFO, escape count; relay, TDBIE and carrier in the chip | tty open, close, write, TIOCMBIC, interrupt handler, call engine (delayed work), replies to the tty | three contexts share one struct; the engine drops the lock twice in the middle of an operation; requests accumulate; time-outs race answers | `Modem`, `Escape`, `CallService` |
| LAN adapter HIT-0300 | `drivers/hit-0300`; a rewrite in `patches/0011` | chip registers and receive buffer, `dev->priv`, I/O region, interrupt, address, flags | module load and removal, open, close, send, time-out, multicast list, interrupt | a chip that receives while the handler reads; a refused frame stays in the buffer; the order of set-up and removal against the interrupt; two writers of the receive mode | `LanAdapter` |
| Maple bus core | `patches/0002`, `0016`, `0033`, `0036` | wait queue, sent queue, per-device `busy` and packet, interrupt counts | DMA-end interrupt, DMA and VBLANK bottom halves, `maple_add_packet` | a packet in flight must not be queued again; a reply must not be delivered to the wrong request; wake-ups | `VmuBus` |
| VMU flash | `patches/0004`, `0034` | `busy`, read buffer | block reads and writes over the bus | stale answers after a failed read | `VmuBus` |
| VMU LCD | `patches/0008` | table of displays, minors, nodes, reference counts, `connected`, `busy` | open, write, close, splash work, register, unregister | unplugging during a draw; a packet that outlives its time-out | `VmuBus`, `VmuLcd` |
| LCD programs | `drivers/vmu-lcd`, `drivers/mlcd-0.0.4` | a frame, its retries; a picture | `vmu_lcd_anim`, `vmu_lcd_text`, `vmu_lcd_t2logo`, `text2lcd` | retries of a rotated frame, signals; bits packed across bytes, texts that wrap | `VmuLcd`, `Pixels`, `Pictures` |
| VMU file system `vmufat` | `patches/0005`, `0035` | FAT, directory, inodes in memory | create, write, unlink, lookup | block chains, reuse of freed blocks, a FAT with loops | `VmuFat` |
| PowerVR in user space | `userland/package/libpvr`, `userland/package/gldc` | layout of the video memory, texture heap, scene's lists and parameters | initialisation, textures, headers, lists, scene; the GLdc port clips and submits | two views of one memory; lists the hardware must not miss; vertices changed in place | `PvrHeader`, `PvrScene`, `GLdc` |
| `/dev/pvr` | `patches/0014`, `0015`, `0020` | render and vblank counters, wait queues | write to the tile accelerator, waits, interrupts | a render that is over before it is waited for | `PvrScene` |
| PID 1 | `init/init.c` | pid of each console's manager | mounts, chroot, one manager per console, askfirst, reaping | death of managers and orphans, failing forks | `Consoles` |
| GD-ROM driver | `patches/0006`, `0012`, `0013`, `0019` | pending request, DMA state, command waits | queue_rq, interrupt handlers, time-outs | an interrupt that comes after its time-out | - |
| Small kernel fixes | `patches/0001`, `0003`, `0007`, `0009`, `0010`, `0018`, `0021`, `0022`, `0029`, `0030`, `0031` | - | console, bootscreen, mouse, joystick, keyboard, delay-slot fix-up, checksum alignment, AICA memset | mostly arithmetic | - |
| Test programs and harness | `tests/` | - | exercise the kernel on the machine or in QEMU | - | - |
| Build and packaging | `dreamcast/`, `scripts/`, `userland/target`, `userland/config` | files | shell scripts that call compilers and image tools | - | - |

What makes each part correct:

* **Modem**: data mode, FIFO, relay and retrain clock never outlive the call they belong to;
  exactly the number asked for is dialled; every request is served and every command answered;
  no call hangs; the phases of a call come in order.
* **LAN adapter**: the buffer is read frame by frame, and no frame lies in it without an
  interrupt; the handler and the stack never meet an adapter that is half set up or half taken
  down; the receive mode is the one the kernel knows of.
* **Maple bus, VMU flash, VMU LCD**: a packet is on one queue at a time, a reply reaches the
  request it answers, a busy device becomes idle; an unplugged display is never touched and
  freed after its last user; a frame that is counted was shown.
* **LCD programs**: the picture is the one asked for, bit by bit.
* **vmufat**: chains of different files are disjoint, walks end, a failed operation leaks no block.
* **PowerVR**: what is to be seen of a triangle is drawn; textures and buffers share no byte; a
  render reads a whole scene; the program learns of the render's end.
* **PID 1**: one manager per console, restarted when it dies; one shell per manager;
  everything that ends is reaped.

## 2. Plan

In order, most important first, each with runs:

1. `Modem` with `Escape` and `CallService`: the call engine, three contexts on one struct (proved)
2. `VmuBus`: the Maple core, draws and reads on one packet (proved)
3. `Consoles`: PID 1, its managers and their shells (proved)
4. `VmuFat`: allocation, chains and directory of the VMU file system (proved)
5. `LanAdapter`: the driver's life, its interrupt and the chip (proved)
6. `PvrHeader`, `PvrScene`, `GLdc`: frames from triangles to the end of the render (proved)
7. `VmuLcd`: the life of a display against hot-plug, with the programs that draw (proved)
8. `Pixels`, `Pictures`: the programs that compose pictures (proved)

What remains worth doing: `VmuFat` with dirty pages.
GD-ROM and the kernel fixes wait for the sources that the patches change (section 11).

Abstract specifications: `CallService` for the modem, which `Modem` implements. The others state
what their component promises as properties.

## 3. The modem

`Modem.tla` is `drivers/tty/dcmodem.c`. Every section of code the driver runs with `dcm->lock`
held is one action, because the lock makes it atomic towards the other contexts:

| Code | Action |
|---|---|
| `dcm_work` up to the hang-up decision | `WorkTake` |
| `dcm_hangup`, before and after the cleardown wait | `HangupOnline`, `HangupDone`; `HangupOffline` without a call |
| `dcm_start_call`, its two locked sections with the relay wait between | `StartOffHook`, `StartDialPause` |
| replies, `dcm_poll` and the decision to run again | `WorkFinish` (`Poll...` by call state) |
| `dcm_interrupt` | `Interrupt` |
| `dcm_port_activate`, `dcm_port_dtr_rts(false)`, `dcm_tty_tiocmset`, `tty_hangup` | `Open`, `Close`, `ClearDtr`, `TtyHangup` |
| `dcm_tty_write` in data mode, one byte at a time | `WriteData` |
| `dcm_tty_write` in command mode, `dcm_at_input`, `dcm_at_exec` | `AtLine`, `AtKey`, `AtErase`, `AtLineEnd` |
| line, far end and clock | `CarrierUp`, `CarrierDown`, `DeadlinePasses`, `RetrainOverdue`, `GuardPasses` |

Kept: all call states, request bits, the engine's place between its sections, the dialled
number and the position in it, relay, transmit interrupt, carrier, number of bytes in the
FIFO, sleeping writer, queued `tty_hangup`. Abstracted: time is reduced to whether a deadline
has passed; registers that only set the chip up, the wording of replies and the options of
S-registers are left out; received bytes only pass through and have no state.
`Escape.tla` holds the `+++` detection. `dialled` and `owed` are history variables.

`CallService.tla` is what a supervisor of calls relies on: on hook, calling, connected,
releasing, and a buffer that belongs to one connection. `Service` in `Modem` gives the
refinement mapping.

### Runs

| Run | Instance | Shows |
|---|---|---|
| `modem` | a number of two digits, FIFO of 2, line buffer of 1, `CLOCAL` off | relay, number, FIFO, engine and sleeping writer always agree with the call (`LineReleased`, `NumberDialled`, `NoStaleData`, `EngineAwake`, `WriterWillWake`); set-up of calls ends, hang-ups are served, commands answered, lost carrier and stuck retrain noticed; `Modem` implements `CallService`, liveness included |
| `modem_dtr_drop` | one number | a DTR drop during `dcm_start_call` is ignored, against the comment at `dcm_port_dtr_rts` |

The bounds are enough because the code compares the FIFO only with empty and full, the position
in the number only with its end, and the line buffer only with empty and full. The engine sends
the first digit and the transmit interrupt the others, so two digits show both senders and the end;
that digits of different numbers do not mix is proved for any set of numbers (`NumberIsDialled`).
With `CLOCAL` off, a call that ends hangs up the tty as well, in a step of its own (`TtyHangup`)
that may come at any later time; until it comes the run is what it is with the flag set.
`modem_dtr_drop` has `CLOCAL` on. Every other variable has its full range.

Fairness: weak fairness of the engine (`schedule_delayed_work` is called in every section that
leaves something to do, and a workqueue runs what is queued), of the queued `tty_hangup`, and of
the two clocks. Nothing is assumed of interrupts, users or the far end; a lost interrupt or a
silent far end is part of what the liveness properties survive.

### Proofs

`ModemProofs` proves `Spec => []TypeOK`, `Spec => []IInv` and from it the safety properties of
`modem`, and that data mode, the dial interrupt and the retrain clock belong to a call
(`DataModeOnlyOnline`, `DialInterruptQuiet`, `RetrainOnlyOnline`), which no run checks; last it
proves `Spec => Service!SafeSpec`. The assumption is `ModemAssumption`: numbers are sequences of
naturals, the two sizes are positive, `CLOCAL` is Boolean.

`IInv` is needed because the safety properties are not inductive. `EngineInv` says what the call
state can be at each place where the engine stands without the lock; `DialRequestInv` says how
far a call can be while a further dial request is queued, which is what rules out that a call in
data mode is restarted under a writer; `DialInv` carries the dialled prefix from one digit to the
next; `WriterInv` says that a writer asleep belongs to the present call. The proofs treat the
other contexts once (`OthersFrame`: they move neither the call nor the engine) and then the
engine's sections one by one.

Only model-checked: liveness and the liveness half of `ImplementsService`.

### What the code does not do

`modem_dtr_drop` is a disagreement between a comment of the driver and its behaviour, listed
under `findings`: the state stays `DCM_IDLE` from `ATD` to the last section of
`dcm_start_call`, and a port closed in between does not hang up. Three observations have no run:

* `dcm_work` carries out the requests it took in a fixed order. `ATD` and `ATH` taken together
  hang up first, dial then, and report `OK` while the call is being dialled, although the
  comment at `DCM_REQ_OK` says "report OK once the request is done".
* Both `OK` and `NO CARRIER` can be reported in one round.
* `dcm_drop_line` empties the FIFO without `tty_wakeup`, so with `CLOCAL` set a writer that
  sleeps on the full FIFO of a call that ends stays asleep until a signal or a hang-up of the
  tty (`WriterWillWake` therefore speaks of the duration of the call).

## 4. The VMU on the Maple bus

A VMU has one `maple_device` with one packet (`mdev->mq`) and one flag, `busy`, and three users:
the Maple core's own poll, `vmu-lcd` and `vmu-flash`. `VmuBus.tla` has one action for every
access to the flag or the packet, because the kernel is preemptible and nothing but the flag
orders the users:

| Code | Actions |
|---|---|
| `maple_dma_handler` on the packet of the sent queue (0002, 0033, 0036) | `StartDma`, `DmaCheck`, `DmaUnlink`, `DmaReply`, `DmaWake` |
| `maple_send`: wait queue to sent queue, DMA armed | `Send` |
| `maple_vblank_handler` and its poll (0016) | `StartVblank`, `VblankCheck`, `PollSet`, `PollAdd` |
| `vmu_lcd_draw` (0008) | `Begin`, `PreWait`, `PreDone`, `SetBusy`, `Add`, `Wait`, `Timeout`, `NoAnswer`, `ClearBusy` for `"lcd"` |
| `maple_vmu_read_block`, `vmu_blockread` (0004, 0034) | the same for `"flash"`, with `ReadPrepare`, `ReadAddRejected`, `ReadGiveUp`, `ReadEnd`; `vmu_blockread` is part of `DmaReply` |
| DMA engine, its interrupt and VBLANK | `Vblank`, `TransferDone` |

The two bottom halves run one at a time: the comment at 0008:138-141 relies on it, and it is why
vmu-lcd has a workqueue of its own. `vmu-lcd` draws under `lcd->lock`, one at a time; so does
`vmu-flash` read. A reply is a packet it answers and a code byte; the byte is read as a signed
value, as patch 0002 repaired. Time is reduced to "the timer may have run out".

The repository holds patches to `maple.c` and `vmu-flash.c` and not these files. What the patches
do not show is modelled from how the patched code uses it and marked external in `map`: the
allocation in `maple_add_packet`, the wait queue, the end of a time-out in vmu-flash.

### Runs

| Run | Instance | Shows |
|---|---|---|
| `vmu_bus` | both drivers, reads of two blocks, allocations of vmu-flash may fail | the packet is on one queue, `busy` has an owner and, while one user at a time takes the device, no reply and no rejected user clears it under a queued packet, the core loses no wake-up, no reply is taken for the answer to another packet, a read that succeeds returns its block |
| `vmu_draw` | draws, failing allocations, fairness | a busy device becomes idle, a draw returns |
| `vmu_owner` | draws and the core's poll, no failing allocations | `QueuedOwnsBusy` fails: the reply to one packet makes the device idle under another, against the comment at 0008:224 |

Two drivers are all there are, and telling an answer from a late one takes two blocks.

`BusyBelongsToPacket` says when `busy` may be cleared while a packet is queued. A reply never answers
the packet that is queued then, because `DmaUnlink` takes the answered one off its queue before the
reply is looked at: it is always another's. The property allows it only if two users had taken the
device at once, which the history variable `shared` records: `busy` was set while a packet was queued
or its reply being looked at, or while somebody else had set the flag and not yet queued his packet
(`Taken`). That does happen, and is the finding below. A packet may also be dequeued together with
the flag. The other two exceptions are a driver that has found no answer before and clears the flag
late (below), and failing allocations: `maple_add_packet` allocates before it looks at the queues,
and when it fails its callers clear the `busy` of a packet that is queued, as the hazard at 0016:32
says.

Fairness: the workqueue runs what is queued, a VBLANK comes with every field, the engine ends
what it began, a driver that has begun is scheduled, and its timer runs on when a wake-up comes
too early. The strong fairness of `StartDma`, `StartVblank`, `Vblank` and `DmaCheck` says that
bottom halves are short against a field, so that not every VBLANK falls into one of them.

### Proofs

`VmuBusProofs` proves `Spec => []IInv`, and from it the six properties of `vmu_bus`, for every set of
blocks, either driver or both, with and without failing allocations. `IInv` adds to `OneQueue`,
`BusyIsOwned` and `CoreWakesWaiters` what ties the packet to the wire: `SentOK`, that the receive
buffer of a transfer that has ended answers the packet on the sent queue; and `ReadOK`, that the read
buffer is set exactly while its read may be answered. Without `SentOK` the dispatch could be handed
the answer to the packet before, which is what patch 0033 repairs. `Alone` is what
`BusyBelongsToPacket` rests on: unless two users had taken the device at once, only one of these has
it: a queued packet, a reply that is looked at, the poll, a driver about to queue. It is inductive
because each of them hands the device to the next, and who else sets `busy` meanwhile sets `shared`.

Only model-checked: `BusyEnds` and `OperationsEnd`, and these with the LCD alone; with both
drivers the strong fairness conditions are too many for TLC.

Not modelled: flash writes (the same protocol), the partition cache, several devices on the bus,
empty ports, and a time-out of vmu-flash that dequeues its packet in the middle of a
bottom half (`ReadGiveUp` waits for a moment between two of them; the lines that do it are not
in the repository).

### What the code does not do

`vmu_owner` is a disagreement between the comment at 0008:224, "-EBUSY: the queued packet (e.g. a flash
read) owns busy", and what happens, listed under `findings`. A draw finds `busy` 0 (0008:211) and is
preempted; the core's poll finds 0 too, sets `busy` and queues its DEVINFO, which is sent, answered
and unlinked; the draw sets `busy` (0008:219) and queues its picture; the reply to the DEVINFO clears
`busy`. The draw's wait ends, and it returns success for a picture that is still queued. A block read
in the draw's place fails instead, because its buffer is still empty. The test of the flag and its
setting would have to be one step.

Three observations have no run of their own; the steps that lead to them are in the model, and
the properties name them as exceptions:

* Patch 0036 says "Wake the waiters on every path that clears busy." `vmu_lcd_draw` (0008:226,
  236) and `maple_vmu_read_block` (0034:79, 95) clear it without `wake_up`: a driver that waits
  for the device to be idle then sleeps for its whole time-out. `CoreWakesWaiters` is about the
  core's own clearing.
* The test for `busy == 2` and the clearing at 0008:236 are two steps. A read that sets `busy` and
  queues its packet in between loses its flag, and fails with `-EIO` although the VMU answers.
* The core reports "no answer" by `busy = 2`; a block read that begins before the draw runs again
  finds 2, which it does not wait for, and sets 1. The draw then returns success for a frame that
  was not painted, and `vmu_lcd_anim.c:45` counts on `-ENXIO`.

## 5. PID 1 and the consoles

`Consoles.tla` is `init/init.c` from the start of the managers on. The process table is a
function from process numbers: free, a manager, a shell, or another process, alive or a zombie. A
number is given out again as soon as its zombie was waited for; with three numbers for two
consoles this happens all the time.

| Code | Actions |
|---|---|
| `main`: launch loop, `wait(NULL)`, search and restart | `Launch`, `LaunchDone`, `Reap`, `Restart` with `StartManager` |
| `run_shell_once`, in `run_console`'s endless loop | `OpenTty`, `ReadEnter`, `ReadFails`, `ForkShell`, `Collect` |
| any process | `Daemonise` (a child outlives its shell), `Exit` (by itself or killed) |

`consoles` checks, with three numbers, managers killed at any time and failing forks:
`OneManager`, `OneShell`, `ManagerRestarted` and `OrphansReaped`. Two consoles and three numbers are the smallest instance in which a manager
of each console and a shell exist, and one in which a fork can also fail for want of a number;
four numbers were checked too (131,288 states). Deadlock is not checked: with no key pressed the
system rests.

Fairness: PID 1 and the managers are scheduled. `wait` looks through the children in the order in
which they became PID 1's, so it comes to every zombie (strong fairness of `Reap`). Nobody need
press a key and no shell need end.

`ConsolesProofs` proves the invariants and `OneManager`, `PidsAreManagers`, `OneShell` for any
number of consoles and processes (`PidsAreManagers`: a recorded number is the number of the
console's manager, never one that was given out again). `IInv` says what PID 1 is in the middle of: during the launch no
manager belongs to a console yet to come, during a restart none to the console restarted.
`ShellInv` says that the parent of a shell that is no orphan is the manager of its line, alive and
waiting.

What the model also shows, and no property speaks against: a manager that is killed leaves its
shell on the line while the new manager prompts there, hence `OneShell` speaks of shells that
have a manager; a console whose manager cannot be forked stays dead; and a hang-up or a read error
is taken for a key press, although `init.c:25-26` says that no shell exists until a key arrives.
The mounts and the `chroot` before it run once, in sequence, and ignore every failure; they are
not modelled.

## 6. The VMU file system

`VmuFat.tla` is patches 0005 and 0035: a FAT, one directory of fixed records in `DirLen` blocks
stored downwards on the medium, and the inodes in memory, each with its own copy of the file's
block list. The VFS holds the directory's lock over create and unlink, shares it among lookups,
and holds a file's lock over writes to it; the driver's mutex is given up once in the middle of
a creation. So the operations are atomic, except:

| Code | Actions |
|---|---|
| `vmufat_inode_lookup`, `vmufat_get_inode` | `Lookup` |
| `vmufat_inode_create`: the block, then the record, or no record is left | `CreateAllocate`; `CreateEnter` or `CreateFull` |
| `vmufat_get_block` with its growth of the chain, the record's size and the list | `Extend` |
| `vmufat_unlink`, `vmufat_remove_inode`, `vmufat_clean_fat` | `Unlink` |
| last `iput` of an unlinked file, memory pressure | `Close`, `Evict` |

Three things the driver does not stand are recorded in the history variable `harm`. `hole`: a
removal leaves an empty record before used ones (below). `late`: a file that is open
is written after it was unlinked, and links its freed blocks. `stale`: unlink leaves the link
count alone, so the inode stays hashed, and a new file with the same first block is given it.
`WalksEnd` is checked and proved of every behaviour, the others up to the first harm, which is
what `HealthySpec` follows.

| Run | Instance | Shows |
|---|---|---|
| `vmufat` | 3 files, 3 blocks and one hidden, directory of 2 blocks of 2 records, 2 inodes | walks end, files are disjoint, sizes and block lists are right, interleaved creations and writes included |
| `vmufat_dir` | 5 files, 5 blocks, directory of 4 records, 1 inode | a directory that overflows: the holes are those `LeavesHole` names, and no block is lost |

The directory has two blocks, because `vmufat_remove_inode` treats the last record of one and the
first of the next differently, and two records in each, so that a first and a last one differ;
the driver has 16 records in a block. Three blocks allow two files of which one grows, and blocks that
are used again; five files overfill four records. Files are interchangeable (symmetry). The number
of inodes in memory is bounded by `MaxInodes`. Deadlock is not checked: a full volume whose files
cannot be found any more rests.

The hole: `vmufat_remove_inode` is to "copy the final entry into the empty slot" (0005:6273). It
takes the record before the next empty one. When that is the first record of the next directory
block, `l--` makes the index -1 (0005:6454), and bytes before the block's buffer are copied
instead. On a VMU with exactly 16 files, unlinking the first leaves record 0 empty, and since
every search ends at an empty record (0005:283) the other 15 are no longer found. The test meant
for this case (0005:6449) is never true there. `LeavesHole` describes when it happens, a full
directory included, and `DirectoryCompact` says that it happens at no other time.

The record before the first one of a directory block's buffer is taken to be what lies there on
the medium in order, the last record of the block below, or zero; the buffer cache decides what
it really is. `found` is read uninitialised at 0005:6143 only when no record is found, which
`InCoreExact` excludes for healthy volumes.

A chain is the walk over the FAT that every operation of the driver makes, as a recursive function
with the bound of patch 0035. The proofs assume `VmuFatAssumption`, of which the code justifies
`NumBlocks + Hidden < ZEROBLOCK` by the width of the FAT's entries.

`VmuFatProofs` proves `WalksEnd` for volumes of every size and every behaviour, harm included:
each step adds at most an edge to a block that is an end. It also proves `DirectoryCompact`, for
directories of every geometry, by the arithmetic of `Preceding` and `NextFree`. Both are
inductive with the types of FAT and directory.

Its second part proves `ChainsDisjoint`, `SizeIsLength`, `NoLeak` and `InCoreExact`. First, where
there are no circles the walk from a block is the one chain that begins there: it exists, is
unique, goes through no block twice (so the bound never cuts it), and a change of the FAT outside
of it leaves it alone. The inductive invariant `VolumeInv` then adds to the one above, as long as
nothing has gone wrong:

* the records in use are looked at as a set, whose places `Unlink` and `CreateEnter` move without
  changing it otherwise, and no name has two;
* each record's chain ends and is as long as the record says; the chains of two records, and the
  blocks of creations that have no record yet, have nothing in common; what is allocated is in one
  of them or is the system's;
* an inode in memory that has a name has the first block and the block list of the record of that
  name, and no two inodes have one name. Without this part `Extend`, which writes through the
  inode's own list, could link a block of another file.

Proved too is that every operation keeps this up to the step that does harm.

Not modelled: time stamps, the mount's checks, `statfs`, `readdir`, contents of blocks and the
write-back of pages after an unlink, what a crash leaves of FAT and directory, volumes with several
FAT blocks, read errors of the medium, and a reader of the block list during a write to its file.

## 7. The LAN adapter

`LanAdapter.tla` is `drivers/hit-0300/lan_adapter-0.0.8-linuxsh-2.6.0-test9-patch/lan_adapter.c`.
The kernel it is for runs on one processor: the interrupt handler runs between any two steps of
the rest and to its end, which `Kernel` says, while the chip goes on receiving.

| Code | Actions |
|---|---|
| `init_HIT`, `detect_HIT`, `read_eeprom` | `AllocPriv`, `RequestRegion`, `Detect`, `SetUp` with `Mac`, `RequestIrq`, `Ready` |
| `cleanup_module_HIT`, `exit_HIT` | `Unregister`, `ExitHIT`, `FreePriv`, `FreeIrq`, `ReleaseRegion` |
| `net_open`, `net_close`, `set_multicast_list` | `IfUp`, `Close`, `Upload` and `ChangeList` |
| `net_send_packet`, `net_timeout` | `Send`, `NetTimeout` |
| `net_interrupt`, `net_rx` | `NetInterrupt`, `RxFrame`, `RxRefuse`, `RxDone`, `RxUnmask` |
| the MB86967 | `Receive`, `TxDone` |

The receive buffer is a stream of bytes that is read through one port; a byte is its place in its
frame and the frame's length, which is all that can go wrong with it. The EEPROM's protocol is
modelled bit by bit, the start bit and the command included. The initial state lets a boot
program have left the adapter in any mode.

`lan` checks the three properties with frames of one byte or two (one too long), and a buffer of
11 bytes, which holds two frames: the handler's loop distinguishes no frame but the first. The
words of the EEPROM have six different bytes, none of them its own reverse.

* `FramesInStep`: until `net_rx` refuses a frame, the port stands at a header, only whole frames
  are passed on, and every frame in the buffer has an interrupt to come or being served. It is
  restricted because `net_rx` leaves its loop after the header of a frame that it refuses
  (line 257) and does not skip the frame: the next call takes the frame's bytes for a header. The
  data link control is restarted only by `net_timeout`.
* `ReadyToServe`: `cleanup_module_HIT` frees `dev->priv` before the interrupt, and the interrupt
  is requested before the lock is initialised; that `exit_HIT` has put the chip to stand-by, and
  that `init_HIT` unmasks its interrupt last, keeps the handler out.
* `KernelKnows`: the adapter takes every frame only if `IFF_PROMISC` says so. `net_timeout` puts
  the receiver into normal mode without looking at the list; that is its exception.

`LanAdapterProofs` proves the three and the types for every EEPROM, every longest frame and
buffer. `IInv` is made of the life of the module (`LifeInv`: what is set up at each place of
loading and unloading), of `StreamInv`, and of the types. The heart of `StreamInv` is `Framed`:
round every byte stand all the bytes of its frame. `FirstFrame` and `LastFrame` show that reading
the first frame and receiving one keep it. `MacIsRom` shows that the address that is read bit by
bit is what the EEPROM holds.

Observations without a run: `dev->priv` is not freed when loading fails (400-413, 471-477), which
`LoadFails` shows; packets longer than a frame are handed back to be offered for ever
(`NetSendPacket`). The older 0.0.7 differs in the header comment, the return type of
`net_interrupt` and `check_region` (400-406).

## 8. PowerVR: libpvr, /dev/pvr and the GLdc port

`PvrHeader` is `pvr_poly_compile` and what it reads; a word is the set of its set bits, so that
fields that overlap are seen. `PvrScene` is the rest of `libpvr.c` with the ioctls and interrupts
of `/dev/pvr`. `GLdc` EXTENDS it with `SceneListSubmit` of the GLdc port, which clips triangle
strips at the near plane.

| Code | Definitions |
|---|---|
| `pvr_init`, `pvr_shutdown` | `PvrInit`, `PvrShutdown`; the ABI of the ioctl and the display mode are open |
| `pvr_mem_malloc`, `pvr_txr_load`, `pvr_poly_cxt_txr`, `pvr_poly_cxt_col`, `pvr_poly_compile` | `LoadTexture`, `PlainHeader` |
| `pvr_wait_ready`, `pvr_scene_begin`, `pvr_list_begin`, `pvr_prim`, `pvr_list_finish` | `WaitReady`, `SceneBegin`, `ListBegin`, `Prim`, `ListFinish` |
| `pvr_scene_finish` with the blank lists, the write, the background and the wait | `SceneFinish`, `Render`, `WaitRender`, `WaitEnds` |
| `PVR2_IOCTL_WAIT_RENDER`, `..._VSYNC`, the two interrupts, signals | `WaitRender`, `ReadyEnds`, `Signal`, `RenderEnd`, `Vsync` |
| `SceneListSubmit` | `SubmitStart`, `HeaderStep`, `TrailingStep`, `TriangleStep` with `Clipped` |

Coordinates are abstracted to points: a corner, or the point where the edge of two corners meets
the near plane. Facing is the order of a triangle's points.

`gldc` checks, with strips of three to five corners and any of them visible, two strips with and
without a header between them, a translucent list, two textures and two display modes:

* `PartsDrawn`: what is to be seen of every triangle is drawn with its facing, and nothing else but
  triangles in the near plane; every vertex is divided once, every strip ended. Two exceptions are
  the code's. Where only the last corner of a triangle is visible, the strip goes on with a parity
  that fits either that triangle or those behind it, never both, so that the others are turned; the
  property asks no facing of that triangle and those behind it in its strip (`Upright`). And where
  only the first corner is visible, the triangles that join two strips lie in the near plane.
* `TexturesIntact`: the hardware reads in a header what its context says; textures, in the 64-bit
  view of the memory, share no byte with each other nor, in the 32-bit view, with the buffers; the
  low bits of the CPU's pointer, which GLdc makes its address of, are the heap's offset, wherever
  the kernel maps the memory. Textures for which `pvr_mem_available` had no room are excluded:
  `pvr_mem_malloc` has no end.
* `RenderReadsScene`: what a render reads is a whole scene: every list closed, none twice, the
  opaque one there, and the background behind the last parameter. Excluded are scenes of which
  `pvr_prim` dropped a parameter, as it does silently, and renders that a signal let the program
  leave alone.
* `FinishReturns`: `pvr_scene_finish` returns, unless the render was over before
  `WAIT_RENDER` had read the counter (0015:328): then it waits for a render that nobody starts.

Strips of five corners have a triangle before and after any that is clipped in any way; longer
ones repeat these. `SubmitMax` is so small that a scene may overflow it. Scenes are drawn before
headers are compiled (`DrawWith`), because the drawing does not look at them. Weak fairness is
assumed of the end of the render and of the waiting program. `PvrAssumption` is that the
submission fits the vertex buffer, which the program's constants satisfy.

Observations without a run: the `/dev/pvr` of patch 0015 has six fields in `struct pvr2_dc_info`
(448-452) and libpvr eight (28-33), so that the two numbers of the ioctl differ; `pvr_init` then
fails, `InitGPU` does not look at the result, and the first scene writes through a null pointer
(`lib = "dead"`). GLdc's texture stride goes to register 0x4c, which is the render's.
`pvr_scene_finish` ignores a failed write.

Not modelled: register values, the page flip, the path that writes the FIFO directly, which a
program takes only if `LIBPVR_DIRECT_FIFO` is set (`libpvr.c:263`, for QEMU), the assembler in
`gldc/port/libpvr.h` and the demos.

### Proofs

`GLdcProofs` proves `RenderReadsScene` for every set of lists and strips, every size of the
submission and any signals. Its assumptions are `PvrAssumption` and `GLdcAssumption`: GLdc, which
is not in the repository, gives a list as its header first, then strips of at least two
vertices, at least four entries in all. The assertion at `port/libpvr.c:164` says it of the end of
a strip: what follows its last vertex but one is no header. That no strip is a single vertex with
the mark of the end is GLdc's own doing, which draws nothing smaller than a triangle.

`SceneInv` carries what the loop of `SceneListSubmit` and `pvr_scene_finish` rely on from step to
step: `submit_len` is the length of what was submitted, and it fits (`TypeOK`); the kinds of the
vertices still to come are those that were given, although clipping rewrites them in place, and
the vertex looked at is never the first of two headers (`LoopInv`); the list that is open was not
closed (`OpenInv`); the ends of lists in the submission are, one to one, those of the closed lists
(`ListInv`), which is what makes the scene whole after `pvr_scene_finish` adds blank lists; what
was written to the tile accelerator is whole and ends below the background (`FlushInv`); and a
render that no signal left alone is being waited for (`GpuInv`). The lemmas are about what a
sequence of parameters is for the hardware: its length in memory and the list that is open at a
place, both recursive functions, when something is appended. A list that GLdc finishes is
forgotten in the same step (`ListFinish` with `Forget`), because nothing lies between.

Its second part proves `TexturesIntact` for every set of textures, any number of them, and every
place of the kernel's mapping that the model has. Two results carry it:

* `CompileIsRead`: the four words of `pvr_poly_compile` give the hardware back what the context
  says, for every context. A field that a word reads is a number in Horner's form, from its
  highest bit; the lemmas take it one bit at a time, and show for each word that no other field
  has a bit there. Powers of two are written out, up to 2^31.
* `MemoryInv`: the end of the heap, and every texture, is on a boundary of 32 bytes above the
  buffers; textures lie in the order in which they were loaded; every header was compiled from
  its context; the size of the display is that of its mode.

What is left is arithmetic: a texture of the 64-bit view above `OFF_TEXHEAP` shares no byte of the
32-bit view with the buffers, because those of a display of at most 640 by 512 pixels end below
half of it. That the modes are no larger, and that textures have sides of 8 to 1024 and fields a
header can say, is `MemoryAssumption`; the modes are those of `pvr2fb`, the rest is what the
hardware has.

Its third part proves `PartsDrawn` for strips of any number and length, with and without headers
between them, and for any set of visible corners. The assumption is again `GLdcAssumption`: the
first vertex of a strip does not end it, and another follows. An earlier form of it
allowed a strip to be a single corner when another followed, which the model's inputs never hold;
there the loop takes the second corner of a triangle from the next strip, and the invariant
below is not inductive. It now excludes that too.

`PartsInv` holds while `SceneListSubmit` runs, and has three parts:

* `GivenInv`: the strips are those GLdc gave, whatever the loop has rewritten since.
* `PlaceInv`: from `i` on the vertices are still as given; the loop never stands on the last corner
  of a strip; `mask` says which of the next two corners are visible, and is empty just where no
  strip is open.
* `StripsInv`, about `Made`: what was submitted, then the vertex that is queued, then the two corners
  that would follow if the strip ended here, because `TrailingStep` submits these two only in a later
  iteration, when `mask` says that the last triangle was wholly visible. `Made` is `Good`: strips
  of vertices divided once, whose triangles are each flat, in the near plane, or within the outline
  of one that was given. It has what is to be seen of every triangle before `i` (`Drawn`). `Joint`
  says how the strip goes on: its last two points are those that the next triangle needs, and,
  while `Upright` holds and the next triangle goes on from a visible corner, the parity of its
  length is that of the triangle.

Without the vertices that are not yet submitted the invariant is lost between any two triangles, and
without the parity nothing is known of the facing. The lemmas follow the cases of the code by the
corners that are visible (`Clipped`): for each, what is appended, that the strip stays `Good`
(`GrowGood`), and that the triangle is `Drawn`. `Triangles` and `StripStart` are recursive functions;
the proofs use only their values when a sequence grows by one vertex.

Only model-checked: `FinishReturns`, which is liveness.

## 9. The displays of the VMUs

`VmuLcd.tla` is the character device of patch 0008 and the programs that write to it. A VMU is the
number of its plugging, so that a minor that is given again belongs to another one.

| Code | Actions |
|---|---|
| `vmu_lcd_register`, `vmu_lcd_unregister`, in the Maple core | `Register`, `Registered`; `Unregister`, `Disconnect`, `Unregistered` |
| `vmu_lcd_splash_work` on `vmu_lcd_wq` | `SplashStarts`, `SplashLocks`, `SplashEnds` |
| `vmu_lcd_open`, `vmu_lcd_write`, `vmu_lcd_close` | `Open`, `Write`, `WriteReturns`, `Close` |
| `vmu_lcd_draw`, the bus as `VmuBus` models it in detail | `Send`, `Painted`, `Early`, `Unanswered`, `Lands`; `Results` |
| `vmu_lcd_anim`: frames, retries, signals; programs that write once | `NextFrame`, `AfterWrite`, `OnSignal`, `Ending` |

`lcd` plugs two VMUs, one after the other or together, into two minors, with an animation that
rotates its frames and retries once, a program that writes once, and the splash: all pairs of
users of a display, and a minor that is used again.

* `LcdAlive`: neither the table, a pending or running splash nor a program has a display that was
  freed; no minor is shared; nobody draws on a VMU whose device is freed.
* `FrameShown`: a frame that is counted was painted last, the right way up, however often it was
  sent. The two exceptions are those of section 4 where `busy` speaks of another packet: a block read
  hides a missing answer, or the reply to another packet ends the draw while its own is still queued
  (`Early`); `vmu_lcd_anim` then counts a frame that comes late or never.
* `RemovalEnds`: the core, in whose bottom half the bus is served, waits for the lock of a draw
  that waits for the bus; the draw's time-out ends it.

Fairness: a thread in the kernel goes on, and a mutex that is given back again and again is had in
the end (strong fairness of `Core`, which waits for `lcd->lock`). Deadlock is not checked: when all
VMUs were pulled the system rests.

`VmuLcdProofs` proves `LcdAlive` and `FrameShown` for any number of VMUs, minors and programs. The
inductive invariant `LcdInv` says:

* a display's reference count is the number of programs that have it open, and one more as long as
  the core has not given its own back, which it does when the VMU is pulled (`RefInv`);
* the table, the nodes, the queue of splashes and the worker hold only displays whose reference
  the core still has: they take none themselves, and `Unregister` removes the table's entry,
  clears `connected` under the lock and cancels the splash before it gives its own back
  (`TableInv`, `MinorInv`, `WorkInv`, `CoreInv`); a work is on its queue at most once;
* whoever is in `vmu_lcd_draw` has the display's lock, and the display stays connected until it is
  given back; the packet that was sent is the one that is painted (`Drawing`).

The third is why `FrameShown` holds: between painting and counting nobody else has the lock.
`RemovalEnds` is only model-checked, as liveness.

Observation: the splash may be drawn after the first picture of a program that opens the display
at once, and replace it; `shown` is therefore about the time the lock is held.

## 10. Pictures

`Pixels` is `vmu_lcd.h` and the font; `Pictures` the loops of `vmu_lcd_text`, `text2lcd` and the
ball of `vmu_lcd_anim`, one step per round. `pictures` runs them on texts that end before, at and
after the end of a line and of the display, with newlines there, upright and turned; on words of
0 to 50 letters; and on the ball's whole orbit (15,035 states). `PictureRight` compares the
picture, bit by bit in the order in which a display reads it, with a definition that knows neither
loop: which character stands in which cell, and where the ball is. A line begins behind a newline
and after every nine characters of a piece; the line of a character is how many have begun.

`PicturesProofs` proves `PictureRight` for every text, every word and every frame, from
`PicturesAssumption` alone. Each program has its own inductive invariant:

* `TextInv`: the cursor is at the beginning of a piece, or behind the last character, which may be
  the ninth (`Cursor`); the picture shows what is dark for the characters before it. No character
  behind the fourth line is on an earlier one, because lines only grow.
* `WordInv`: at place `i` of row `j`, the pending byte is what `Partial` has for the nine characters
  of the row, the bytes before are right and no others are there (`Filled`), and `stop_pos` is -1 only
  while all characters looked for are in the word (`Scanned`). `PackIs` follows the masks and shifts
  at each of the ten places, `PlacesSame` the 48 bits of a row back to the bits of the characters.
* `BallInv`: the ball's place is at least four pixels from every edge of the display.

That two pixels of the display never share a bit (`PlaceOnce`), that no glyph is wider than four bits
(`GlyphIs`, `FourBits`), and what is lit when pixels are set (`LitMore`) serve all three.

Observation: for a character other than A-Z and space `text2lcd` repeats the row of the glyph
before it; `PicturesAssumption` keeps to the characters it supports.

## 11. Not modelled

* GD-ROM (`patches/0006`, `0012`, `0013`, `0019`): the repository holds changes to the kernel's
  driver and not the driver; the flags, waits and handlers that a model would turn on are lines
  that no patch shows.
* `patches/0011`, the LAN driver rewritten, and the slot it shares with the modem.
* `mlcd.c`, the driver of a 2.4 kernel that vmu-lcd replaces; the Java program's windows;
  `frames2lcd.py`; the pacing of `vmu_lcd_anim` and the parsing of its options.
* Keyboard, mouse, joystick, bootscreen, delay-slot and other small fixes: a few sequential lines
  each, in files that are not in the repository.
* The frame buffer's DMA (`patches/0014`, `0020`), tests, demos, build and packaging.

## 12. What rests on what

| Module | Proved, for every value of the constants | Only model-checked |
|---|---|---|
| `Modem` | types, `IInv`, all safety properties, the safety half of `ImplementsService` | liveness |
| `VmuBus` | types, `IInv`, the six properties of `vmu_bus` | `BusyEnds`, `OperationsEnd` |
| `Consoles` | `IInv`, `ShellInv`, `PidsAreManagers`, `OneManager`, `OneShell` | `ManagerRestarted`, `OrphansReaped` |
| `VmuFat` | `WalksEnd`, `DirectoryCompact`, `VolumeInv`, `ChainsDisjoint`, `SizeIsLength`, `NoLeak`, `InCoreExact` | - |
| `LanAdapter` | types, `IInv`, `FramesInStep`, `ReadyToServe`, `KernelKnows` | - |
| `PvrScene`, `GLdc` | types, `SceneInv`, `RenderReadsScene`, `CompileIsRead`, `MemoryInv`, `TexturesIntact`, `PartsInv`, `PartsDrawn` | `FinishReturns` |
| `VmuLcd` | types, `LcdInv`, `LcdAlive`, `FrameShown` | `RemovalEnds` |
| `Pictures` | `PictureInv`, `PictureRight` | - |

The proofs use no assumption but the `ASSUME` of each module, which the runs evaluate. Liveness,
and what recursive definitions compute, is checked by TLC only, on the instances above. Fairness
is stated next to each specification.
