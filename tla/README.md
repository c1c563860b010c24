# Verification of the Neural OS core

TLA+ models of the concurrent and crash-prone parts of the kernel crates, the
TLC configurations that check them on small instances, and TLAPS proofs of the
properties that hold for every size. The reference is always the code: a
definition that models code is listed with its lines under `map` in
`PROJECT.json`.

## The system

Neural OS is a bare-metal Rust kernel. One core (the BSP) boots and runs the
cooperative main loop; the others (the APs) idle and take jobs from a ring.
What the cores share is protected by ticket locks or by hand-written lock-free
code, and interrupt handlers may run between any two instructions of a thread.

| Part | State | Operations | What makes it hard |
|---|---|---|---|
| Ticket lock (`ticket-lock`) | `ticket`, `serving` | `lock`, `try_lock`, guard drop | `try_lock` reads one counter and compare-exchanges the other |
| IRQ-safe lock (`k_nano/sync/irq_lock.rs`) | a ticket lock and the core's interrupt flag | the same, with `cli` before and the flag restored after | a handler on the same core wants the same lock |
| AP job ring and barrier (`k_nano/smp/ap_work.rs`) | `HEAD`, `TAIL`, the slots; `PENDING`, `DONE`, `EPOCH` | enqueue, dequeue, `job_done`, clear, reset, wait | written for one producer; late arrivals of an older dispatch |
| Parallel products (`cortex/parallel_matmul.rs`) | `SMP_MM_BUSY`, the context pointers, the tile counters | two dispatchers, two worker functions | a raw pointer to a context that is dropped when the barrier opens |
| SPSC rings (`k_nano/smp/spsc.rs`, `k_nano/async_rt.rs`) | `head`, `tail`, the buffer | `try_send`, `try_recv` | unsynchronised slot accesses ordered only by the indices |
| MPMC queue (`k_nano/sync/mpmc.rs`) | `enqueue_pos`, `dequeue_pos`, a state word per slot | `try_send`, `try_recv` | positions are claimed first and given back on failure |
| Inference queue (`cortex/infer_queue.rs`) | ring of slots, `ACTIVE`, `ACTIVE_ID`, `ACTIVE_CANCEL`, `SLICE_BUSY`, `PENDING_COUNT` | submit, `poll_slice`, watchdog, cancel | a dozen atomics that are updated one at a time |
| TickvLite (`k_nano/storage/tickv.rs`, `flash.rs`) | the log, the index, the append offset | mount, put, put_batch, get, delete, idle checkpoint | power loss between sectors, mount deadlines, old checkpoints |
| NeuralFS (`k_nano/neural_fs/`) | superblock, free list, journal header, blocks; the mounted volume's copy of them | format, mount, `create_file`, `create_dir`, `write_file_stream_ex`, the reads | a B-tree rewritten by copy on write, power cuts, operations that fail half way |

Interactions: the IRQ-safe lock contains a ticket lock; the parallel products
use the job ring and the barrier; an AP that finds the ring empty polls the
inference queue, whose slices may in turn dispatch parallel products; the
semantic database sits on TickvLite; NeuralFS keeps the models and is used
under one mutex. The other parts (drivers, FAT, mesh, event bus, scheduler,
agents, desktop) are listed with a reason in
`PROJECT.json`; see *Not modelled* below.

## Modules

| Module | Models | Notes |
|---|---|---|
| `FifoLock` | a lock that serves its callers in arrival order | abstract specification |
| `TicketLock` | `ticket-lock/src/lib.rs` | `LockDraw`, `SpinAcquire` are `lock`; `TryLoad`, `TryCas` are `try_lock`; `Unlock` is the drop. Refines `FifoLock`: the queue is the engaged contexts in ticket order |
| `IrqSafeLock` | `sync/irq_lock.rs` | uses the actions of `TicketLock` through `INSTANCE`; a context is the thread or the handler of a core |
| `ApWork` | the ring and barrier of `smp/ap_work.rs` | action schemes without a `Next`; every load and store is a step |
| `ParallelMatmul` | `parallel_matmul.rs` on top of `ApWork`, the mesh tick job as the second producer | composition |
| `BoundedFifo` | a bounded queue whose calls take effect at one instant | abstract specification |
| `Spsc` | `SpscQueue` and `SpscChannel` | one module: they differ in how many slots they fill, `Room` |
| `Mpmc` | `sync/mpmc.rs` | every atomic access is a step; the spin of a receiver may end at any time |
| `InferQueue`, `MCInferQueue` | `infer_queue.rs`; symmetry for TLC | the work of a slice is abstracted to yield, finish or fail |
| `Tickv` | `tickv.rs` on `FileFlash` | steps are sector writes; a record is its key, value and validity; a scan is the set of offsets it looks at and where it ends |
| `NeuralBTree` | `neural_fs/btree.rs` and the reads of `volume.rs` | a node is a function from keys to values; no variables |
| `NeuralFs` | `neural_fs/volume.rs`, `journal.rs`, `superblock.rs` | an operation is the sequence of device writes it issues; a step applies all of them or is cut off |
| `TicketLockProofs`, `IrqSafeLockProofs`, `MatmulProofs`, `SpscProofs`, `MpmcProofs`, `InferProofs`, `InferTheorems`, `TickvProofs` | theorems | see *Proofs*; `InferTheorems` builds on `InferProofs` |

Conventions. A process is a label (`pc`) and its registers; an action is what
happens between two accesses to shared state. The modelled memory is
sequentially consistent: the code uses acquire and release on x86-64, where the
only reordering left is a store before a later load of another location, and we
found no modelled operation that relies on that order without an atomic
read-modify-write in between. A job slot that is read
while another core writes it yields any of the values involved
(`ApWork!Visible`). Definitions placed under "Mutated forms", and in `Tickv`,
`NeuralBTree` and `NeuralFs` the ones standing just before the definition they
vary, are wrong versions of an
operation; each is used to show that a property fails when the code is changed
that way.

NeuralFS. `NeuralFsAgent` holds the volume in a mutex, so two operations never
interleave; what can come between two writes of one operation is a power cut or
an error. An operation is therefore a value: `Create` and `WriteFile` compute,
helper by helper in the order of the code, the volume's memory afterwards
(superblock copy, transaction number, free stack, journaled blocks) and the
writes issued on the way. `Return` applies them all and keeps the memory, also
when the operation failed; `PowerCut` applies a prefix, perhaps tears the next
block, and loses the memory. The contents of a page name its file, version and
number, and a CRC is the contents it was computed from, so two different
contents never have one CRC. Keys keep their order as numbers. `files`, `clean`,
`stray` and `cut` are history: what was acknowledged, whether anything ever
failed, which files fall under the finding below, and whether the power failed
inside an operation.

## Runs

| Run | Checks | Distinct states |
|---|---|---|
| `TicketLock` | `MutualExclusion`, `NoOrphanTicket`, `NoBarging`, `LockGranted`, refinement of `FifoLock` | 4,327 |
| `IrqSafeLock` | `NoSelfDeadlock`, `FlagRestored`, `LockGranted` | 16,360 |
| `MatmulDispatch` | `NoUseAfterFree`, `ResultComplete`, `DispatchExclusive`, `DispatchReturns` (liveness) | 176,419 |
| `MatmulLateCredit` | violates `NoUseAfterFree` | |
| `SpscQueue` | `SlotsDisjoint`, `IndicesInRange`, refinement of `BoundedFifo` | 11,296 |
| `MpmcQueue` | `AcceptedItemsStored`, `ReceivedOnce`, `SlotOwned` | 1,196,873 |
| `MpmcGap` | violates `AcceptedItemsReceived` | |
| `InferQueue` | `ClaimIntact`, `JobNotLost`, `AnsweredOnce`, `PendingExact`, `OneJobInFlight` | 2,043,360 |
| `InferAnswered` | `JobAnswered` (liveness) | 64,028 |
| `Tickv` | `Durable`, `DegradedHonest`, `NoClobber` | 2,617,011 |
| `NeuralFs` | `ListedIffCreated`, `ReadBack`, `BlocksDisjoint`, `NoSilentCorruption`, `CleanMounts`, `OldDataIntact` | 388,671 |
| `NeuralFsRewrite` | violates `RewriteReads` | |

Each module that has a safety run also checks its `TypeOK` there; the types of
`IrqSafeLock` are part of its proved invariant instead.
`MpmcQueue` does not check deadlock: a process may stop there because the bound
on the positions is reached.

### Bounds

* Ticket lock: three contexts make a holder, a waiter and a `try_lock` caller;
  six tickets let each be overtaken twice. IRQ-safe lock: two cores with one
  handler each, four calls, so that a handler waits for the other core while its
  own thread is interrupted.
* Parallel products: two APs and the BSP, two tiles, both kinds, dispatched by
  the BSP or by an AP. `MaxWork` bounds the work submitted: a rows product
  counts one, a columns product or a mesh tick two, and three units allow three
  products of one kind (a worker of the first can meet the third), one of each
  kind in both orders, or a product and a mesh tick. `PatientAps` lets the 5 s
  deadline pass only when no worker will come any more; `MatmulLateCredit` drops
  that. `NoUseAfterFree` and `ResultComplete` speak of behaviours in which only
  dispatchers have used the ring (`RingSole`): without that condition TLC
  violates `NoUseAfterFree` as soon as a mesh tick shares the ring, because
  `enqueue_impl` is written for one producer. `DispatchExclusive` and
  `DispatchReturns` hold with the mesh tick too.
* SPSC: four slots and seven items, nearly two laps. MPMC: two slots and
  five positions, two laps with both sides contending.
* Inference queue: two slots, two calls in flight at most (`MaxOpen`), two
  pollers and one canceller. With two calls no slot is used twice; a third call
  without the canceller, which reuses one, is the same configuration with
  `MaxCalls = 3` and `CancelOps = {}` (250,518 states, no violation), and the
  theorems hold for any number of laps. `MaxOpen` not above the number of slots
  keeps a submitter from being a lap ahead of a claim (see below). The heap
  is "ok" or "low"; a "critical" heap is discussed below.
* TickvLite: five sectors hold a checkpoint, a large and two small records, or
  two checkpoints and a record; two keys; batches of two. `Duplicates = FALSE`:
  a batch names a key once.
* NeuralFS: 25 blocks, of which 14 are the superblocks, the free list
  and the journal, and 11 hold nodes and data; a node splits at its
  fourth item (84 in the code), files have up to two pages, the free list four
  entries (510 in the code), the journal nine blocks. Five calls (a cut counts
  for two) are enough for two files whose leaves split, a rewrite that takes
  blocks off the free stack, a root split, a full volume, a full journal and a
  full free list. `ZeroCrcs` contains one transaction whose header CRC happens
  to be zero, so that both outcomes of recovery occur.

### Fairness

* `TicketLock`: a spinning core keeps loading, a `try_lock` call finishes and a
  critical section ends. Nobody has to call `lock`.
* `IrqSafeLock`: strong fairness of a call in progress, because interrupts may
  keep coming but their handlers return and leave time for the thread.
* `ParallelMatmul`: every core keeps executing what it has begun and APs go
  round their idle loop. Dispatching is never obliged.
* `Mpmc`: calls return, receivers keep calling.
* `InferQueue`: calls return, pollers keep polling (`idle_loop` and the
  InferWorker do). There is no fairness of the watchdog or of cancellation.

## Where code and comments disagree

Three runs end in a violation of what a comment or test of the repository says;
`findings` in `PROJECT.json` quotes the lines.

* `MatmulLateCredit`: `job_done` compares the epoch and then increments `DONE`.
  A worker of a dispatch that timed out can pass the comparison, and arrive after
  the barrier was reset for the next one. That barrier opens one arrival early
  and the context is dropped under a worker.
* `MpmcGap`: a sender that gives up its position after another has moved on
  leaves a gap. `try_recv` does not skip it; it rolls back and meets it again, so
  what was accepted behind it is never received.
* `NeuralFsRewrite`: `write_file_stream_ex` replaces a file's extent item only
  in the leaf that holds its inode. Once a split has put the extent in the next
  leaf, a rewrite leaves the old extent there, lookups find it, and `read_file`
  answers "data crc mismatch" for an acknowledged write. `ReadBack` holds for
  the files this has not happened to.

More conditions on the passing runs are there because the code does not have the
property without them; changing the constants named here shows it. With
`MaxOpen` and `MaxCalls` at 3 on two slots `ClaimIntact` and `JobNotLost` fail: a
claim clears `occupied` before it has read the id and taken the prompt, so a
submitter one lap ahead refills the slot in between (`infer_queue.rs:800`; the
comment at 786-788 says that reading an unpublished slot was closed). With
"critical" in `HeapLevels`, `JobNotLost` fails: a slice that meets a critical heap
drops the active job without a reply (`infer_queue.rs:2082`). With `Duplicates = TRUE`, `Durable` and
`DegradedHonest` fail: a batch that names a key twice leaves two valid records,
and deleting the key invalidates only the newer (`tickv.rs:899`).

`Durable` is about what completed device writes made of a key. It does not say
that a refused `put` keeps the old value: `put` invalidates the old record
before it appends, so on a full volume the key is gone although `put` returned
an error.

What NeuralFS does not promise. The properties about its contents (`ReadBack`,
`ListedIffCreated`, `BlocksDisjoint`) are about volumes on which no operation
has failed and no cut happened, because the code does not keep them otherwise:

* After a cut between the journal header and the superblock, mount refuses the
  volume: the header's CRC is computed while its field is zero
  (`journal.rs:58`) and checked with the field filled (`journal.rs:86`).
  Dropping `~cut` from `CleanMounts` gives the trace. Were it accepted, the
  replay would write images whose own checksum is stale, because `log_block`
  copies a node before `write` renews it.
* A leaf's old block is free at once (`volume.rs:429`) and a later copy in the
  same transaction may overwrite it, although the superblock on the disk still
  reaches it: a cut before the commit can lose directory entries and inodes.
* An operation that fails after rewriting its leaf keeps the new tree in memory;
  a failed write puts the data blocks that tree refers to back on the free stack
  (`volume.rs:961`).

What remains in all these cases is checked without the condition:
`NoSilentCorruption` (reads return one whole version or an error) and
`OldDataIntact` (the data pages of acknowledged files stay where they are).

## Proofs

`TicketLockProofs` proves `TypeOK`, `MutualExclusion`, `NoOrphanTicket` and
`NoBarging` for any set of contexts and any number of tickets. Mutual exclusion
is not inductive: a context that enters holds the ticket being served, but that
nobody else has that ticket must be known. The invariant `Window` says that the
tickets from `serving` to `ticket - 1` are exactly those of the contexts that
wait or hold, each owned once; that a holder owns `serving`; and that what
`try_lock` has read is never ahead of `serving`. The last conjunct makes the
compare-exchange sound: if `ticket` still equals the value read, the window is
empty. `Refinement` proves that the lock implements `FifoLock`. `Window` makes the
queue of the mapping well defined (one owner per ticket in the window): a draw
appends its caller, a release removes the first, and the other steps leave the
queue alone, `try_lock`'s admission apart, which needs the queue to be empty.

`SpscProofs` proves `TypeOK`, `SlotsDisjoint`, `IndicesInRange` and the
refinement of `BoundedFifo` for every capacity, every `Room` up to it, every set
of items and number of items. The invariant adds what each side has checked and
still relies on: the producer's room can only grow and the consumer's item stays.
The refinement rests on the lemmas `SlotInjective` (positions less than a lap
apart are in different slots), `WriteInvisible`, `PublishAppends` and
`FreeRemoves`.

`IrqSafeLockProofs` proves `NoSelfDeadlock` and `FlagRestored`
for any number of cores and calls, and that the lock
implements the ticket lock it contains (`ImplementsTicketLock`), from which
mutual exclusion of the IRQ-safe guards follows by the ticket lock's own theorem
(`GuardsExclusive`), and service in ticket order across threads and handlers of
all cores by its refinement (`FifoAcrossCores`). The invariant `FlagInv` ties a core's interrupt flag to where
its thread and its handler are around the lock: between `cli` and the restore the
flag is off and `saved` is what it was; a handler runs only over a thread that is
not in that stretch.

`MatmulProofs`. `DispatchExclusive` and `TypeOK` hold for any cores, kinds and
tiles, whether or not waits time out. That two dispatchers never overlap needs to
know which labels are a dispatcher's: `BusyInv` says that a core has a product
exactly at those labels, and that `SMP_MM_BUSY` is set exactly while some core has
one. `NoUseAfterFree` and `ResultComplete` are proved under `PatientAps` (the
finding `MatmulLateCredit` is what happens without it) and speak, as in the run,
of behaviours in which only dispatchers use the ring. `MatmulInv` adds three
groups of facts:

* `RingInv`: `HEAD` counts the jobs claimed since `clear_queue`. Each of them is in
  flight or has credited `DONE` at most once, so `DONE` plus the jobs in flight is
  at most `HEAD`, which is at most the number of APs. A barrier that opens has
  `DONE` at that number: nobody is in flight, the ring is empty, and no core with
  a stale `HEAD` can win its compare-exchange. That is the state `Drained`, which
  lasts until the next dispatch clears the ring.
* `CtxInv`: the published pointer is the dispatcher's, its context lives until
  the dispatcher ends it, and whoever works works on it.
* `TileInv`: every tile below the counter is written or in a core's hands, and a
  dispatcher that waits has seen the counter at its end. With `Drained` nobody has
  a tile in hand, so all are written.

`MpmcProofs` proves `TypeOK`, `SlotOwned`, `AcceptedItemsStored` and
`ReceivedOnce` for any senders, receivers and capacity. The positions give none of
it (they are rolled back and passed); the state words do. `SlotInv` says that a
process writing a slot finds it STORING and one reading it LOADING, and those
states are entered by compare-exchange from EMPTY and READY. `ItemInv` says that
READY and LOADING slots and accepted items correspond one to one, and that between
the access to a slot and the store of its state word process and slot have the
same item.

The inference queue takes two modules. All hold for any submitters, pollers,
slots, calls and slices.

* `InferProofs`, the jobs: `OneJobInFlight` and `AnsweredOnce`, with any heap and any number
  of open calls. `FlightInv` says that whoever is inside `poll_slice` holds the
  latch, that a claim in progress finds ACTIVE empty, and that a claim about to
  install its job has already published its id. The watchdog's abort comes from
  outside the latch; it keeps the invariant because it only meets a job that is
  being worked on, so no claim is in progress, and it ends that job's phase together
  with its id. `JobInv` says that a job is in one place at a time (with its
  submitter, in a slot, with a claim, active) and not answered while it is there;
  an answer takes it out of its place. Every step moves a job from one place to
  another, takes one out, or admits a new one (`JobEdge`).
* `InferProofs`, the ring: `RingInv` is about positions. Submitters filling slots have
  distinct positions less than a lap from `HEAD`, their slots are not published,
  and a published slot belongs to a position between `HEAD` (one less while a claim
  has moved it and not yet emptied the slot) and `TAIL`. `KeptInv` is about
  contents: a slot keeps the call and the id of its position until the claim has
  taken them. `LostInv` says that an accepted call without a reply has a place.
* `InferTheorems`: what needs counting. `PendingExact` follows from `PendInv`:
  `PENDING_COUNT` plus the submitters that have published and not yet counted is
  the number of published slots plus a claim that has not yet counted down.
  `TypeOK` bounds positions and ids by the calls: `CountInv` counts the submitters
  that have begun a call without taking a position and those that have a position
  without an id. `ClaimIntact` and `JobNotLost` need `MaxOpen <= QueueCap`, and
  `JobNotLost` that the heap never gets critical; *Where code and comments disagree*
  says what the code does otherwise. The first hypothesis enters in `RoomAtTail`:
  a claim empties `occupied` before it reads the slot, so the test for a full ring
  admits a submitter a whole lap ahead. Every position of that lap has an open
  call, and the submitter's own is one more, so by the pigeonhole principle this
  takes more open calls than slots.

`TickvProofs` proves `TypeOK` and `NoClobber` for any keys, values, volume size and
batches, and `Durable` and `DegradedHonest` when no batch names a key twice
(`~Duplicates`; what happens otherwise is said above). Nothing the properties speak
of is kept up to date by a step alone: the index and the append offset are thrown
away by every crash and recomputed by a scan, so the invariants say what the flash
looks like and the proof shows that a scan of such a flash finds the right things.

* `LogInv` is about the log and needs no condition on batches. `Log`: no sector is
  blank before a written one, every record fits, only whole records are ever
  invalidated, and a sector that is no header follows the header of its record.
  `Frontier`: the append offset of a complete mount is the end of the log, a blank
  sector or the header of a torn record; a degraded mount has no room, which is why
  it cannot overwrite what it has not seen. `Pointers`: the index and the snapshot
  in every whole checkpoint point at whole records of their keys, those of the
  snapshot before the checkpoint.
* A scan is handled by its gaps (`ScanMeets`). For a whole record between start and
  end, take the last offset up to its header that the scan looks at. The step from
  there leads past the header, so that offset is the header, or the step is over
  two sectors and the header is the second. The latter cannot be: by the CRC test,
  or by `Log` for an invalid record, the second is a body. So the record is met.
  `ScanEnd` shows in the same way that the sector before the end is written. That
  a last offset exists (`LastOf`) comes from the well-foundedness of the numbers,
  in place of an induction over the scan.
* Which checkpoint the search finds does not matter: any whole one is sound,
  because `KeyInv` says of each what it lists and the scan behind it sees the rest.
* A mount from a checkpoint starts at `TailStart`, the greater of the checkpoint's
  offset and the ends of the records it lists, plus the checkpoint's sectors. By
  `Pointers` that is exactly the end of the checkpoint.
* `KeyInv` is about the keys. `KeyRecords`: a key has at most one live record, it
  comes after all of the key's empty records, and it holds what was stored.
  `KeyIndex`: a complete mount indexes every live record and a checkpoint lists
  those before it. `KeyCall`: the keys of a call differ and each is invalidated
  before it is written, which is where a repeated key would break the first
  conjunct. `Durable` and `DegradedHonest` then follow from what `get` tests.

TLC has checked both invariants on all 2,617,011 states of the run's instance. A
record has one or two sectors, in the model and so in the theorems: two are enough
for a torn record, and longer ones only have more places to be torn at.

The only other assumptions are the named ones on constants: bounds are natural
numbers (`MaxTicketAssumption`, `MaxCallsAssumption`, and parts of the others),
rings have a slot (`SpscAssumption`, `MpmcAssumption`, `ApWorkAssumption`,
`InferQueueAssumption`), there are finitely many APs (`ApWorkAssumption`), senders
are not receivers, the BSP is not an AP, dispatchers are cores
(`MatmulAssumption`), marker values are not items, and TickvLite's checkpoint key
is not a user key (`TickvConstants`).
Counters are unbounded numbers; their wrap-around at the word size of the code is
not modelled.

Every safety invariant of the lock, product, ring, inference-queue and TickvLite
runs, their action properties and the three refinements are thus proved. Model-checked only:

* every liveness property (fairness and `ENABLED` are outside the prover);
* `NeuralFs`, whose operations walk trees recursively: the installed provers cannot
  instantiate the induction theorems that such definitions need;
* the runs that end in a violation.

## Not modelled

`PROJECT.json` gives the reason for each part. In the modelled files: the sleep
of the AP idle loop; the deadline of the boot proof job; `len` and the drop of
the MPMC queue; TickvLite's `compact` (the file backend never calls it by
itself), its statistics and values above `MAX_VLEN`; the FAT chain walk under
`FileFlash`, and the RAM and NVMe backends. The NVMe region accepts only reads of
whole blocks and `mount` reads 16-byte headers, so the store does not run on it.
Of NeuralFS: device errors and writes reordered by a disk cache (writes reach the
disk in the order issued), the backup superblock, the checks on names, items
written by older versions without a CRC, `verify_file` (the walk of `read_file`)
and the agent's path handling.

Parts whose code has no caller in the tree are not modelled either, since no
state of the program would be an initial state of theirs: the async executor (no
future is ever registered), the work-stealing pool (nothing is ever pushed) and
the mesh (`p2p_tick` is not called). Most of the repository's lines are drivers,
model execution, text processing, drawing and protocol libraries; the models
cover the small share that is concurrent or must survive a crash.

## Plan

1. More of the system: the run queue of agents, the event bus and its bounded
   `try_lock`, the staged update and its rollback, TickvLite's `compact`, the AP
   idle loop's sleep and wake.
2. More proofs: `BlocksDisjoint` and `OldDataIntact` of `NeuralFs`, with the walks of
   the B-tree as sets of nodes, the way the scans of `Tickv` are sets of offsets.
3. Abstract specifications for the inference queue (each call answered once), for
   TickvLite and for NeuralFS (maps that survive crashes under the conditions
   named above).
