# DOS-C32 in TLA+

DOS-C32 is a 32-bit kernel that runs DOS programs: a DOS personality (`dos/`)
over a guest machine, an input stack and a device layer (`kernel/`), an I/O
manager with a FAT driver (`storage/`), and a shell. This directory holds TLA+
models of its core logic, TLC configurations that check them on small
instances, and TLAPS proofs of theorems about seven of the systems they
model (arena, leases, EXEC coordinator and journal, serio, guest memory, processes). Paths below are
relative to the repository (`src/` in `PROJECT.json`).

Almost all of DOS-C32 runs on one CPU without preemption. What makes it hard is
not threads but

* **failure between two effects**: every access to guest memory may fault, a
  repair may fail too ("torn"), every sector write may fail, the machine may
  stop; the code answers with undo, and with sticky poison when undo cannot be
  proved;
* **re-entry**: services called by the EXEC coordinator, and drivers called by
  serio, may call back in;
* **interrupts** between two guarded sections of serio, and the keyboard's
  interrupt against the prompt and the program loop;
* **a device that speaks at any time**: key bytes, command answers and reset
  reports share one byte stream with small buffers on the way;
* **stale names**: handles with generations that outlive what they name;
* **arithmetic at an edge**: 16-bit segments and offsets, A20, generation and
  sequence numbers that must never wrap.

## 1. Inventory

| Component | Source | State | Operations | Interacts with | Hard behaviour | What makes it correct |
|---|---|---|---|---|---|---|
| MCB arena | `dos/memory.c` | chain of headers in guest memory; `init`, `machine_poisoned`, generation, strategy | initialize, allocate, resize, free, transfer, free-process, audit | machine layer; leases; INT 21h 48h-4Ah, 58h | two-header updates that fault or tear; sizes the guest can overwrite | the chain tiles the arena; promised blocks are exactly the owned ones; poison is final; every call ends |
| Memory leases | `dos/memory_lease.c` | slots with generations, table identity | acquire, transfer, prepare/publish rebind, publish, release, abort | arena, EXEC seal, journal | stale handles, storage reuse, faults between free and clear | no block lost, freed twice, or freed for another owner |
| EXEC coordinator | `dos/exec_transaction.c` | one slot per request with some fifty states; table poison | begin, the steps from open to prepare-backend, seal, abort, retire | gate, file lease, leases, SFT batch, journal, backend session, runtime | re-entry from each service; retried aborts; services poisoned meanwhile | one call at a time; publication all or nothing; everything given back once |
| EXEC journal | `dos/exec_journal.c`, `dos/machine.c` | undo records, A20 snapshot | stage, stage span, abort, seal, poison | guest memory | overlapping and wrapping writes; torn writes; A20 moving | memory can be rebuilt at every instant |
| EXEC seal, file lease, SFT batch, observer, gate, backend session, hand-off, executor, overlay | `dos/exec_*.c` | tables of their own | called by the coordinator; the executor drives it | coordinator, SFT, process | partial failure, retained answers | each keeps its half of what the coordinator assumes |
| Process, JFT, SFT, termination | `dos/process.c`, `dos/jft/`, `dos/sft_adapter.c`, `dos/runtime_owner.c`, `dos/termination.c` | PSP chain, handle tables, reference counts | open, inherit, close, resize, terminate | arena, storage, EXEC | four-step termination, one step failing | reference counts match the tables; a parent is restored once |
| INT 21h dispatch, personality | `dos/int21.c`, `dos/personality.c`, `dos/execution_loop.c` | few words | decode and call | all DOS components | breadth | drives the others within their contracts |
| Image loading; environment, paths, drives, NLS, find records | `dos/image_load.c`, `dos/environment/`, `dos/path.c`, `dos/drive/`, `dos/nls/`, `dos/find/` | little | byte formats | EXEC, storage | numeric edges | bounded parsing |
| XMS and HMA; EMS and VCPI | `dos/xms/`, `dos/ems/` | handles, locks, page maps | allocate, lock, move, grow, map | physical pages | three-step reallocation with failing release | no page in two handles |
| Serio | `kernel/input/serio/` | ports, drivers, FIFO, loss epochs | register, bind, pump, recover, isolate, unregister | i8042, keyboard and mouse drivers, interrupts | interrupts and re-entry at every guarded section | no byte forgotten, overtaken or handed to another binding |
| Input core, AT keyboard, guest PS/2, console | `kernel/input/core/`, `keyboard/`, `console/` | focus, queues, command slots | route, command, ack, poll | serio, VM86 guests | focus change during delivery; answers inside a write | each event goes to one focus; a command ends once |
| Native input, i8042, legacy input runtime | `kernel/x86_vm/platform/` | controller state, quarantine | init, transact, recover | serio | timeouts and late answers | a quarantined controller is silent |
| IRQ routing, legacy chipset | `kernel/x86_vm/irq/`, `kernel/x86_vm/chipset/` | producers, actions, PIC | register, deliver, withdraw | all drivers | withdrawal in flight | no action after withdrawal |
| Guest space, VM86, physical memory, paging | `kernel/x86_vm/`, `kernel/x86_paging.c` | page owners, spaces | map, unmap, enter | machine layer | lifecycle order | one owner per page |
| I/O manager, transactions | `storage/core/` | volumes, files, the transaction's sector table | mount, unmount, open, read, write, begin, stage, commit, rollback | FAT driver, block devices | sector writes that fail, rollback that fails | a failed mutation is undone or the volume is quarantined |
| FAT driver | `storage/fat/` | free count, hint, open files | create, write, set info, rename, mkdir, query | I/O manager | several sectors per mutation; interruption | no cross-links, sound chains, both tables equal |
| Devices, ATA, discovery | `kernel/ata*.c`, `kernel/block_device.c`, `storage/core/device.c`, `discovery.c` | registry, port protocol | read, write, flush | I/O manager | writes that land although they are reported failed | one outcome per request |
| Shell, COMMAND, libc32, native processes, boot, display, tools | the rest | user interface, pure functions, start-up | | | little | unit tests |

`PROJECT.json` lists the same components with their files and status, and the
hazards of the code line by line, each with the properties that cover it or the
reason why none does.

## 2. Modules

| Module | What it is |
|---|---|
| `McbArena` | the arena, one step per header access |
| `McbArenaMC`, `McbArenaProofs` | its instances; its theorems |
| `MemoryLease`, `MemoryLeaseProofs` | the lease table over an abstract arena; its theorems |
| `ExecEncoding` | the slot of a request and the encoding rule of each state (`slot_*_has_valid_encoding`) |
| `ExecTransaction`, `ExecTransactionProofs` | the coordinator with the services as it sees them; its theorems, and the proof that it implements `ExecPromise` |
| `ExecPromise` | abstract: what an EXEC request promises the rest of the system |
| `GuestMachine` | far addresses, A20, `dos_machine_replace_far` |
| `ExecJournal`, `ExecJournalMC`, `ExecJournalProofs` | the undo journal; its instance; its theorems |
| `Serio`, `SerioMC`, `SerioProofs` | ports, drivers, streams, interrupts; its instance; its theorems |
| `FatDisk` | what the FAT driver reads out of a disk and how it prepares sectors (operators only) |
| `FatVolume` | a mounted volume: manager, transaction and driver |
| `FileStore` | abstract: a tree of files, each call atomic |
| `FatVolumeMC` | instance, and the refinement of `FileStore` |
| `GuestPages` | the guest's physical pages: firmware map, page owner, leases |
| `FirmwareShadow` | private copies of firmware pages and the page-table entries that show them |
| `XmsManager`, `EmsManager` | the XMS driver; EMS and VCPI |
| `GuestMemory`, `GuestMemoryMC` | the three over one page owner, their properties; the instance |
| `GuestMemoryProofs` | the invariants of guest memory; the proof that it implements `ExtendedStore` |
| `ExtendedStore` | abstract: conventional memory, XMS blocks and EMS pages as separate stores |
| `SftRegistry` | open file descriptions |
| `ExecHoldings` | what one EXEC holds while it is under way: the references its child inherits, its executable, the execution sessions |
| `JftResize`, `Termination` | handle tables and AH=67h; CurrentPDB, DTA and the end of a process |
| `Int21Handles` | the INT 21h functions on handles and processes |
| `DosProcess` | composition: COMMAND, the executor, the programs and the driver |
| `DosBooksProofs`, `DosProcessProofs` | lemmas on the operations `DosProcess` is made of; its theorems |
| `OpenFiles` | abstract: handles, descriptions and cursors |
| `ConsoleKeyboard`, `GuestKeyboard` | the two consumers of key events |
| `InputCore` | focus, routing and the queue between the device and the consumers |
| `KeyboardHardware`, `Atkbd`, `NativeKeyboard` | keyboard and i8042; the AT keyboard driver; capture, serio port and IRQ1 action |
| `InputRuntime` | the owner of the whole path: prepare, commit, rollback, quarantine, focus, pump |
| `LegacyInput` | composition: boot, prompt, program loop, hardware and faults |
| `KeyStream` | abstract: every key reaches the consumer in focus once and in order |

`GuestMemory`, `DosProcess` and `LegacyInput` are each built as a chain of
modules, one per component, of which the last one composes the rest. The
modules of `DosProcess` and `LegacyInput` model calls as operators on a record of
the domain's state: an operation takes the state and gives the state it leaves
and a status (a set of them where an external part may fail), and the
composition turns calls into actions. This is how the code nests, several calls
deep and on one thread, and it keeps error paths as results rather than
as extra program counters.

### McbArena

`mem` is guest memory, one record per paragraph, read as an MCB; `arena` is
`struct dos_memory_arena`; `frame` holds the locals of the call in progress, its
`pc` naming the loop the C code is in; `held` records what guests were promised
by calls that returned. A header read that faults ends the call; a header
replace succeeds, fails with the old bytes restored, or tears, which leaves any
record in the paragraph and sets `machine_poisoned`. `Begin` is a guest's call,
a guest's store or a new initialisation, `Step` one iteration of
the call. With `Confined` guests store only into blocks they were given; without
it (in the theorems only) they store anything anywhere. The limit on the number
of headers a walk may visit (`MCB_MAXIMUM_WALK`) and the check that a successor lies
above its header are left out: the model shows that walks end without them. Wrappers that translate a status into a DOS
error code are left out.

### MemoryLease

`table` is the lease table with its identity, `origin` says for every block
which lease answers for it, `plans` are the rebind plans EXEC holds, `issued`
all handles ever returned; every operation is offered every issued handle, so
stale ones come by themselves. The arena is what `McbArena` promises. The guest
runs only while no lease is active, as the header demands. `PrepareRebind` is
prepare together with EXEC's staging of the plan's bytes in the journal, and
`UnstageRebind` the journal's abort.

### ExecEncoding, ExecTransaction, ExecPromise

The coordinator has one live request at a time. A public operation is one action
that checks encoding and state and enters the first callback, and one action
per callback that returns; `slot.state` is the program counter. All operations
are enabled during callbacks too: that they are refused there follows from the
states, it is not a guard. `svc` is what the services really hold, which the
slot's mirror of it may get wrong. Services answer with every result of their
contracts (done, refused, retained, poisoned); CurrentPDB moves and services are
poisoned between any two steps. The backend may answer
PREPARE with a result outside its contract, which
`exec_backend_session.c` detects and turns into a poisoned session. `Stranded`
names the one kind of request this catches, FAILED with a load rebind while its
backend is poisoned, see the observations. Left out are the
poisonings for results that the modelled services cannot give (a plan that
`PrepareHandoff` finds inconsistent, `exec_transaction.c:4277`, and a state that
`BackendReleased` does not know, `:4620`) and, in the resolution of a handle,
the comparison of the services bound to the slot with the caller's
(`slot_matches_services`): there is one set of services.
`ExecPromise` knows only a phase, a set of held resources and CurrentPDB; the
refinement mapping reads them out of `svc`.

### GuestMachine, ExecJournal

A far address wraps within its segment and, with A20 off, at 1 MiB. One action
is one `dos_machine_replace_far`; a span is cut into records as in the code. A
failing machine call either leaves memory alone or leaves unknown bytes in
the cells it touches and poisons the machine. `base` is memory at initialize.
The A20 gate may move between any two calls, not within one.

### Serio, SerioMC

One CPU. A process-context call is a frame of `stack` and takes one step per
guarded section or driver callback. The guard masks interrupts, so `Interrupt`
is one atomic step that may come between any two of them. A callback counted in
`in_flight` may itself quiesce, unbind, recover, isolate, write, and unregister a subtree or a
driver, to depth `MaxNesting`. The other calls start only when none is under way
(`Idle`), although the code would let a callback make them: a pump, a bind or a reconnect
inside a callback, a child published there and a driver registered there are not
explored. A byte is its
sequence number; `tally` holds the counters and the history of what happened to
each byte. `UnregisterSubtree` keeps the check of the subtree and the stopping
of it apart, as the code does. `connected` is the driver that believes it
has a port, `Abandoned` when the port was cleared without its knowledge. Drivers' and the registry's own
generations, `stream_isolated` (set and cleared with `recovery_required`) and
diagnostic counters are left out. The shipped platform passes
`caller_serializes_irq` with no guard callbacks and serializes outside
(`legacy_input_runtime.c:583`, `:735`); the model covers the guarded contract,
which allows more interleavings.

### FatDisk, FatVolume, FileStore

`disk` maps logical blocks to sectors: table sectors in every copy, the fixed
root, and data sectors with directory entries or one value of file data.
`volume`, `files` are the manager's and the driver's slots together, `op` the
mutation in progress with its cached sectors. A mutation prepares its sectors
(`FatDisk`), zeroes new directory clusters, stages, writes them in the cache's
order, flushes; a failing write or flush starts the rollback, last sector first;
a rollback that fails quarantines transaction and volume. `Interrupt` stops the
machine between any two writes and starts it with what is on the disk.

One cluster is one sector, and a sector write is atomic and ordered (the ATA
driver flushes each one). A write of several sectors is
several calls. A sector write reported as failed may have reached the disk or not
(`ata.c:405`). FAT12 entries that straddle two sectors, the FAT32 root,
searches, several volumes, handles of an earlier generation and drivers that answer
outside their contract are left out.

Nothing stops a caller from creating over a file, or moving it to another
directory, while it is open. `stale` names the open files that lost their file that
way, and `damage` says what has happened to the promise: `"torn"` by an
interruption, `"unknown"` after a failed rollback, `"landed"` when a write
reported as failed had reached the disk, `"stale"` after a write through a handle
in `stale`. Each property says which of them it excepts.

`FatVolumeMC` adds the history variable `view`, what the callers see, updated
when a call ends; `FileStore` has to hold of `view`.

### GuestPages, FirmwareShadow, XmsManager, EmsManager, GuestMemory

Memory is counted in units of which `PageUnits` make a page. `pm` is
`struct x86_guest_memory_manager` (available and allocated bitmaps, hint, lease
slots with generations), built from one of the firmware maps `MemoryMaps` by
the rules of `map.c`; `mem` is what the units hold. `shadow`, `pte` and `space` are
the firmware shadow, the page-table entries of the firmware pages and the guest
space; `xms`, `ems` the two managers, `hwFrame` what the EMS page frame really
shows. Every call is one step: the services run without interruption. The
zeroing of a page may fail or be uncertain, a frame mapper and a VCPI platform
may fail or not say what they did, an access to conventional memory may fault
in the middle of a move, and something else may overwrite a page-table entry
(`StrayEntries`).

`TakeDown` leaves out the STALE_BINDING and INVALID answers of
`guest_shadow_restore` (`firmware_shadow.c:209`): the shadow asks only for bindings
it made. When a re-map in `RestoreFrameSlots` ends in doubt the slot is taken
not to show its page; EMS is poisoned in either case. The A20 gate and the HMA are left out, and lock counts stop at a small maximum.
EMS is modelled as its code is, although the kernel at this commit binds no
page-frame mapper and so never publishes INT 67h (`initialize_dos_ems`,
`kernel/main.c:1793`).

### SftRegistry to DosProcess

A state `d` holds the descriptions (`sft`), the inherited `batches`, the file
`leases`, the backend's open files (`open`), the execution `sessions`, the
memory blocks with their owners (`arena`), the PSPs with their handle tables,
`vectors` (whose handlers are installed), `runtime` (CurrentPDB and DTA with a
generation) and `poison`. `shell` and `exec` are the program counters of the
driver in `kernel/main.c`, with its frames, and of the executor: one thread, so
their steps follow one another. A program may at any time make every INT 21h call
modelled, with every handle. The file backend and the execution backend may
fail `FaultMax` times in all.

Left out: the sizes and contents of files (`FatVolume`), the bytes of a PSP, the
generations in the handles of leases, batches and sessions (each has one holder).
What a freed block held is kept as long as a call that reads it is under way,
which termination is: it frees the memory before it closes the handles. AH=50h
is offered only PSPs of processes that exist, while the code accepts every BX;
the guest's own AH=48h-4Ah, which may free a block of another process, are
`McbArena`'s. With the VM86 backend some paths
cannot be reached and do not appear: more frames than the driver has, a
retained session, a failing replacement of CPU state, also not after the seal
(`execution_loop.c:123`), and a request that cannot be retired
(`exec_executor.c:157`). Files and character devices are inheritable or not, by
bit 7 of the open mode.

### ConsoleKeyboard to LegacyInput

A record `h` holds the whole input path. The kernel runs with interrupts off
except while the prompt waits and while a program runs, so a kernel call is one
step, and key presses, the keyboard's transfers to the controller and the
interrupt come between any two. Of the scan codes the model keeps what the
decoder tells apart: two modifiers (left shift, whose break code is also the
report of a reset), an extended key, the key its second byte would be, and the
answers ACK, RESEND and BAT. `kbd.down` are the keys that are physically down.
`kbd.torn` says why the stream is not what was typed: `"disabled"` while the
keyboard does not scan, `"reset"`, `"ambiguous"` (a reset whose AA can be taken for the break
of the left shift or for the rest of an extended code) or `"damaged"`. Faults, at most one:
a failing update of the controller's command byte, a keyboard that does not
answer, refuses, is reset or sends a damaged byte, and a guest controller that
faults or stops. `sys` says where the kernel is, `asking` being a program that
waits in an INT 21h console input call.

Only the translated set 1 is modelled; LED and typematic bytes are one SET command;
the auxiliary port is disabled, as in this kernel. Serio appears as the one port
and the calls the driver makes (`Serio` has the full registry); stream loss
cannot occur behind the preflight and is not repeated here. The raw port
accessors of this kernel cannot fail, `x86_legacy_input_runtime_rollback` is not
called by it, and the guest IRQ router is published once and never quiesced,
so the guest space can only fail by being poisoned. The readback of the command
byte is one step with the drain before it; a key byte taken for the answer is
one of the cases of the failing update. The second looks of `input_submit` and
`publish_focus` at the focus, and their BUSY answers, are for an interrupt in the
middle of a kernel call, which this kernel does not allow; they are left out.

In all modules a call that is refused without any effect is no step.

## 3. Runs

| Run | Properties | What it shows |
|---|---|---|
| `mcb_arena` | `TypeOK`, `ArenaTiled`, `PromisesKept`, `CallsExact`, `PoisonIsFinal`, `CallsProgress` | Confined guests, faults and tears at every header access: between any two accesses an unpoisoned arena is one gapless chain, the owned blocks are exactly those promised, each call does what it reports; after a failed repair no call changes memory but for the one header its unwind puts back; every walk moves on at each step |
| `exec_transaction` | `SlotsHeld`, `AllOrNothing`, `KeepsPromise`, `AbortSettles` | Two requests, all orders, all outcomes, also a malformed backend: calls never nest, the file is closed once, every slot stays one that `validate_table` accepts (but for `Stranded`), publication is all or nothing, `ExecPromise` is implemented, and one abort, once accepted, leaves the request with nothing held, or with what a service retained in a state that abort accepts again, or quarantined |
| `exec_journal` | `TypeOK`, `Recoverable`, `AbortRestores`, `SpanAtomic`, `SpanExact` | Overlapping, wrapping and torn writes: abort restores memory exactly; a failed span leaves no trace, a successful one writes exactly its bytes |
| `memory_lease` | `TypeOK`, `LeaseBacked`, `OwnersRespected` | No stale handle has an effect; each leased block is answered for by one lease; nobody frees another's block |
| `serio_stream` | `TypeOK`, `BindingsHeld`, `BytesKept`, `RecoveryExact` | Interrupts and re-entry everywhere on one port, and two ports in a tree: every byte is delivered, consumed, closed or counted as lost, in order; a stream reopens only by the recovery of its latest loss; no orphaned child, no port bound to a driver that is gone |
| `fat_volume` | `TypeOK`, `Sound`, `HandlesFollow`, `KeepsFiles` | Writes that fail and may have landed, failing flushes, failing rollbacks, interruptions, files created over and moved while they are open: no cross-links, a sound volume, open files that stay on their file unless it is taken from them, each call atomic, and a volume whose rollback failed is not used |
| `fat_interrupted` | `NoCrossLink`, violated | Interrupted truncation (finding 1) |
| `fat_failed_write` | `QuarantineHolds`, violated | A write reported as failed that has landed is not put back (finding 2) |
| `guest_memory` | `TypeOK`, `LeasesAccounted`, `QueryHonest`, `MappingsBacked`, `KeepsStore` | XMS, EMS, VCPI and the firmware shadow compete for three pages with failing zeroing, mapping and copying: every lease has one user and every user its lease, what is reported free can be had, no mapping shows a page of someone else, and `ExtendedStore` is implemented |
| `dos_process` | `TypeOK`, `BooksBalance`, `Restored`, `KeepsHandles` | Programs that open, close, inherit, resize, start children and end: references, backend files and table blocks are exact, COMMAND is back as it was, and `OpenFiles` is implemented |
| `legacy_input` | `TypeOK`, `Owned`, `NoStuckKeys`, `KeepsKeys`, `SourceServed` | From the key to the consumer through full queues, focus changes, boot failures and faults: `KeyStream` is implemented, a modifier the console holds is down on the keyboard or its release is on its way, ownership is exact, a byte in the controller is fetched |
| `input_prompt` | `PromptServed`, violated | At the prompt nobody fetches a byte that was left (finding 3) |

Several properties are conjunctions of named parts, stated next to them:
`SlotsHeld` of `Serialized`, `ClosedOnce`, `EncodingHeld`; `LeaseBacked` of
`LiveBlocks`, `NothingLeaked`, `StaleRefused`; `BytesKept` of `Accounted`, `Fifo`,
`PreflightKeepsByte`; `Sound` includes `NoCrossLink`, `KeepsFiles`
`Quarantines`, `BooksBalance` `ReferencesExact`, `BackendOwned` and
`TablesOwned`.

Every property of a passing run has a mutant in `PROJECT.json`: the definition
of one piece of code replaced by a plausible bug in it (the operators whose
comment begins with "Fault:"), under which TLC finds the property violated.

### Bounds

* `mcb_arena`: segments 0..5, an arena of four paragraphs from 1 to 5: enough
  for two blocks with data, a split, a merge in both directions, and a header
  next to each end. Two interchangeable owners (symmetry), one
  re-initialisation. Guest data is drawn from records that look like a header
  and ones that do not.
* `exec_transaction`: two slots of one generation each, so two requests one after
  the other and a table that is used up; runtime generation to 2, so a request
  meets a runtime that moved.
* `exec_journal`: three byte values (old, new, torn), addresses 0..4 with
  wraps at 3 (offset) and 4 (A20), three records of two bytes: spans
  of up to three records, capacity overflow, a record that crosses a wrap, two
  segments that alias.
* `memory_lease`: two slots, blocks, owners, table lifetimes and arena
  generations; slot generation to 2, so exhaustion is reached.
* `serio_stream`: two interchangeable ports, two drivers, one driver slot, port
  capacity one growing to two by `ReplaceStorage`, callbacks nested to depth two.
  `SerioBound` joins two families of states: bytes flow through one port that
  is registered once, with a queue of two, five bytes, sequence numbers to 4
  (exhaustion is reached), one loss epoch (a second loss poisons the port) and two
  bindings, the fourth byte only after a loss and at most one byte refused; or both
  ports form a tree, are registered again and no byte comes.
* `fat_volume`: three clusters, two table copies, table entries of the clusters
  over two sectors, two root entries, two entries per directory sector (so a
  subdirectory holds no file until it is extended), a transaction of
  five sectors (so some mutations exceed it), paths n1, n2, n1/x, n2/x, where n1 and n2 are
  interchangeable (symmetry). `FatBound`:
  the first open file is written; a second one is read beside it or, when it was created
  over the first or after the first was moved away, written too, while the free
  count is unknown and nothing is rolled back; on a volume torn by an
  interruption there is one file, the device works and the free count is unknown;
  contents vary only on a sound volume whose free count is unknown and whose open
  files have their file, since chains, cross-links and the free count do not
  depend on them. When nothing is promised any more (a failed rollback, a landed write)
  the volume is followed to the end of the call; a write through a handle that lost
  its file is checked and not followed. `fat_interrupted` has the same
  bound with one open file and no contents, `fat_failed_write` none: TLC stops at the
  violation.
* `guest_memory`: three pages of two units over two firmware maps, one with a
  reserved unit inside a page, one with overlapping ranges that end inside a page;
  two lease slots of two generations, one XMS handle, one EMS handle of two
  pages, one VCPI page, one shadow page with two clients. `Interesting` follows
  behaviours for three leases, with EMS or the shadow besides XMS, and with at
  most one unit (besides the first) that holds something, enough to see
  contents move, overlap and leak; steps out of such states are still checked.
* `dos_process`: COMMAND and two nested children, two descriptions of two
  generations, two backend files, tables of one or two entries, one block for a
  larger table, one failure, two calls in all of AH=1Ah, 25h, 50h and 67h
  (`ChangeMax`), a runtime generation to 5. Two entries and two descriptions
  are enough for sharing, for a table that shrinks over an open handle, and for
  an inherited handle that its parent closes. With one block for tables AH=67h goes
  from the PSP's table to an external one and back, never from one external table to
  another; the lemma `ResizeKept` covers that case for any number of blocks.
* `legacy_input`: raw FIFO, event queue and console FIFO of two places, a guest
  controller of two bytes, a keyboard buffer of three, four key presses or releases
  and two programs (so the focus returns to a guest, and events of an earlier focus wait
  behind current ones), command-byte updates to 5 (what a boot and its undo need), a
  negotiation of four writes and two NAKs. At most one fault, and with it three keys and one
  program (`FaultyKeyMax`, `FaultyMoveMax`): 616,000 states. `input_prompt` has
  queues of one place, three keys, one program and no faults, which is enough to
  leave a byte behind.

The generation and sequence maxima of the code are 32-bit constants; the models
keep the maxima as parameters and reach them.

`CHECK_DEADLOCK FALSE` appears where the system may stop: exhausted
generations or bounds, a poisoned journal, a disk nobody mounts.

### Fairness

* `AbortSettles`: weak fairness of a callback's return, since a service call
  returns. Nothing is assumed of the callers: the executor aborts a failed request once
  (`exec_executor.c:22`), so no repeated abort is assumed, nor a service that
  gives in.
* `SourceServed`, `PromptServed`: the keyboard executes and sends, the prompt
  reads what it has, a latched interrupt is taken once interrupts are on, and the
  program loop comes round to a pump whose budget the guest's other devices do
  not use up. All of it is weak fairness; for the interrupt and the
  pump it is written out with the condition that enables them, since `ENABLED` of
  these actions is costly to evaluate. The loop runs for ever and pumps on
  every round (`kernel/main.c:1973`), the CPU takes an interrupt that is pending.

### Findings

1. `fat_interrupted` (documentation): `docs/CODING_STYLE.md:69` promises an order
   of writes that cannot cross-link a live file after an interruption. Creating
   over an existing file writes the freed table sectors before the directory
   sector. With `InterruptTruncation = FALSE`, as in `fat_volume`, the promise
   holds for all other mutations.
2. `fat_failed_write` (documentation): `docs/CODING_STYLE.md:73` asks for a sticky
   poisoned state if rollback cannot prove restoration. `ata_device_write_sector` also
   reports failure after the whole sector was transferred (`kernel/ata.c:429`);
   `iomgr_transaction_commit` puts back only the sectors whose write succeeded
   (`storage/core/transaction.c:205`), the rollback succeeds, and the volume stays live
   with one new sector among the old ones. `fat_volume` includes these writes too, and shows
   that this one sector is the only difference (`Quarantines`).
3. `input_prompt` (documentation): `docs/SERIO.md:35` says that a byte left in the
   controller for want of room is polled for again from process context. That is
   so while a program runs; at the prompt, `keyboard_getchar`
   (`kernel/keyboard.c:799`) empties its queue and halts for an interrupt that
   does not come, because the byte's edge has been consumed.

### Observations

What the models show about the code and no run states on its own:

* **EXEC.** After the backend session reports POISONED to `prepare_backend`
  (`dos/exec_transaction.c:4344`) the slot is FAILED but still carries rebinds
  and hand-off, which `slot_publication_has_valid_encoding` accepts only in later
  states; `validate_table` then refuses every call, abort included, though
  `dos_exec_transaction.h:857` promises an idempotent unwind. `Stranded` is the
  exception `EncodingHeld` makes for it. `AbortSettles` makes none, and does not
  speak of it: that abort is refused, not accepted. No test or driver of the repository
  gives such an answer to PREPARE.
* **Serio.** A port that runs out of loss epochs is poisoned with its driver bound,
  and `serio_port_unregister_subtree` detaches only from an active port
  (`binding.c:481`) before it clears one, so the driver's `disconnect` is never
  called and it keeps its connection to a port that is gone. The proof attempt
  for `ConnectionsOwned` found it; the property excepts it by `Abandoned`. The code
  needs more than 2^64 - 2 losses on one port for it.
* **FAT.** A file may be created over, or moved to another directory, while it is open. Its
  handle then goes on with the clusters and the directory entry it remembers; a write through
  it may reach clusters that are another file's by now. The properties follow the handles
  that lost their file (`stale`) up to such a write; nothing in the repository promises
  what happens then.
* **Processes.** A program that calls AH=50h and ends is not terminated: the plan
  is refused as stale (`dos/termination.c:114`) and COMMAND goes on with a
  process, handles and handlers that nobody owns (`Restored` excludes it by the
  history variable `strayed`). A poisoned backend leaves an aborted transaction
  that is not retired.
* **Keyboard.** AA during negotiation is read as a reset although it may be the
  release of the left shift, which fails the boot; a reset while the left
  shift is down is read as its release and never reconnected, so another modifier that was
  down stays held at the console (`NoStuckKeys` excepts it by name, `"ambiguous"`; the
  protocol gives the driver no means to tell the two apart). After the boot no
  command has a timeout. A damaged ACK at boot is not asked for again. A reset
  seen at the prompt waits for the next program to be reconnected. A program
  that waits for a character through INT 21h while it has the focus waits for
  ever, because the default console is unbound. A key byte that arrives during
  the readback of the command byte counts as a failed update. The IRQ1 action
  cannot be released while its dispatcher is active
  (`native_action.c:213`), and an edge that is latched when the runtime is
  quarantined halts the machine.

## 4. Proofs

For all values of the constants that satisfy the named assumptions:

| Theorem | Statement |
|---|---|
| `McbArenaProofs!TypeCorrect` | `Spec => []TypeOK`, confined or not: no computed segment leaves 0..Top |
| `McbArenaProofs!Tiled` | `Confined => (Spec => []ArenaTiled)` |
| `McbArenaProofs!Promises` | `Confined => (Spec => []PromisesKept)` |
| `McbArenaProofs!Exact` | `Confined => (Spec => []CallsExact)` |
| `McbArenaProofs!Poisoned` | `Spec => PoisonIsFinal`, confined or not: once poisoned, no call starts, withdraws a promise or changes memory but for the header an unwind puts back |
| `McbArenaProofs!Progress` | `Spec => CallsProgress`, confined or not: with `TypeOK`, every call ends, also over a chain the guests have overwritten |
| `ExecJournalProofs!TypeCorrect` | `Spec => []TypeOK` |
| `ExecJournalProofs!AlwaysRecoverable` | `Spec => []Recoverable` |
| `ExecJournalProofs!AbortCorrect` | `Spec => []AbortRestores` |
| `ExecJournalProofs!SpanCorrect` | `Spec => []SpanAtomic` |
| `ExecJournalProofs!SpanWrites` | `Spec => []SpanExact` |
| `ExecJournalProofs!WritesOnlyStaging` | only a staging journal writes to guest memory |
| `MemoryLeaseProofs!TypeCorrect` | `Spec => []TypeOK` |
| `MemoryLeaseProofs!Backed` | `Spec => []LeaseBacked` |
| `MemoryLeaseProofs!Respected` | `Spec => OwnersRespected` |
| `ExecTransactionProofs!Inductive` | `Spec => []IndInv` |
| `ExecTransactionProofs!SlotsAlwaysHeld` | `Spec => []SlotsHeld` |
| `ExecTransactionProofs!PublishesWhole` | `Spec => []AllOrNothing` |
| `ExecTransactionProofs!Refines` | `Spec => KeepsPromise`: the coordinator implements `ExecPromise` |
| `SerioProofs!Inductive` | `Spec => []IndInv` |
| `SerioProofs!TypeCorrect` | `Spec => []TypeOK`: `in_flight` counts the callbacks of the stack |
| `SerioProofs!BindingsAlwaysHeld` | `Spec => []BindingsHeld` |
| `SerioProofs!BytesAlwaysKept` | `Spec => BytesKept` |
| `SerioProofs!RecoveryAlwaysExact` | `Spec => RecoveryExact` |
| `GuestMemoryProofs!Invariance` | `Spec => []IndInv` |
| `GuestMemoryProofs!TypeCorrect` | `Spec => []TypeOK` |
| `GuestMemoryProofs!LeasesCorrect` | `Spec => []LeasesAccounted` |
| `GuestMemoryProofs!MappingsCorrect` | `Spec => []MappingsBacked` |
| `GuestMemoryProofs!QueryCorrect` | `Spec => []QueryHonest` |
| `GuestMemoryProofs!StoreKept` | `Spec => KeepsStore`: guest memory implements `ExtendedStore` |
| `DosProcessProofs!Invariance` | `Spec => []IndInv` |
| `DosProcessProofs!TypeCorrect` | `Spec => []TypeOK` |
| `DosProcessProofs!BooksCorrect` | `Spec => []BooksBalance`: references, backend files and table blocks are exact while nothing is poisoned |
| `DosProcessProofs!RestoredCorrect` | `Spec => []Restored`: COMMAND is back as it was after every program |

**Arena.** The assumptions are `SegmentAssumption` (Head < End <= Top),
`OwnerAssumption`, `ForeignAssumption` and `BoundAssumption`. That the chain
tiles the arena is not inductive: in the middle of a split or a merge one header
is written and the other is not. The invariant `IndInv` therefore says, besides
types and control (`TypeInv`), that while the arena is usable there is a set of
headers `H` which tiles it (`Tiles`), that the blocks promised are the owned
blocks of `H` (`KeptIn`), and that the running call's locals describe `H`
(`FrameOf`): the cursor is on a header of `H`, the candidate
found so far is a free block of `H` of the size remembered, and what a merge has
swallowed is a run of free blocks. Each `pc` has a lemma; the set `H'` is given
explicitly for each header write (a split adds a header, a merge removes
one, a failed write leaves `H`, a torn one poisons and leaves nothing to show).

`CallsExact` compares a call's outcome with the memory it began with, and needs a
second layer, `CallInv`, inductive over `IndInv`: `DataInv`, `WalkInv` and the two
outcome clauses. It rests on `ChainIs`: a tiled memory has one chain only, so
the set of headers that follows the links (a recursive function) is the `H` of the
invariant. `Since` relates memory now to memory at the call's start: outside the
headers nothing changed, except the hidden half of a split that is being unwound, and
nothing is written ahead of the walk, so what the walk has still to read is what it
would have read at the start. The free runs behind the cursor are those of the memory at
the start (`RunsAre`, `RunAdded`, `NoRunAt`), the candidates the walk keeps sum
them up (`TallySums`), and when the cursor is at the end of the chain that makes
the candidate the strategy's placement (`PlacementIs`). `DataFollows` carries the data of
promised blocks over the header writes.

**Journal.** The assumptions are `MachineAssumption`, `JournalAssumption` and
`SourceAssumption` (no write is longer than a segment: the capacity check stops at
16 records of 64 bytes, far below 2^16). The
invariant is `TypeOK`, `CallOK` (what the loop variables of a span or an undo
mean), `Recoverable` (replaying the records newest first over memory yields
`base`, and those of the current span the memory at the call) and
`AbortRestores`. `Recoverable` is the strengthening `AbortRestores` needs: abort
has to be right at the moment it starts. It is stated cell by cell (`Undoes`): the
oldest record over a cell kept the cell's first byte, and a cell no record covers
still holds it; no recursion over the records is needed. `SpanExact` has an invariant
of its own, `SpanOK`: the bytes of the span written so far are in the cells of their
offsets and all other cells are as at the call (`Written`), and the bytes still to
come fit into the free records (`RoomFor`). It rests on two facts about
addresses: the bytes of one write go to different cells, gate open or shut
(`CellsApart`), and the offset of a chunk, cut back to 16 bits, names the cell the
whole write would (`ChunkCell`).

**Leases.** The assumption is `LeaseAssumption` (some slots, blocks and owners; `Free`
is no owner, `NoBlock` no block). `LeaseBacked` says what blocks a lease has while
the arena can be used, and is not inductive: a poisoned arena breaks its premise and
an initialise restores it. The invariant `IndInv` adds `Anchored` (the block of an
active slot answers to the slot's present name, poisoned or not), from which follow
that two leases never share a block and that a handle which resolves is the one that
acquired; and `PlansHeld` (a rebind plan names an active lease with the owner
it replaces, and the new owner is in the MCB), without which a release could free a
block under a staged plan. One lemma per operation; `TypeStep` and the lemmas on
`WithSlot` carry what all of them share.

**Coordinator.** The assumption is `SlotAssumption`. `SlotsHeld` and `AllOrNothing`
speak of requests at rest, but a request spends most of its life in a callback, and
what the callback finds on return is not in the encoding rules. `IndInv` covers all
states: `Rank` orders the states as a request climbs them and `Rung` says
for each field from which rung on the request has it (`Forward`); `Backward` says
what each stage of the unwinding has already given back; `Deps` are the
dependencies between fields that hold in every state, and are what is
known of a `FAILED` request, which may have failed anywhere; `Guarded` and `Backed` tie the
slot to what the services really hold. Encoding and publication follow from it.
There is a lemma for each public operation and each answer of each callback; the
frame lemmas (`StaysLive`, `Fails`, and their like) say once what each kind of step
must show. The only `FAILED` requests that keep a load rebind are those `Stranded`
describes, and the invariant names them: the backend is poisoned.

**Refinement.** Under that invariant a step of the coordinator leaves what is held
alone, takes one resource, gives one back, opens or ends a request, or quarantines
it; each operation and callback is shown to be of one of these kinds, and each kind to
be a step or a stutter of `ExecPromise`. The guards of the promise are where the
invariant is needed: that the gate is dropped last, that the block is not dropped
while bytes are staged in it, and that the seal finds block, references, bytes and
gate in private hands and the file closed.

**Serio.** The assumption is `SerioAssumption`: limits are naturals, `in_flight` can
count one callback more than calls can nest (the code's counter is a `uint8_t`),
and `None` and `Abandoned` are no driver. The ports, drivers, capacities, limits,
depth of the tree and depth of re-entrant calls are arbitrary. What makes
the bus safe is spread over the call stack: `unbind` has checked
`in_flight` before it calls out, a pump has remembered the head of the queue, a
recovery the epoch it recovers. `IndInv` says so frame by frame (`StackHeld`, by
`FrameHeld` for the point a frame is at): a callback in flight finds driver and
binding generation as it left them, the pumped record is the head, a recovery is
the only callback of its port, a port being taken down is at rest and childless,
and all but the top frame wait in counted callbacks. `PortsHeld` relates
each port to its counters and the order of its bytes, `SlotsHeld` the slot
arrays to the live ports and drivers; `ConnectionsOwned` and `NoOrphans` are parts
of `BindingsHeld` and inductive together with these. An action changes the top frame
and one port; what it owes the frames below is `Undisturbed`: a port with a
callback in flight keeps driver, binding, queue head and loss state. An interrupt
may come between any two steps and owes all frames `Calm`: it only appends to a
queue, closes a stream or poisons a port. That a teardown reaches every descendant
needs the walk of `port_is_in_subtree` to find a parent at each depth; it is
proved by least counterexample over the recursive function `Ancestors`. There
is one lemma per action.

**Guest memory.** The assumptions are `PagesAssumption` (every firmware map is a finite
set of ranges), `XmsAssumption` (block sizes are positive, finitely many),
`EmsAssumption` and `ShadowAssumption` (capacities are positive, the answers of
platform and mapper are those the code knows). `LeasesAccounted` and
`MappingsBacked` say what the tables mean while nobody has given up, and neither is
inductive: an EMS release that fails half way leaves a frame slot on pages whose
handle is going, and a poisoned service goes on owning pages. `IndInv` has a
part for each owner of state. `PagesHeld`: live leases are disjoint
runs of allocated pages, every allocated page lies in one, and the counter counts
them. `XmsHeld`, `EmsHeld` and `ShadowHeld`: the entries of each table name
live leases of that service, none of them twice (`Book`), with sizes and first
pages that agree with the lease; the table names every one of them (`Exact`) unless
the service is poisoned. `FrameHeld`: each slot of the page frame shows a page of
a lease of EMS, or the frame is poisoned. `Aliased`: each firmware entry of the guest shows
the ROM or the copy of the client that has it. An operation of
one service changes its own leases and no other's (`Foreign`), so the books of the
others carry over by one lemma. Loops (a move of units, the sweep over a
client's pages, the scan for a run with its hint, the snapshot of the map) are
recursive functions; what a prefix of the loop has done is shown by least
counterexample (`WFMin`), not by induction. `QueryHonest` is about two computations of the
same thing: the search from the hint, wrapping once, finds a run exactly if the
snapshot's longest run is long enough (`RunFits`), and a page is
available exactly if both passes over the firmware map agree on it (`OnUsable`).

**Stores.** The last part of `GuestMemoryProofs` maps guest memory to the three stores of `ExtendedStore`:
conventional memory unit by unit (`LView`), each XMS block as the units of its run
(`XView`), each EMS handle as its pages (`EView`); a poisoned service's stores
read as nothing. Because leases are disjoint and lie above conventional memory, a write
into one run leaves every other view alone (`Untouched`, `LowSame`). With that,
each operation is a step of the promise: a fresh or grown run has been
zeroed, a block that had to move was copied before the old run went, a move reads its
source before it overwrites it in whichever direction it copies, and a failed
move has copied a prefix (`Copied`). A step that
poisons a service is `Breaks`; steps of the firmware shadow touch only
its own leases and are stutters.

**Processes.** The assumptions are those of the chain of modules: there is at least one
process, description, session, lease, batch and JFT entry, and the largest JFT asked for is
no shorter than the one in the PSP; all bounds, failures included, are arbitrary. The proof has two layers.

`DosBooksProofs` is about the operations as operators on a domain `d`. `Books` says
that the descriptions are a `Ledger` of the names that JFT entries and the prepared
batch have for them: `Exact` (open exactly if named, both counters equal to the number of
names) and `Owned` (open files and their owners, descriptions or leases, correspond one to
one); and that the blocks belong to processes (`TablesHeld`). For each INT 21h
call, each stage of EXEC and of its abort, and `Terminate`, a lemma says what it leaves
alone and that a domain it leaves unpoisoned has its books balanced (`OpenKept`, `CloseKept`,
`ResizeKept`, `PrepareKept`, `AbortedIs`, `TerminateIs`). A ledger may be off by what the operation
holds in its hands, so inside an operation it is stated for a count that is given: closing
one reference takes one from the count (`CloseLedger`, `UndoLedger`), and the loops over
entries (inheritance, its undo in reverse, the closing of a process's handles) take away, or
add, the entries up to their index (`Plus`, `LoopKept`), by least counterexample and not by
induction. AH=67h publishes the new table before it frees the old one; the entries seen through
either are the same (`ExternalSees`, `InlineBooks`), so what it has to undo changes no name.
`Terminate` frees the blocks before it closes the handles, and the ledger of the
processes that remain is the old one less the names of the one that ended (`OwnNames`, `BuriedBooks`).

`DosProcessProofs` is about the programs. Neither `BooksBalance` nor `Restored` is inductive: the first
needs what a stage of EXEC may rely on, the second who waits for whom. `IndInv` has three
layers. What holds even when parts are poisoned: types, the lease each stage finds
and the slots nobody uses (`StageHeld`), the driver's record (`ShellHeld`), and that the
sessions of the programs on the stack and of the EXEC under way are different and not vacant
(`SessionsHeld`), without which an abort could retire a session that runs. What holds while
nothing is poisoned: `Books`, the batch and the block of the child
(`ChildHeld`), and that every process that is to be restored exists and is none of the
processes that end before it is (`WaitingLive`; programs may have used AH=50h, so
the current process need not be the deepest). And what holds while also nothing has failed and
nobody used AH=50h: the programs form a line from COMMAND, each the parent of the next, saved
with an older generation, the last one current (`Line`), and the sessions in use are
exactly those of the line (`SessionsUsed`). An exit shortens the line (`ShorterLine`), a
seal lengthens it (`EnteredLine`); `DeepestEnds` shows that in a line the termination of the last
program cannot be refused. There is a lemma per action, of the form: the step goes
from one safe state to another (`Goes`). TLC confirms `IndInv` on the instance of
`dos_process`. The proof also showed that two guards of a `CASE` in `ExecAbort` overlapped, so
that its value was not determined by the definition; it is now a nested `IF`, in the order of the code.

**Only model-checked.** Liveness (`AbortSettles`, `SourceServed`), which
the prover does not reach. The properties of `FatVolume` and `LegacyInput`,
and the refinements of `FileStore`, `OpenFiles` and `KeyStream`. The
input modules use RECURSIVE operators (the decoder over a stream, the pump's loop)
and are out of the prover's reach as they stand.

**What a run alone would not show.** `serio_stream` has one loss epoch, so a later loss
during a recovery rests on the theorem `RecoveryAlwaysExact`. `Restored` speaks of
programs that did not use AH=50h and of runs without a failing backend; what those
leave behind is in the observations and under the hazards.

## 5. What is not modelled

Byte formats and string handling (names, environment, NLS, image headers, PSP
layout, boot sectors), the user interface, libc32, boot code, the display, c32
processes, register-level emulation of devices (PIC, PIT, RTC, DMA, the guest's
side of the i8042) and the ATA port protocol: sequential code with little
state, covered by unit tests or out of a model checker's reach. Within modelled
components: the HMA and A20 calls of XMS, INT 21h functions on paths, searches,
console and drives, several volumes and searches of the I/O manager, the guest
IRQ router, keyboard sets 2 and 3, and the auxiliary port.

## 6. Plan

Done: the arena, leases, journal and coordinator of EXEC; serio; the FAT volume;
guest memory; processes and handles with the executor; the input path. Next, in
this order:

1. Proofs: `Sound` of `FatVolume`; that `DosProcess` implements `OpenFiles`, over the
   lemmas of `DosBooksProofs`.
2. The HMA and the A20 gate as clients of `GuestMachine`; the guest-space
   lifecycle around `FirmwareShadow` and the sessions of `ExecHoldings`.
3. The device registry, searches and several volumes on `FatVolume`.
4. The guest IRQ router with the guest PIC.
