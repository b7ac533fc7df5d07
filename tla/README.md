# A verification of vmsim

vmsim simulates the virtual memory of a computer.  A user creates and deletes
simulated processes at a prompt (or from a batch file) and has them read and
write their memory.  Every process is a thread with a mailbox; their pages live
in the frames of a small main memory and on a simulated disk, and move between
the two on page faults.

This directory models the program in TLA+, checks the models with TLC and
proves the main results with TLAPS.  `PROJECT.json` lists the parts, the runs,
the source lines of every definition, the findings, the hazards and the
theorems.  Paths below are relative to `src/`.

- To check a run: `tlc -config VmmStore.cfg MCVmm.tla`, and so on.
- To check the proofs: `tlapm VmmProofs.tla`, and so on for each module named
  `...Proofs`.

## The system

| part | state | operations | works with |
|---|---|---|---|
| page table, `vmsim/ipt.c` | an entry per frame (page, valid, dirty, referenced, age, list links), the hash anchor table (HAT), the queue of free frames, the count of references | add, remove, look up, reference, walk over the entries | the MMU, which locks for it |
| MMU, `vmsim/mmu.c` | the disk page behind each allocated page, statistics, a read-write lock | allocate and free the pages of a process, read, write, write back, load | page table, disk, PRM, aging daemon |
| page replacement manager (PRM), `vmsim/prm.c` | a queue of page fault commands, a thread | serve a fault: find a frame, evicting the oldest page if necessary, and load the page | the faulting process waits for it; takes the MMU's write lock |
| aging daemon, `vmsim/aging_daemon.c` | two flags, a thread | age all mapped pages on request | the requesting process waits for it; takes the MMU's read lock |
| disk, `vmsim/disk.c`, `util/bitmap.c` | pages, a bitmap of those in use | allocate and free the block of a process, read and write a page | MMU, process container |
| processes, `vmsim/pcb.c`, `util/pcb_util.c` | slots with their flags (junk, del), mailbox, thread | create, start, delete, send mail, run a message | user interface, MMU |
| worker threads, `util/worker_thread.c` | flags running and stop | start, stop, the loop | processes, PRM, daemon |
| `job_done`, `util/app_util.c` | a flag, a mutex, a condition | wait, signal | user interface and processes |
| user interface, `vmsim/ui_app.c` | none | one command after the other | all of the above |

| containers, `util/bitmap.c`, `util/map.c`, `util/queue.c`, `util/list.c` | words of bits, two parallel arrays, linked nodes | set, clear, find the first; set, get, remove; push, pop | disk, MMU, mailboxes |

`vmsim/mm.c` is an array of frames; `util/logger.c` is output.

What is hard here:

- **Page faults.** A process looks its page up under the read lock, gives the
  lock up, sends a command to the PRM, waits and takes the lock again.
  Everything may have changed by then.
- **Contents.** A page has bytes in a frame, on the disk, or in both; a frame
  that is handed out holds another page's bytes, and so does a disk block.  A
  dirty bit decides which copy survives.
- **Sweeps** run under the read lock together with accesses, and their requests
  share two flags.
- **Deletion** frees frames, backing entries and the block one after the other,
  while the PRM serves the faults of others.
- **Slots** are used again while the last thread of the slot is ending.
- **The exit** stops the PRM and the daemon under flags that nobody locks, and
  must not do so while a process can still fault.
- **Boundaries**: the end of a page, of a process, of the disk, of the last word of
  the bitmap; the last node of a queue, a key in the middle of a map; the width of
  the numbers in a command line, which are read as unsigned and used as int.
- **The `job_done` handshake** leaves its mutex locked on return from
  `wait_job_done`, and its signal is sent without the mutex.

What makes each part correct is stated as properties below; `hazards` in
`PROJECT.json` names the line where each of them bites and the property that
would catch it going wrong.

## The modules

| module | models |
|---|---|
| `PageTable` | the page table as its callers see it: the owner of each frame, its flags, the queue of free frames |
| `Ipt` | `vmsim/ipt.c` as it is: HAT, hash lists, links.  It implements `PageTable` |
| `VirtualMemory` | what the MMU promises: a page keeps what was written to it.  `Vmm` implements it |
| `BackingStore` | what the disk and `disk_map` promise: a block per process, a page of it behind each of its pages.  `Vmm` and `Resources` implement it |
| `Vmm` | MMU, PRM, aging daemon, disk blocks and the process threads that use them, on top of `PageTable` |
| `Bitmap`, `Disk` | the words of the bitmap, and the blocks that `disk.c` takes from it |
| `Map` | the two arrays of `util/map.c` |
| `Queue` | the linked nodes of `util/queue.c`, from one heap |
| `Fifo` | what the mailboxes promise.  `Resources` implements it |
| `Resources` | what a process takes and gives back: block, entries of `disk_map`, mailbox, on top of `Disk`, `Map` and `Queue` |
| `VirtAddr` | splitting and advancing addresses |
| `Words` | the numbers of a line: what `%u` makes of the digits, and an `int` of that |
| `ByteMemory` | what the six memory commands promise.  `Jobs` implements it |
| `Jobs` | the commands from the line to the bytes |
| `Processes` | slots, mailboxes, threads, the user interface, `job_done`, starting and stopping the program |
| `PageTableProofs`, `IptProofs`, `VmmProofs`, `VmmStatsProofs`, `VmmRefinementProofs`, `JobsProofs`, `ProcessesProofs`, `ResourcesProofs` | the theorems |
| `MCVmm`, `MCIpt`, `MCResources`, `MCJobs`, `MCProcesses` | the instances for TLC |

Definitions named `...Unchecked`, `...Leak`, `...Silent` and so on are faulty
variants of the definition they precede.  Nothing uses them; each shows, put in
place of the right one, that some property notices such a mistake.

### `Vmm`

Every thread has a program counter (`pc[c]`, `prmPc`, `daemonPc`) and a step is
the code between two points where another thread could look.

- *Create* (`init_process`, `mmu_alloc_multiple`): `AllocBlock`, `AllocPage`
  for each page, `FinishCreate`.  The mutex of the container is held from the
  first to the last; the lock of the MMU for one page at a time.
- *Access* (`mmu_read`, `mmu_write`): `BeginAccess`; after a miss
  `PushCommand`, `WaitDone` and `Relock`, again and again if need be; `Touch`
  (`ipt_reference`), `CopyRead` or `CopyWrite`; `AgeCheck`, and, if a sweep is
  due, `ZeroRefCount`, `RequestAging` and `WaitAged`.
- *Delete* (`process_dealloc`): `StartDealloc`, `FreePage` for each page,
  `FreeBlock`.
- *PRM* (`prm_thread_func`): `PrmPop`, `PrmLock`, `PrmMap`, `PrmSwapOut`,
  `PrmLoad`, `PrmUnlock`, `PrmDone`.
- *Daemon* (`daemon_func`): `DaemonWake`, `DaemonLock`, then `DaemonShift` and
  `DaemonClear` for each entry (the two assignments of `age_page` between which
  an access can set the reference bit), `DaemonUnlock`, `DaemonFinish`.

`VirtualMemory` sees of this the page and the kind of an access between its
call and the moment it takes effect, the buffer of each process, and one
content per page: the frame's if the page is mapped and loaded, else the disk's.
It lets nothing but a write change a page, so an eviction that lost bytes would
be no step of it.

Abstractions, each with its reason:

- A page's contents are one value.  A job reads and writes byte by byte, each
  byte a call of its own that locks anew; `Jobs` has the bytes.
- `mmu_alloc_page` and `mmu_free_page` hold the write lock over code that waits
  for nobody and are single steps; so are the sections of the small locks
  (statistics, reference count, disk).
- The condition variables of the PRM and the daemon are waited on for a second
  at most, in a loop.  A waiting thread may therefore go on whenever its
  predicate holds, and a missed signal costs at most a second.
- A new process may take any free slot; `init_process` takes the first, which
  `Processes` models.  Nothing in the memory depends on the number of a slot.
- Memory and disk begin as zeros (`calloc`).
- A process accesses only its own pages: `Jobs` shows what becomes of a job that
  does not.  Creation happens only when a block is free: see `Resources`.
- `PushCommand` is the creation and the push of a command, `WaitDone` the end
  of the wait and its deletion; `done[c]` is the flag of the command of `c`,
  FALSE while there is none.
- `written` is a history variable: the pages written since they were allocated.

### `Ipt`

One action per operation.  `ipt.c` has no lock for its lists: they change only
under the write lock of the MMU, so an operation is one step.  `Walk` follows
the links for as many steps as there are frames, so a cycle would show.

### `Resources`, with `Bitmap`, `Disk`, `Map` and `Queue`

The containers are modelled as data structures: a word of the bitmap is the set
of its bits, the map two functions on `0 .. size - 1`, a queue a head and a tail
in a heap of nodes that all queues share.  An operation of a container is one
step, since its callers hold a lock for it (`disk->lock`, the write lock of the
MMU, the mutex of the mailbox).  `find_first` reads the word at the index of the
bit behind the last, which lies outside the array when the size is a multiple of
the width; that word is the parameter `beyond`, any value.

`Resources` puts them to the use that `init_process`, `compose_mail`,
`process_func` and `process_dealloc` make of them.  A loop over the pages of a
process is one step for each page.  When no block is left, `init_process` frees a
pointer into the middle of the array of slots (`vmsim/pcb.c:77`), after which
nothing can be said: the model records `refused` and stops.

`BackingStore` is also implemented by `Vmm`, which has the same operations on
sets and functions: the two models meet in it, so that what `Vmm` assumes of the
disk is what the bitmap and the map provide.

### `Jobs`, with `VirtAddr` and `Words`

A command line is a command and its arguments, each a number or a text.  The
handlers read a number with `%u` and pass it to functions that take an `int`:
`Scan` and `Signed` say what is left of it, for a sign bit of any weight
(`SignBit`).  A number may be negative, or too large for an unsigned or even for an
unsigned long.
`Reject`, `Send` and `SendBehind` are what `command_handler` and `compose_mail`
make of it; `StartJob` is `process_func` with the decoder; `ReadByte`,
`WriteByte` and `LoopWriteByte` are a turn of the loops of `sim_read`,
`sim_write` and `sim_loop_write`, `EndJob` their ends.  `compose_mail` compares the
number of the process with the number of slots and lets that number itself pass
(`util/pcb_util.c:20`): the slot behind the last is looked at, and `SendBehind`
refuses the line or ends in an undefined state.  `AccessPastEnd` is the assertion
that an access behind the last page runs into, and `AssertsHold` the assertions at the
head of the three functions.

`sim_read` allocates `amount * off + 1` bytes and stores one per turn.  The
product is an `int` and can overflow, which the build lets wrap: `Room` is what is
allocated, nothing if the size came out negative (`malloc` then fails).
`OverrunBuffer` is a turn that writes behind it; the model stops there, in status
`overrun`.

The page size is a power of two, as in `tests/app_util_tests.c`: the masks make no sense otherwise.

`ByteMemory` knows neither pages nor messages: a command is a request for a
number of accesses at `addr + k * step` of an array of bytes.  An abort of the
program is allowed for a senseless request (a count that is not positive, a negative
step, a read with a step of 0, once the numbers are cut to their width)
and for one that leaves the memory, and for no other.

### `Processes`

The interface is a thread whose program counter is `ui`.  A command that sends
a job goes from `cmd` to `lock` (`SendJob`); a command that the interface
answers itself, or that is refused, signals first (`Answer`).  `wait_job_done`
is `LockJobDone` followed by `ClearJobDone`, or by `EnqueueJobDone` and a wait.
`createProcess` is `Create`, up to `pthread_create`, and `Started`, the loop
that waits for the running flag.  `delProcess`, and `free_app_data` for each slot, is
`Destroy` and the wait that `Dealloc` or a spurious wake-up ends.

`job_done_mutex` is one flag, `jobHeld`.  It is unlocked by threads that did
not lock it, which POSIX leaves undefined for a default mutex; the model takes
what the Linux implementation does, which is to unlock it.

`signal_job_done` is two steps, flag and signal, then unlock.  Setting the
flag and signalling can be one step: if the interface comes in between it finds the
flag set, and a later signal finds nobody in the wait or is one more spurious
wake-up.

The thread of a process runs `process_dealloc` itself, which makes the slot
junk, and only later leaves `worker_thread_func`; from `Dealloc` to `Leave` it
is counted in `leaving`.

The program begins and ends with the services, the PRM and the daemon.
`StartService` creates the thread and `ServiceStarted` ends the wait for its running flag;
`ServiceBegin` and `ServiceEnd` are the two ends of `worker_thread_func`;
`StopService` sets the stop flag and `ServiceStopped` ends the wait for running to clear.  A
job may need the services (it may fault): `JobAborts` is the assertion that
fails if they are not there.  The end of a job (`JobEnds`: `RunJob` or `JobAborts`) is a
step that the process may take, and no fairness makes it: `vmm_thrash` shows that an
access, and with it a job, can last for ever.  `early` records that `delProcess` has
returned on a spurious wake-up, before the process has ended; `DeletionWaits`
is what the headers promise, and is violated then.

The number of jobs per process (`MaxJobs`) and of created processes
(`MaxCreates`) is bounded in the guards.

## The runs

All bounds are constants in the `.cfg` files.

| run | properties | instance |
|---|---|---|
| `vmm_store` | `TypeOK FrameInv FaultInv BackingInv AccessInv CoherenceInv VMRefined BSRefined` | 2 processes of 2 pages over 2 frames and 4 disk pages, 2 values, 3 accesses, no sweeps |
| `vmm_aging` | `IInv AgingInv DueInv StatsInv NoDeadlock ReadersKeepMapping FaultServed AgingServed` | the same with 1 value, 2 accesses and a sweep due at every reference |
| `ipt` | `IptTypeOK ListsInv LookupInv PTRefined` | 5 pages in 2 hash lists over 3 frames |
| `resources` | `ResTypeOK FirstInv OwnInv QueueInv BSRefined MailRefined` | 4 slots for 3 blocks of 2 pages on a disk of 6 pages, 3 bits to a word; 3 messages at a time, of 2 kinds |
| `jobs` | `JobsTypeOK JobInv RoomInv BytesRefined JobsEnd` | 2 processes of 2 pages of 2 bytes, words of 4 bits, 2 of 149 lines |
| `processes` | `ProcTypeOK MailInv SlotInv HandshakeInv ServiceInv JobsServed DeleteServed ExitServed` | 2 slots, 3 creations, 2 jobs each, spurious wake-ups, from start to exit |

What they show:

- `FrameInv`: over any sequence of maps, swaps and frees no frame is lost or
  given out twice.  `BackingInv`: the same of the disk, and the pages of a
  process are backed by its own block as long as they are allocated.
- `FaultInv`: a process that waits for a fault has exactly one command in the
  queue or at work, so the assertion of `mmu_map_page` holds and the command is
  not deleted under the PRM.
- `AccessInv`: the page of an access is in memory from the lookup to the copy
  although `mmu_pin_page` pins nothing.  `ReadersKeepMapping` says why: no page
  moves while anybody reads.
- `CoherenceInv`: a page that was written and is clean is on the disk as it is
  in memory, so that the write-back may be skipped.  `VMRefined`: seen from the
  processes, all of this is a memory whose pages keep what was written to them.
- `BSRefined`, of `Vmm` and of `Resources`: a process has a block of its own from
  creation to deletion, its pages are backed by the pages of the block in
  order, and it is refused one only if the disk has none.  That the first clear
  page begins a free block (the comment at `vmsim/disk.c:114`) holds because blocks are taken and freed
  as a whole.  `OwnInv` says the same of the words and arrays themselves.
- `FirstInv`: the word behind the bitmap never changes what `find_first` returns.
- `QueueInv`, `MailRefined`: the nodes of the mailboxes are neither lost, shared
  nor used after they were freed, and a mailbox is a queue.
- `BytesRefined`: the memory commands do to arrays of bytes what their lines say,
  across pages and in order.  `JobsTypeOK`: a message's arguments, which travel as
  untyped pointers, are what the decoder casts them to.  `JobInv`: a call takes no turn too
  many, has passed its assertions, writes no byte it was not given, and the buffer of
  `sim_read` holds one byte per turn and no more than was allocated.  `RoomInv`: what
  is allocated is enough whenever its size fits an `int`.  `JobsEnd`: the loops end.
- `DueInv`: once as many references as the frequency have come since a sweep was last asked
  for, some process is on its way to the next request.  It holds between zeroing the count
  and the request, too, so a process that zeroed and went on would break it.
- `AgingInv`, `AgingServed`: no request for a sweep is forgotten, though a
  second request resets the flag that the first one waits for.
- `NoDeadlock`: the daemon takes the lock of the MMU with its own mutex held, a
  creation with that of the container, processes wait for the PRM and the daemon
  and the PRM for the processes, and still somebody can always go on with what was begun.
  TLC's own deadlock check would not see it, for an idle process can always be
  given work.
- `StatsInv`: the hit rate is at most one (the assertion of `print_hit_rate`).
- `ListsInv`, `LookupInv`, `PTRefined`: the hash lists stay whole and find
  exactly what the abstract table holds.
- `MailInv`: a mailbox loses, repeats and reorders nothing, and nothing is
  accepted after the message that ends the process.  `SlotInv`: flags and threads agree.
  `HandshakeInv`: the interface never waits for a mutex that only it would
  release.
- `ServiceInv`: the services run as long as a process does, unless
  a deletion returned early.
- `JobsServed`, `DeleteServed`, `ExitServed`: an accepted job is run, a deletion ends, and
  the program ends once it is told to, each provided that the jobs it waits for end
  (`JobsEnd(p)`: the process `p` is outside a job again and again).

Why the bounds are enough: evictions need more allocated pages than frames
(4 over 2); a fault that finds its page evicted again needs
two processes with an access each that fight for the older frame; reuse of frames and blocks needs a deletion and a
creation, which are unbounded in the Vmm runs.  Stale contents need two values
and a write, an eviction by another access and a read, which are three accesses.  Hash
lists of three entries have a first, a middle and a last one to remove.  A slot
is used again with three creations for two slots.  Two process threads meet
every step of each other; a third would queue behind them at the same locks.  A disk of
two words that is full has a block across the boundary of the words, holes of every shape, and one
slot too many, so that a creation is refused.  With 6 pages the blocks take all of the
disk, so that it can be full to its last bit; that pages left over at the end of a disk are not taken
for a block is proved (`StoreRefined`) and not run.  The lines of `Jobs` have an
address at the start, in the middle and at the end of a page and behind the
memory, steps of 0, 1 and more than a page, and amounts of 0, 1 and over a page, and, with words of
4 bits, numbers on both sides of every limit: 7 and 8, 16 and 17, -1 and 256;
two lines are enough for a read of what was written and for one job behind another.

Deadlock is checked in all `Vmm` and `Ipt` runs (processes can always be
created or deleted).  It is not in the others: `Processes` comes to the end of the
program, `Jobs` to the end of its lines or an abort, `Resources` to a refused creation.

### Findings

Six runs check something a comment, a printed text or a header says and show that
the code does otherwise.

- `vmm_sync`: after `mmu_sync_to_backing_page` the page and its backing page
  may differ: a page allocated into a frame is not dirty and holds old bytes.
  A process that reads a page before writing it may see bytes of another one,
  and different ones after an eviction.
- `vmm_thrash`: an access need never be served, since the page may be evicted
  again between the answer of the PRM and the new read lock, each time.
- `jobs_past_end`: a read or write that reaches the end of its process does not
  stop there, but ends the program.
- `processes_lost`: the signal of `job_done` can be lost, and the interface
  waits for ever.
- `processes_early`: `process_destroy` waits without a predicate, so that a spurious
  wake-up brings the prompt back while the process still works.
- `processes_reuse`: the ending thread of a deleted process can clear the
  running flag of its successor before `worker_thread_start` has seen it, and
  `createProcess` never returns.

Three more texts are contradicted, by states that the passing runs go through or by the code
alone, without a run of their own:

- `vmsim/mmu.h:39` calls the frequency of aging the "number of references between calls to
  the aging daemon".  `mmu_age_pages_if_needed` reads and zeroes the count in two sections
  of its lock (`AgeCheck`, `ZeroRefCount`), so two processes can act on one count and the second call comes too
  soon.  It cannot come too late, which is `DueInv`.
- `util/pcb_util.h:155` says that a read goes on `amount` times or to the end of the memory.
  If `amount * off + 1` does not fit an `int`, `sim_read` can store more bytes than it has
  allocated (`OverrunBuffer`).  That it does not otherwise is `RoomInv`.
- `util/app_util.c:135` tells the user that free pages are printed as "(free)".
  `print_ipt_entry` (`util/app_util.c:69`) prints that for the entries in use.

### Fairness

`FairSpec`, `JobsSpec` and `ProcFairSpec` give every thread weak fairness for going on with
what it has begun, no more: that is the scheduler.  Nobody has to type a
command, begin an access, create or delete a process, and in `Processes` nobody has to
come to the end of a job.

- `FaultServed` and `AgingServed` need locks and the daemon's mutex to become
  free for good in the end, which weak fairness gives because the accesses
  are bounded by `MaxRefs`.  With endless accesses by others the PRM could be overtaken at
  the write lock for ever (glibc prefers readers) and a requester at the
  daemon's mutex.  The results say that nothing is forgotten and nobody waits
  for each other, not that the locks are fair.
- `JobsServed` and `DeleteServed` are about one process at a time and assume that the jobs
  of this process end; `ExitServed` that all do.  `CommandReturns`, which `processes_lost`
  refutes, assumes it too, so that the lost signal and not an endless job is what
  refutes it.  Without the assumption all of them would be false, by `vmm_thrash`.
- `JobsEnd` is about the loops only: an access is one step in `Jobs` and taken to end.

`AccessCompletes` is refuted under the same fairness, with two accesses that
never end: each step of that behaviour is the fair turn of some thread.

## The proofs

For every number of processes, frames, disk pages, bits, nodes and values, from the
assumptions in `PageTableAssumption`, `IptAssumption`, `VmmAssumption`, `ProcessesAssumption`,
`BitmapAssumption`, `DiskAssumption`, `MapAssumption`, `QueueAssumption`,
`ResourcesAssumption`, `PageSizeAssumption`, `SignBitAssumption`, `JobsAssumption`, `LinesAssumption` and `NoJobAssumption`
(at least one frame, one page per process, one bit on the
disk and in a word, finitely many processes in `Vmm`, a page size that is a power of two, an
`int` of at least two bits,
lines whose tokens are numbers or texts, model values distinct):

| module | theorem | statement |
|---|---|---|
| `PageTableProofs` | `TableSafe` | `PTSpec => [](PTTypeOK /\ FrameInv)` |
| `IptProofs` | `Invariance` | `IptSpec => []IptIInv` |
| | `IptTypeCorrect`, `ListsSafe`, `LookupSafe` | `IptSpec => []` of `IptTypeOK`, `ListsInv`, `LookupInv` |
| | `TableRefined` | `IptSpec => PTRefined`: `Ipt` implements `PageTable` |
| `VmmProofs` | `Invariance` | `Spec => []IInv` |
| | `TypeCorrect`, `FramesSafe`, `BackingSafe`, `FaultsSafe`, `AccessSafe`, `CoherenceSafe` | `Spec => []` of `TypeOK`, `FrameInv`, `BackingInv`, `FaultInv`, `AccessInv`, `CoherenceInv` |
| | `ReadersSafe` | `Spec => ReadersKeepMapping` |
| | `AgingSafe`, `DeadlockFree` | `Spec => []AgingInv`, `Spec => []NoDeadlock` |
| `VmmStatsProofs` | `DueSafe`, `StatsSafe` | `Spec => []DueInv`, `Spec => []StatsInv` |
| `VmmRefinementProofs` | `StoreRefined` | `Spec => BSRefined`: `Vmm` implements `BackingStore` |
| | `MemoryRefined` | `Spec => VMRefined`: `Vmm` implements `VirtualMemory` |
| `JobsProofs` | `JobsInvariance` | `JobsSpec => []JobsIInv` |
| | `JobsTypeCorrect`, `JobsSafe`, `RoomSafe` | `JobsSpec => []` of `JobsTypeOK`, `JobInv`, `RoomInv` |
| | `BytesSafe` | `JobsSpec => BytesRefined`: `Jobs` implements `ByteMemory` |
| `ProcessesProofs` | `ProcTypeCorrect`, `SlotsSafe`, `MailSafe`, `HandshakeSafe`, `ServicesSafe` | `ProcSpec => []` of `ProcTypeOK`, `SlotInv`, `MailInv`, `HandshakeInv`, `ServiceInv` |
| `ResourcesProofs` | `Invariance` | `ResSpec => []ResIInv` |
| | `ResTypeCorrect`, `FirstSafe`, `OwnSafe`, `QueueSafe` | `ResSpec => []` of `ResTypeOK`, `FirstInv`, `OwnInv`, `QueueInv` |
| | `StoreRefined` | `ResSpec => BSRefined`: `Resources` implements `BackingStore` |
| | `MailIsFifo` | `ResSpec => MailRefined`: `Resources` implements `Fifo` |

**Ipt.** The proofs about the MMU start from `PageTable`; `TableRefined` shows that
the HAT and the linked entries are such a table.  `ListsInv` speaks of walks along the
links, which is not what an addition or a removal can be followed through.
`IptIInv` says instead that every entry of the HAT has a list (`IsList`):
distinct entries, linked in both directions, exactly the valid ones that hash to it.
`AddStep` and `RemoveStep` name the list that is there afterwards; the lists of other
hash values stay, because their entries are others (`OtherList`).  That a walk
meets the list, and ends within `NFrames` steps, is `WalkIs`, with the
pigeonhole principle of the library; that `ipt_hash_list_last_element` and
`get_vaddr_idx` find what they look for follows (`LastOfIs`, `VaddrIdxIs`).  `FramesDivided`
adds that no page has two entries and the queue holds the others: without it
`LookupInv` is not inductive.

**Vmm.** None of the invariants is inductive by itself, and they lean on each other:

- `CoherenceInv` is kept by an eviction only because `BackingInv` gives every
  mapped page a backing page of its own, and by a write only because
  `AccessInv` says the page is mapped and dirty by then.
- `AccessInv` is kept by an eviction only because `LockInv` excludes readers.
- `FaultInv` is kept by `PrmMap` and `FreePage` because a process has its own
  pages (`AccessInv`) and is doing one thing at a time (`ContInv`).
- `BackingInv` needs `ContInv` for the loops over the pages of a block.

`IInv` is their conjunction with two helpers: `LockInv` (who holds the lock of
the MMU) and `ContInv` (who holds the mutex of the container, and that loop
indices are zero outside the loops).  TLC checks it in `vmm_aging`.
`VmmProofs` first proves what the operations of the page table do to it
(the lemmas of `PageTableProofs` are about `IptAdd`, `IptRemove` and the
others), then one lemma per action of `Next`, then the invariant.
`ReadersSafe` follows from `IInv`, since every step that changes `owner` is by
one who may write.  `AgingSafe` is a small invariance proof of its own, and so is
`DueSafe`, from two halves: a count at the frequency has somebody who will compare or zero
it (`CountInv`), and the count covers the references since the last request unless somebody
who zeroed it is about to make one (`CallInv`).

`NoDeadlock` writes out the guards of the threads' steps, since `ENABLED` is beyond the
prover, and follows the chain of those that wait to its end (`SomebodyGoes`):
behind the lock of the MMU stands an access, whose page is mapped (`AccessInv`), the
sweep, or the PRM; behind a page fault the PRM (`FaultInv`); behind a request
for a sweep the daemon (`AgingInv`).  Two facts have to be carried along (`LoopInv`): no
frame is free while the PRM chooses a page, so that, the page to load being in no frame,
there is one to swap out (`OldestExists`), and the entry that a sweep is at stays valid.

`StatsInv` compares a counter with the number of processes between two lines of
code, so its proof keeps account of that set with the cardinality lemmas of
the library.

**The refinements of Vmm.** For `StoreRefined`, a step that allocates or frees changes `taken`,
`blockStart` and `backing` as `BackingStore` does, by `BackingInv`; all others
leave the three alone.  For `MemoryRefined`, `CallInv` adds to `IInv` that the
abstract call of a process and the program counter of its access agree.  Then
each action is shown to be a read, a write, an allocation or a stutter of the abstract memory; the eviction,
the write-back and the load are stutters because of `CoherenceInv` and because
the frames and backing pages of two pages differ.

**Jobs.** The proof has three parts.  First the arithmetic: a page and an offset
name one number and every number has them (`DivModUnique`, `MakeLinear`), and
advancing adds, however many pages it carries (`AdvanceLinear`); a number of a line
becomes an unsigned and an `int` (`Scanned`), and a size that fits an `int` is enough room
(`RoomFacts`).  Then the messages:
for each of the six commands the handler, the message and the decoder are followed from
the tokens to the call (`ReadFaithful` and so on), so that the request which the call stands for is
the meaning of the line (`AllFaithful`).  `JobsIInv` joins `JobsTypeOK` and `JobInv` and
says that mailboxes hold such messages only.  Then the
refinement: taking a message out is a stutter, because the request moves from the mailbox
to the call (`WaitingTail`); a turn is an access, because the request stays the same while
the address and the count advance together (`RequestKept`); and one byte
of a page is one place of the array (`ByteStored`).  `LinesAssumption` asks that the
argument which a command does not read with `sscanf` is a text, not longer than an `int` can
count; malformed lines, with
arguments that are missing or no numbers, are allowed.

**Processes.** `ProcIInv` joins the five properties with four helpers: `CountInv`
(how the counters bound each other), `WaitInv` and `SvcInv` (which program
counters of the interface and the services go with which flags), and `OrderInv`.  `MailInv` compares whole sequences, what
was sent with what was done, in hand and in the mailbox; `OrderInv` says it message by
message, which the provers can follow through `Append`, `Head` and `Tail`.

**Resources.** `ResIInv` rests on three observations:

- `FirstInv` needs no more than `BitmapTypeOK`: since the bits behind the size stay
  zero, the first word that is not skipped holds the bit or nothing does, and what lies
  behind the array is compared with the size (`FirstFollows`).
- `disk_alloc_process_block` looks at one place only, the first clear page.  That this
  refuses a process only if the disk has no block (`NoBlockToAlloc`) needs
  `AlignInv`: every block begins at a multiple of the block size, so that a clear page
  that begins no free block lies behind the last one.  `AlignInv` is kept because the page
  before the first clear one ends a block (`FirstClearAligned`).
- The links of a queue are followed by the recursive function `NodesOf`.  `ChainInv`
  says that it is a chain (`IsChain`: head, links, tail, no node twice), and a
  chain is determined by the links (`NodesOfIs`), so a push or a pop has only to show
  the chain that it leaves (`PushStep`, `PopStep`); the other queues keep
  theirs because they share no node with it (`OneQueueStep`).

Induction over words and over chains is put as "a non-empty set of natural numbers has
a least element" (`LeastNat`), from the library's theorem on well-founded relations.

Only model-checked: liveness, which is beyond the prover (`FaultServed`, `AgingServed`,
`JobsEnd`, `JobsServed`, `DeleteServed`, `ExitServed`).

## Not modelled

- What follows undefined behaviour: after a creation that finds no block, after a message to
  the slot behind the last, and after a read that has overrun its buffer (whose size, a signed
  product that overflows, is taken to wrap).  `BytesRefined` is silent from there on.
- `proc_cont_destroy` frees the slots while the thread of the process deleted
  last may still be leaving `worker_thread_func` (`vmsim/pcb.c:187`):
  the model of the program ends there and does not look at freed memory.
- The hit rate before the first reference, 0/0 in floating point
  (`util/app_util.c:171`).
- An endless stream of readers that keeps the PRM from the write lock
  (`vmsim/prm.c:151`): liveness is checked with a bounded number of accesses.
- Cutting a line into tokens, reading the configuration file, printing, logging
  and `main`: no state of the system changes there.
- Failures of `malloc` and of the pthread functions, which the code does not
  handle either.  Destroying a mutex, a condition or a lock is without effect in glibc and in
  the models.

## Plan

Done: all modules and runs above and their proofs.  Every invariant, action property and
refinement of a passing run is also a theorem.

Left:

1. The reference that comes between the two halves of `age_page` and is forgotten
   (`vmsim/aging_daemon.c:39`) stated as a property.
2. That the interface is never stuck without lost signals, in `Processes`, as a
   state formula like `NoDeadlock`; now liveness runs show it.
