-------------------------------- MODULE Vmm --------------------------------
(***************************************************************************)
(* The virtual memory of the simulator: the MMU (vmsim/mmu.c) with the     *)
(* page replacement manager (vmsim/prm.c), the aging daemon                *)
(* (vmsim/aging_daemon.c), the blocks of the disk (vmsim/disk.c), and the  *)
(* process threads that use it (vmsim/pcb.c, util/pcb_util.c).             *)
(*                                                                         *)
(* Every thread is a program counter.  A step is the code a thread runs    *)
(* between two points where another thread could see or change what it     *)
(* uses: a section that holds the write lock of the MMU and waits for      *)
(* nothing is one step (mmu_alloc_page, mmu_free_page), the longer one of  *)
(* the PRM is several.  The condition variables are waited on with a one   *)
(* second timeout in a loop that looks at its predicate again, so a thread *)
(* that waits may go on whenever the predicate holds, signalled or not.    *)
(***************************************************************************)
EXTENDS PageTable, FiniteSets

CONSTANTS
    Procs,       \* the process slots (procid_t)
    BlockSize,   \* pages per process (process_block_size)
    NDiskPages,  \* pages of the disk
    Values,      \* the contents of a page that are told apart
    Zero,        \* the content calloc gives memory and disk
    NoValue,     \* no byte read
    Undefined,   \* the content of a page nothing was written to
    AgingFreq,   \* references between two sweeps of the aging daemon
    MaxRefs,     \* bound: the accesses the processes begin in a behaviour
    Daemon,      \* the aging daemon, as a holder of the read lock
    NoProc,      \* nobody
    NoDiskPage   \* no backing page

DiskPages == 0 .. NDiskPages - 1
Page(c, i) == <<c, i>>
PagesOf(c) == {Page(c, i) : i \in 0 .. BlockSize - 1}

ASSUME VmmAssumption ==
    /\ IsFiniteSet(Procs)
    /\ NoProc \notin Procs /\ Daemon \notin Procs
    /\ BlockSize \in Nat \ {0}
    /\ NDiskPages \in Nat
    /\ NoDiskPage \notin DiskPages
    /\ Pages = Procs \X (0 .. BlockSize - 1)
    /\ Zero \in Values /\ NoValue \notin Values /\ Undefined \notin Values
    /\ AgingFreq \in Nat
    /\ MaxRefs \in Nat

VARIABLES
    \* the process threads
    pc,          \* where each process is
    cur,         \* the page it accesses, and of a page fault command
    kind,        \* how it accesses it
    idx,         \* the page index of the loops over its block
    buf,         \* the buffer of sim_read
    contLock,    \* the holder of the mutex of the process container
    \* the MMU
    backing,     \* disk_map
    readers,     \* mmu->lock: the threads that hold it for reading
    writer,      \* mmu->lock: held for writing (only the PRM keeps it over steps)
    hits, nrefs, \* mmu->stats
    mem, disk,   \* the contents of the frames and of the disk pages
    \* the disk blocks
    diskAlloc,   \* alloc_bitmap, as the set of the allocated pages
    blockStart,  \* PROC_STRT of each process
    \* the page replacement manager
    prmPc,
    prmQueue,    \* the page fault commands, by the process that waits
    prmCmd,      \* the command that was popped
    done,        \* cmd->done of the command of each process
    \* the aging daemon
    daemonPc,
    sweep,       \* the frame age_page comes to next
    shouldUpdate, doneUpdating,
    \* history
    written,     \* the pages written since they were allocated
    unswept      \* the references since the daemon was last called

procVars == <<pc, cur, kind, idx, buf>>
lockVars == <<readers, writer>>
statVars == <<hits, nrefs, unswept>>
blockVars == <<diskAlloc, blockStart, contLock>>
storeVars == <<mem, disk, written>>
prmVars == <<prmPc, prmQueue, prmCmd, done>>
daemonVars == <<daemonPc, sweep, shouldUpdate, doneUpdating>>
vars == <<ptVars, procVars, lockVars, statVars, blockVars, storeVars, backing,
          prmVars, daemonVars>>

ProcPcs == {"junk", "allocating", "ready", "push", "wait", "relock", "touch",
            "copy", "age", "zero", "request", "aging", "freeing"}
PrmPcs == {"idle", "lock", "map", "evict", "load", "unlock", "done"}
DaemonPcs == {"idle", "lock", "shift", "clear", "finish"}

TypeOK ==
    /\ PTTypeOK
    /\ pc \in [Procs -> ProcPcs]
    /\ cur \in [Procs -> Pages \cup {NoPage}]
    /\ kind \in [Procs -> RefTypes \cup {"refNone"}]
    /\ idx \in [Procs -> 0 .. BlockSize]
    /\ buf \in [Procs -> Values \cup {NoValue}]
    /\ contLock \in Procs \cup {NoProc}
    /\ backing \in [Pages -> DiskPages \cup {NoDiskPage}]
    /\ readers \subseteq Procs \cup {Daemon}
    /\ writer \in BOOLEAN
    /\ hits \in Nat /\ nrefs \in Nat
    /\ mem \in [Frames -> Values]
    /\ disk \in [DiskPages -> Values]
    /\ diskAlloc \subseteq DiskPages
    /\ blockStart \in [Procs -> DiskPages \cup {NoDiskPage}]
    /\ prmPc \in PrmPcs
    /\ prmQueue \in Seq(Procs)
    /\ prmCmd \in Procs \cup {NoProc}
    /\ done \in [Procs -> BOOLEAN]
    /\ daemonPc \in DaemonPcs
    /\ sweep \in 0 .. NFrames
    /\ shouldUpdate \in BOOLEAN /\ doneUpdating \in BOOLEAN
    /\ written \subseteq Pages
    /\ unswept \in Nat

Init ==
    /\ PTInit
    /\ pc = [c \in Procs |-> "junk"]
    /\ cur = [c \in Procs |-> NoPage]
    /\ kind = [c \in Procs |-> "refNone"]
    /\ idx = [c \in Procs |-> 0]
    /\ buf = [c \in Procs |-> NoValue]
    /\ contLock = NoProc
    /\ backing = [p \in Pages |-> NoDiskPage]
    /\ readers = {} /\ writer = FALSE
    /\ hits = 0 /\ nrefs = 0
    /\ mem = [f \in Frames |-> Zero]
    /\ disk = [d \in DiskPages |-> Zero]
    /\ diskAlloc = {}
    /\ blockStart = [c \in Procs |-> NoDiskPage]
    /\ prmPc = "idle" /\ prmQueue = <<>> /\ prmCmd = NoProc
    /\ done = [c \in Procs |-> FALSE]
    /\ daemonPc = "idle" /\ sweep = 0
    /\ shouldUpdate = FALSE /\ doneUpdating = FALSE
    /\ written = {}
    /\ unswept = 0

-----------------------------------------------------------------------------
Goto(c, from, to) == pc[c] = from /\ pc' = [pc EXCEPT ![c] = to]

(* pthread_rwlock_rdlock, and wrlock of a section that is a single step.    *)
CanRead == ~ writer
CanWrite == ~ writer /\ readers = {}

-----------------------------------------------------------------------------
(* Creation and deletion of a process, under the mutex of the container.    *)

BlockAt(d) == d .. d + BlockSize - 1

(* bitmap_first_clear: the first page of the disk that is not allocated.    *)
FirstClear(d) ==
    /\ d \in DiskPages \ diskAlloc
    /\ \A e \in DiskPages \ diskAlloc : d <= e

(* init_process up to disk_alloc_process_block, which takes the block at    *)
(* the first clear page or fails.                                           *)
AllocBlock(c) ==
    /\ contLock = NoProc /\ contLock' = c
    /\ Goto(c, "junk", "allocating")
    /\ \E d \in DiskPages :
        /\ FirstClear(d)
        /\ BlockAt(d) \subseteq DiskPages \ diskAlloc
        /\ diskAlloc' = diskAlloc \cup BlockAt(d)
        /\ blockStart' = [blockStart EXCEPT ![c] = d]
    /\ UNCHANGED <<ptVars, cur, kind, idx, buf, lockVars, statVars, storeVars,
                   backing, prmVars, daemonVars>>

(* Faulty variant of AllocPage: the loop runs once too often.               *)
AllocPageTooMany(c) ==
    /\ pc[c] = "allocating" /\ idx[c] <= BlockSize
    /\ CanWrite
    /\ IF freePages # <<>> THEN IptAdd(Page(c, idx[c])) ELSE UNCHANGED ptVars
    /\ backing' = [backing EXCEPT ![Page(c, idx[c])] = blockStart[c] + idx[c]]
    /\ idx' = [idx EXCEPT ![c] = @ + 1]
    /\ UNCHANGED <<pc, cur, kind, buf, lockVars, statVars, blockVars,
                   storeVars, prmVars, daemonVars>>

(* One turn of mmu_alloc_multiple: the page gets a frame if one is free,    *)
(* and its backing page in any case.                                        *)
AllocPage(c) ==
    /\ pc[c] = "allocating" /\ idx[c] < BlockSize
    /\ CanWrite
    /\ IF freePages # <<>> THEN IptAdd(Page(c, idx[c])) ELSE UNCHANGED ptVars
    /\ backing' = [backing EXCEPT ![Page(c, idx[c])] = blockStart[c] + idx[c]]
    /\ idx' = [idx EXCEPT ![c] = @ + 1]
    /\ UNCHANGED <<pc, cur, kind, buf, lockVars, statVars, blockVars,
                   storeVars, prmVars, daemonVars>>

(* The end of init_process, and process_start.                              *)
FinishCreate(c) ==
    /\ idx[c] = BlockSize
    /\ Goto(c, "allocating", "ready")
    /\ contLock' = NoProc
    /\ idx' = [idx EXCEPT ![c] = 0]
    /\ UNCHANGED <<ptVars, cur, kind, buf, lockVars, statVars, diskAlloc,
                   blockStart, storeVars, backing, prmVars, daemonVars>>

(* process_dealloc, run by the process when it comes to the fcDel message.  *)
StartDealloc(c) ==
    /\ contLock = NoProc /\ contLock' = c
    /\ Goto(c, "ready", "freeing")
    /\ UNCHANGED <<ptVars, cur, kind, idx, buf, lockVars, statVars, diskAlloc,
                   blockStart, storeVars, backing, prmVars, daemonVars>>

(* One turn of mmu_free_multiple.                                           *)
FreePage(c) ==
    /\ pc[c] = "freeing" /\ idx[c] < BlockSize
    /\ CanWrite
    /\ LET p == Page(c, idx[c]) IN
        /\ IF Mapped(p) THEN IptRemove(p) ELSE UNCHANGED ptVars
        /\ backing' = [backing EXCEPT ![p] = NoDiskPage]
        /\ written' = written \ {p}
    /\ idx' = [idx EXCEPT ![c] = @ + 1]
    /\ UNCHANGED <<pc, cur, kind, buf, lockVars, statVars, blockVars, mem, disk,
                   prmVars, daemonVars>>

(* Faulty variant of FreeBlock: the block is freed before all the pages are. *)
FreeBlockEarly(c) ==
    /\ Goto(c, "freeing", "junk")
    /\ contLock' = NoProc
    /\ diskAlloc' = diskAlloc \ BlockAt(blockStart[c])
    /\ blockStart' = [blockStart EXCEPT ![c] = NoDiskPage]
    /\ idx' = [idx EXCEPT ![c] = 0]
    /\ UNCHANGED <<ptVars, cur, kind, buf, lockVars, statVars, storeVars,
                   backing, prmVars, daemonVars>>

(* disk_free_process_block and the rest of process_dealloc.                 *)
FreeBlock(c) ==
    /\ idx[c] = BlockSize
    /\ Goto(c, "freeing", "junk")
    /\ contLock' = NoProc
    /\ diskAlloc' = diskAlloc \ BlockAt(blockStart[c])
    /\ blockStart' = [blockStart EXCEPT ![c] = NoDiskPage]
    /\ idx' = [idx EXCEPT ![c] = 0]
    /\ UNCHANGED <<ptVars, cur, kind, buf, lockVars, statVars, storeVars,
                   backing, prmVars, daemonVars>>

-----------------------------------------------------------------------------
(* mmu_read and mmu_write.                                                  *)

(* Faulty variant of BeginAccess: a miss counts as a hit.                   *)
BeginAccessAllHits(c, p, reftype) ==
    /\ nrefs < MaxRefs
    /\ p \in PagesOf(c)
    /\ CanRead
    /\ cur' = [cur EXCEPT ![c] = p]
    /\ kind' = [kind EXCEPT ![c] = reftype]
    /\ nrefs' = nrefs + 1
    /\ hits' = hits + 1
    /\ \/ /\ Mapped(p)
          /\ Goto(c, "ready", "touch")
          /\ readers' = readers \cup {c}
       \/ /\ ~ Mapped(p)
          /\ Goto(c, "ready", "push")
          /\ UNCHANGED readers
    /\ UNCHANGED <<ptVars, idx, buf, writer, unswept, blockVars, storeVars,
                   backing, prmVars, daemonVars>>

(* The read lock is taken and mmu_pin_page looks the page up.  A hit goes   *)
(* on with the lock; a miss is counted and releases it for the fault.       *)
BeginAccess(c, p, reftype) ==
    /\ nrefs < MaxRefs
    /\ p \in PagesOf(c)
    /\ CanRead
    /\ cur' = [cur EXCEPT ![c] = p]
    /\ kind' = [kind EXCEPT ![c] = reftype]
    /\ nrefs' = nrefs + 1
    /\ \/ /\ Mapped(p)
          /\ Goto(c, "ready", "touch")
          /\ hits' = hits + 1
          /\ readers' = readers \cup {c}
       \/ /\ ~ Mapped(p)
          /\ Goto(c, "ready", "push")
          /\ UNCHANGED <<hits, readers>>
    /\ UNCHANGED <<ptVars, idx, buf, writer, unswept, blockVars, storeVars,
                   backing, prmVars, daemonVars>>

(* prm_pagefault: push_command, ...                                         *)
PushCommand(c) ==
    /\ Goto(c, "push", "wait")
    /\ prmQueue' = Append(prmQueue, c)
    /\ done' = [done EXCEPT ![c] = FALSE]
    /\ UNCHANGED <<ptVars, cur, kind, idx, buf, lockVars, statVars, blockVars,
                   storeVars, backing, prmPc, prmCmd, daemonVars>>

(* Faulty variant of WaitDone: a wake-up is taken for the answer.           *)
WaitDoneUnchecked(c) ==
    /\ Goto(c, "wait", "relock")
    /\ done' = [done EXCEPT ![c] = FALSE]
    /\ UNCHANGED <<ptVars, cur, kind, idx, buf, lockVars, statVars, blockVars,
                   storeVars, backing, prmPc, prmQueue, prmCmd, daemonVars>>

(* ... and wait_for_completion, after which the command is deleted.         *)
WaitDone(c) ==
    /\ done[c]
    /\ Goto(c, "wait", "relock")
    /\ done' = [done EXCEPT ![c] = FALSE]
    /\ UNCHANGED <<ptVars, cur, kind, idx, buf, lockVars, statVars, blockVars,
                   storeVars, backing, prmPc, prmQueue, prmCmd, daemonVars>>

(* Faulty variant of Relock: the page is taken to be there, as after an if  *)
(* in place of the loop.                                                    *)
RelockUnchecked(c) ==
    /\ CanRead
    /\ Goto(c, "relock", "touch")
    /\ readers' = readers \cup {c}
    /\ UNCHANGED <<ptVars, cur, kind, idx, buf, writer, statVars, blockVars,
                   storeVars, backing, prmVars, daemonVars>>

(* The read lock is taken again; the page may have been swapped out since   *)
(* the PRM answered, and then mmu_pin_page faults again.                    *)
Relock(c) ==
    /\ CanRead
    /\ \/ /\ Mapped(cur[c])
          /\ Goto(c, "relock", "touch")
          /\ readers' = readers \cup {c}
       \/ /\ ~ Mapped(cur[c])
          /\ Goto(c, "relock", "push")
          /\ UNCHANGED readers
    /\ UNCHANGED <<ptVars, cur, kind, idx, buf, writer, statVars, blockVars,
                   storeVars, backing, prmVars, daemonVars>>

Touch(c) ==
    /\ Goto(c, "touch", "copy")
    /\ IptReference(cur[c], kind[c])
    /\ unswept' = unswept + 1
    /\ UNCHANGED <<cur, kind, idx, buf, lockVars, hits, nrefs, blockVars,
                   storeVars, backing, prmVars, daemonVars>>

(* Faulty variant of EndAccess: the read lock is not released.              *)
EndAccessLocked(c) ==
    /\ Goto(c, "copy", "age")
    /\ UNCHANGED readers
    /\ cur' = [cur EXCEPT ![c] = NoPage]
    /\ kind' = [kind EXCEPT ![c] = "refNone"]

(* ipt_translate, the copy and the release of the read lock.                *)
EndAccess(c) ==
    /\ Goto(c, "copy", "age")
    /\ readers' = readers \ {c}
    /\ cur' = [cur EXCEPT ![c] = NoPage]
    /\ kind' = [kind EXCEPT ![c] = "refNone"]

CopyRead(c) ==
    /\ kind[c] = "refRead"
    /\ EndAccess(c)
    /\ buf' = [buf EXCEPT ![c] = mem[FrameOf(cur[c])]]
    /\ UNCHANGED <<ptVars, idx, writer, statVars, blockVars, storeVars,
                   backing, prmVars, daemonVars>>

CopyWrite(c, v) ==
    /\ kind[c] = "refWrite"
    /\ EndAccess(c)
    /\ mem' = [mem EXCEPT ![FrameOf(cur[c])] = v]
    /\ written' = written \cup {cur[c]}
    /\ UNCHANGED <<ptVars, idx, buf, writer, statVars, blockVars, disk,
                   backing, prmVars, daemonVars>>

(* mmu_age_pages_if_needed reads the count of references, ...               *)
AgeCheck(c) ==
    /\ \/ refCount >= AgingFreq /\ Goto(c, "age", "zero") /\ UNCHANGED buf
       \/ /\ refCount < AgingFreq /\ Goto(c, "age", "ready")
          /\ buf' = [buf EXCEPT ![c] = NoValue]
    /\ UNCHANGED <<ptVars, cur, kind, idx, lockVars, statVars, blockVars,
                   storeVars, backing, prmVars, daemonVars>>

(* Faulty variant of ZeroRefCount: the daemon is not called.                *)
ZeroRefCountSilent(c) ==
    /\ Goto(c, "zero", "ready")
    /\ IptZeroRefCount
    /\ buf' = [buf EXCEPT ![c] = NoValue]
    /\ UNCHANGED <<cur, kind, idx, lockVars, statVars, blockVars, storeVars,
                   backing, prmVars, daemonVars>>

(* ... then zeroes it, in another section of refcnt_lock, ...               *)
ZeroRefCount(c) ==
    /\ Goto(c, "zero", "request")
    /\ IptZeroRefCount
    /\ UNCHANGED <<cur, kind, idx, buf, lockVars, statVars, blockVars,
                   storeVars, backing, prmVars, daemonVars>>

(* ... and calls aging_daemon_update_pages, which needs the daemon's mutex, *)
(* held by the daemon except while it waits for work.                       *)
RequestAging(c) ==
    /\ daemonPc = "idle"
    /\ Goto(c, "request", "aging")
    /\ doneUpdating' = FALSE
    /\ shouldUpdate' = TRUE
    /\ unswept' = 0
    /\ UNCHANGED <<ptVars, cur, kind, idx, buf, lockVars, hits, nrefs, blockVars,
                   storeVars, backing, prmVars, daemonPc, sweep>>

WaitAged(c) ==
    /\ daemonPc = "idle" /\ doneUpdating
    /\ Goto(c, "aging", "ready")
    /\ buf' = [buf EXCEPT ![c] = NoValue]
    /\ UNCHANGED <<ptVars, cur, kind, idx, lockVars, statVars, blockVars,
                   storeVars, backing, prmVars, daemonVars>>

-----------------------------------------------------------------------------
(* The page replacement manager: prm_thread_func.                           *)

PrmGoto(from, to) == prmPc = from /\ prmPc' = to
Target == cur[prmCmd]

PrmPop ==
    /\ prmQueue # <<>>
    /\ PrmGoto("idle", "lock")
    /\ prmCmd' = Head(prmQueue)
    /\ prmQueue' = Tail(prmQueue)
    /\ UNCHANGED <<ptVars, procVars, lockVars, statVars, blockVars, storeVars,
                   backing, done, daemonVars>>

(* Faulty variant of PrmLock: the read lock in place of the write lock.     *)
PrmLockShared ==
    /\ CanRead
    /\ PrmGoto("lock", "map")
    /\ writer' = TRUE
    /\ UNCHANGED <<ptVars, procVars, readers, statVars, blockVars, storeVars,
                   backing, prmQueue, prmCmd, done, daemonVars>>

PrmLock ==
    /\ CanWrite
    /\ PrmGoto("lock", "map")
    /\ writer' = TRUE
    /\ UNCHANGED <<ptVars, procVars, readers, statVars, blockVars, storeVars,
                   backing, prmQueue, prmCmd, done, daemonVars>>

(* mmu_map_page succeeds, or the loop goes on to choose a page to swap out. *)
PrmMap ==
    /\ \/ PrmGoto("map", "load") /\ IptAdd(Target)
       \/ PrmGoto("map", "evict") /\ freePages = <<>> /\ UNCHANGED ptVars
    /\ UNCHANGED <<procVars, lockVars, statVars, blockVars, storeVars, backing,
                   prmQueue, prmCmd, done, daemonVars>>

(* get_page_to_swap: of the valid entries other than the page to load, the  *)
(* first one with the lowest age.                                           *)
Oldest(f) ==
    LET candidates == {g \in Frames : owner[g] \notin {NoPage, Target}}
    IN /\ f \in candidates
       /\ \A g \in candidates : age[f] < age[g] \/ (age[f] = age[g] /\ f <= g)

(* Faulty variant of PrmSwapOut: the page is never written back.            *)
PrmSwapOutUnsynced ==
    /\ PrmGoto("evict", "map")
    /\ \E f \in Frames : Oldest(f) /\ IptRemove(owner[f])
    /\ UNCHANGED <<procVars, lockVars, statVars, blockVars, storeVars,
                   backing, prmQueue, prmCmd, done, daemonVars>>

(* prm_swap_out: mmu_sync_to_backing_page writes the page if it is dirty,   *)
(* then it is unmapped.                                                     *)
PrmSwapOut ==
    /\ PrmGoto("evict", "map")
    /\ \E f \in Frames :
        /\ Oldest(f)
        /\ disk' = IF dirty[f] THEN [disk EXCEPT ![backing[owner[f]]] = mem[f]]
                   ELSE disk
        /\ IptRemove(owner[f])
    /\ UNCHANGED <<procVars, lockVars, statVars, blockVars, mem, written,
                   backing, prmQueue, prmCmd, done, daemonVars>>

(* Faulty variant of PrmLoad: the frame keeps what it held.                 *)
PrmLoadNothing ==
    /\ PrmGoto("load", "unlock")
    /\ UNCHANGED <<ptVars, procVars, lockVars, statVars, blockVars, storeVars,
                   backing, prmQueue, prmCmd, done, daemonVars>>

(* mmu_sync_from_backing_page.                                              *)
PrmLoad ==
    /\ PrmGoto("load", "unlock")
    /\ mem' = [mem EXCEPT ![FrameOf(Target)] = disk[backing[Target]]]
    /\ UNCHANGED <<ptVars, procVars, lockVars, statVars, blockVars, disk,
                   written, backing, prmQueue, prmCmd, done, daemonVars>>

PrmUnlock ==
    /\ PrmGoto("unlock", "done")
    /\ writer' = FALSE
    /\ UNCHANGED <<ptVars, procVars, readers, statVars, blockVars, storeVars,
                   backing, prmQueue, prmCmd, done, daemonVars>>

(* Faulty variant of PrmDone: nobody is told.                               *)
PrmDoneSilent ==
    /\ PrmGoto("done", "idle")
    /\ prmCmd' = NoProc
    /\ UNCHANGED <<ptVars, procVars, lockVars, statVars, blockVars, storeVars,
                   backing, prmQueue, done, daemonVars>>

PrmDone ==
    /\ PrmGoto("done", "idle")
    /\ done' = [done EXCEPT ![prmCmd] = TRUE]
    /\ prmCmd' = NoProc
    /\ UNCHANGED <<ptVars, procVars, lockVars, statVars, blockVars, storeVars,
                   backing, prmQueue, daemonVars>>

-----------------------------------------------------------------------------
(* The aging daemon: daemon_func.  It has the daemon's mutex from DaemonWake *)
(* to DaemonFinish.                                                          *)

DaemonGoto(from, to) == daemonPc = from /\ daemonPc' = to

DaemonWake ==
    /\ shouldUpdate
    /\ DaemonGoto("idle", "lock")
    /\ UNCHANGED <<ptVars, procVars, lockVars, statVars, blockVars, storeVars,
                   backing, prmVars, sweep, shouldUpdate, doneUpdating>>

(* Faulty variant of DaemonLock: the sweep takes no notice of the PRM.      *)
DaemonLockUnguarded ==
    /\ DaemonGoto("lock", "shift")
    /\ readers' = readers \cup {Daemon}
    /\ sweep' = 0
    /\ UNCHANGED <<ptVars, procVars, writer, statVars, blockVars, storeVars,
                   backing, prmVars, shouldUpdate, doneUpdating>>

DaemonLock ==
    /\ CanRead
    /\ DaemonGoto("lock", "shift")
    /\ readers' = readers \cup {Daemon}
    /\ sweep' = 0
    /\ UNCHANGED <<ptVars, procVars, writer, statVars, blockVars, storeVars,
                   backing, prmVars, shouldUpdate, doneUpdating>>

(* ipt_for_each_entry calls age_page for the valid entries.                 *)
DaemonShift ==
    /\ sweep < NFrames
    /\ \/ DaemonGoto("shift", "clear") /\ AgeShift(sweep) /\ UNCHANGED sweep
       \/ /\ DaemonGoto("shift", "shift") /\ owner[sweep] = NoPage
          /\ sweep' = sweep + 1
          /\ UNCHANGED ptVars
    /\ UNCHANGED <<procVars, lockVars, statVars, blockVars, storeVars, backing,
                   prmVars, shouldUpdate, doneUpdating>>

DaemonClear ==
    /\ DaemonGoto("clear", "shift")
    /\ AgeClear(sweep)
    /\ sweep' = sweep + 1
    /\ UNCHANGED <<procVars, lockVars, statVars, blockVars, storeVars, backing,
                   prmVars, shouldUpdate, doneUpdating>>

DaemonUnlock ==
    /\ sweep = NFrames
    /\ DaemonGoto("shift", "finish")
    /\ readers' = readers \ {Daemon}
    /\ sweep' = 0
    /\ UNCHANGED <<ptVars, procVars, writer, statVars, blockVars, storeVars,
                   backing, prmVars, shouldUpdate, doneUpdating>>

(* Faulty variant of DaemonFinish: the requesters are not told.             *)
DaemonFinishSilent ==
    /\ DaemonGoto("finish", "idle")
    /\ shouldUpdate' = FALSE
    /\ UNCHANGED <<ptVars, procVars, lockVars, statVars, blockVars, storeVars,
                   backing, prmVars, sweep, doneUpdating>>

DaemonFinish ==
    /\ DaemonGoto("finish", "idle")
    /\ shouldUpdate' = FALSE
    /\ doneUpdating' = TRUE
    /\ UNCHANGED <<ptVars, procVars, lockVars, statVars, blockVars, storeVars,
                   backing, prmVars, sweep>>

-----------------------------------------------------------------------------
(* What the container does to the slot, what the thread of the process      *)
(* begins when it has a message, and how it goes on with it.                *)
Manage(c) == AllocBlock(c) \/ StartDealloc(c)
Begin(c) == \E p \in Pages, reftype \in RefTypes : BeginAccess(c, p, reftype)
Continue(c) ==
    \/ AllocPage(c) \/ FinishCreate(c) \/ FreePage(c) \/ FreeBlock(c)
    \/ PushCommand(c) \/ WaitDone(c) \/ Relock(c) \/ Touch(c)
    \/ CopyRead(c) \/ (\E v \in Values : CopyWrite(c, v))
    \/ AgeCheck(c) \/ ZeroRefCount(c) \/ RequestAging(c) \/ WaitAged(c)

PrmNext ==
    \/ PrmPop \/ PrmLock \/ PrmMap \/ PrmSwapOut \/ PrmLoad \/ PrmUnlock
    \/ PrmDone

DaemonNext ==
    \/ DaemonWake \/ DaemonLock \/ DaemonShift \/ DaemonClear \/ DaemonUnlock
    \/ DaemonFinish

Next ==
    \/ \E c \in Procs : Manage(c) \/ Begin(c) \/ Continue(c)
    \/ PrmNext
    \/ DaemonNext

Spec == Init /\ [][Next]_vars

(* The scheduler runs every thread that can go on; nobody has to create or  *)
(* delete a process or send it a message.                                   *)
Fairness ==
    /\ \A c \in Procs : WF_vars(Continue(c))
    /\ WF_vars(PrmNext)
    /\ WF_vars(DaemonNext)

FairSpec == Spec /\ Fairness

-----------------------------------------------------------------------------
(* The lock of the MMU is held for writing by the PRM from PrmLock to       *)
(* PrmUnlock and for reading by the accesses and the sweep, never both      *)
(* (mmu_acquire_write in prm_thread_func); the sweep stays in the table.    *)
LockInv ==
    /\ writer <=> prmPc \in {"map", "evict", "load", "unlock"}
    /\ readers = {c \in Procs : pc[c] \in {"touch", "copy"}}
                 \cup {d \in {Daemon} : daemonPc \in {"shift", "clear"}}
    /\ ~ (writer /\ readers # {})
    /\ daemonPc = "clear" => sweep \in Frames

Waiting(c) == pc[c] = "wait" /\ ~ done[c]
Loading(p) == prmPc = "load" /\ Target = p

(* Page fault commands are neither lost nor duplicated: the processes in    *)
(* wait_for_completion without an answer are those with a command in the    *)
(* queue or in the hands of the PRM, once.  So the command the PRM works on *)
(* is not deleted under it, and the page it maps is not mapped already (the *)
(* assertion of mmu_map_page), whatever happens between the fault and the   *)
(* write lock of the PRM.                                                   *)
FaultInv ==
    /\ IsInjective(prmQueue) /\ prmCmd \notin Range(prmQueue)
    /\ {c \in Procs : Waiting(c)} = Range(prmQueue) \cup ({prmCmd} \ {NoProc})
    /\ prmCmd = NoProc <=> prmPc = "idle"
    /\ \A c \in Procs :
        /\ pc[c] = "push" => ~ Mapped(cur[c])
        /\ Waiting(c) =>
            (Mapped(cur[c]) <=> c = prmCmd /\ prmPc \in {"load", "unlock", "done"})

(* Pages that have been allocated and not freed.                            *)
Allocated(c, i) ==
    \/ pc[c] \notin {"junk", "allocating", "freeing"}
    \/ pc[c] = "allocating" /\ i < idx[c]
    \/ pc[c] = "freeing" /\ i >= idx[c]

(* The block of a process belongs to it from disk_alloc_process_block to    *)
(* disk_free_process_block, and no disk page is lost; the pages of the      *)
(* block back the pages of the process in order, as long as these are       *)
(* allocated; only allocated pages are in memory (the assertions on         *)
(* disk_map in mmu.c).                                                      *)
BackingInv ==
    /\ \A c \in Procs : blockStart[c] = NoDiskPage <=> pc[c] = "junk"
    /\ \A c \in Procs : pc[c] # "junk" => BlockAt(blockStart[c]) \subseteq diskAlloc
    /\ \A d \in diskAlloc : \E c \in Procs :
        pc[c] # "junk" /\ d \in BlockAt(blockStart[c])
    /\ \A c, e \in Procs :
        pc[c] # "junk" /\ pc[e] # "junk" /\ c # e =>
            BlockAt(blockStart[c]) \cap BlockAt(blockStart[e]) = {}
    /\ \A c \in Procs, i \in 0 .. BlockSize - 1 :
        backing[Page(c, i)] =
            IF Allocated(c, i) THEN blockStart[c] + i ELSE NoDiskPage
    /\ \A p \in Pages : Mapped(p) => backing[p] # NoDiskPage
    /\ \A p \in written : backing[p] # NoDiskPage

(* The mutex of the container is held by the process that is created or     *)
(* deleted (init_process, process_dealloc), so one at a time is, and the    *)
(* loops over its pages start at the first one.                             *)
ContInv ==
    \A c \in Procs :
        /\ pc[c] \in {"allocating", "freeing"} <=> contLock = c
        /\ idx[c] # 0 => contLock = c

(* An access works on its own page, and from the lookup to the copy that    *)
(* page stays in memory: mmu_pin_page pins nothing, it is the read lock     *)
(* that does (the assertions of ipt_reference and ipt_translate).  A page   *)
(* that is about to be written is already marked dirty.                     *)
AccessInv ==
    \A c \in Procs :
        /\ IF pc[c] \in {"push", "wait", "relock", "touch", "copy"}
           THEN cur[c] \in PagesOf(c) /\ kind[c] \in RefTypes
           ELSE cur[c] = NoPage
        /\ pc[c] \in {"touch", "copy"} => Mapped(cur[c])
        /\ pc[c] = "copy" /\ kind[c] = "refWrite" =>
            \A f \in Frames : owner[f] = cur[c] => dirty[f]

(* A page that was written and is not dirty is on the disk as it is in      *)
(* memory, so mmu_sync_to_backing_page may skip it.                         *)
CoherenceInv ==
    \A f \in Frames :
        owner[f] \in written /\ ~ dirty[f] /\ ~ Loading(owner[f]) =>
            mem[f] = disk[backing[owner[f]]]

(* While anybody holds the read lock no page moves, though an eviction by   *)
(* the PRM and the release of a block are many steps: the frame an access   *)
(* has looked up stays the one it copies from, and a sweep ages each mapped *)
(* page once (mmu_acquire_read in mmu_read, mmu_write and daemon_func).     *)
ReadersKeepMapping == [][readers # {} => owner' = owner]_vars

(* A process that waits for a sweep has one coming or one that has ended    *)
(* since it asked: no request is forgotten though the flags of the daemon   *)
(* are shared by all requests (aging_daemon_update_pages).                  *)
AgingInv ==
    /\ daemonPc # "idle" => shouldUpdate
    /\ ~ (shouldUpdate /\ doneUpdating)
    /\ \A c \in Procs : pc[c] = "aging" => shouldUpdate \/ doneUpdating

(* Once as many references as the frequency have come since the daemon was *)
(* last called, a process is on the way to call it: none goes on without,   *)
(* though the count is raised, read and zeroed in three sections of         *)
(* refcnt_lock and the zeroing of one process takes the references of the   *)
(* others (mmu_age_pages_if_needed, and its call of the daemon).            *)
DueInv ==
    unswept >= AgingFreq /\ AgingFreq # 0 =>
        \E c \in Procs : pc[c] \in {"copy", "age", "zero", "request"}

(* Only a served page fault makes a reference that is no hit, so the hit    *)
(* rate that print_hit_rate computes is at most one, and the references of  *)
(* the processes in the middle of a fault are no hits.                      *)
StatsInv ==
    hits + Cardinality({c \in Procs : pc[c] \in {"push", "wait", "relock"}}) <= nrefs

(* Where a process, the PRM and the daemon need not wait for another thread *)
(* to go on with what they have begun.                                      *)
ProcCanGo(c) ==
    \/ pc[c] \in {"allocating", "freeing"} /\ (idx[c] = BlockSize \/ CanWrite)
    \/ pc[c] \in {"push", "age", "zero"}
    \/ pc[c] = "wait" /\ done[c]
    \/ pc[c] = "relock" /\ CanRead
    \/ pc[c] = "touch" /\ Mapped(cur[c])
    \/ pc[c] = "copy" /\ kind[c] \in RefTypes
    \/ pc[c] = "request" /\ daemonPc = "idle"
    \/ pc[c] = "aging" /\ daemonPc = "idle" /\ doneUpdating

PrmCanGo ==
    \/ prmPc = "idle" /\ prmQueue # <<>>
    \/ prmPc = "lock" /\ CanWrite
    \/ prmPc \in {"map", "load", "unlock", "done"}
    \/ prmPc = "evict" /\ \E f \in Frames : Oldest(f)

DaemonCanGo ==
    \/ daemonPc = "idle" /\ shouldUpdate
    \/ daemonPc = "lock" /\ CanRead
    \/ daemonPc \in {"shift", "finish"}
    \/ daemonPc = "clear" /\ owner[sweep] # NoPage

(* The threads never all wait for each other: the daemon takes the lock of  *)
(* the MMU with its own mutex held, a creation or deletion with the mutex   *)
(* of the container held, a process waits for the PRM after its fault and   *)
(* the PRM for the accesses to end, and yet, as long as anything that was   *)
(* begun is not finished, somebody can go on (mmu_pin_page, daemon_func,    *)
(* prm_thread_func).                                                        *)
NoDeadlock ==
    \/ \E c \in Procs : pc[c] \notin {"junk", "ready"}
    \/ prmPc # "idle"
    \/ daemonPc # "idle"
    => PrmCanGo \/ DaemonCanGo \/ \E c \in Procs : ProcCanGo(c)

(* What the processes see is the memory VirtualMemory promises: a read      *)
(* returns what was last written to the page, through every swap, sweep and *)
(* reuse of frames and disk blocks.                                         *)
Contents(p) ==
    IF Mapped(p) /\ ~ Loading(p) THEN mem[FrameOf(p)] ELSE disk[backing[p]]

VM == INSTANCE VirtualMemory WITH
    content <- [p \in Pages |-> IF p \in written THEN Contents(p) ELSE Undefined],
    access <- [c \in Procs |-> <<cur[c], kind[c]>>]

VMRefined == VM!VMSpec

(* The blocks and the backing pages are what BackingStore promises, though  *)
(* a process is created and deleted in many steps while others run.         *)
BS == INSTANCE BackingStore WITH taken <- diskAlloc, refused <- FALSE

BSRefined == BS!BSSpec

(* The invariants that support each other in every step.                    *)
IInv ==
    /\ TypeOK
    /\ LockInv
    /\ ContInv
    /\ FrameInv
    /\ FaultInv
    /\ BackingInv
    /\ AccessInv
    /\ CoherenceInv

-----------------------------------------------------------------------------
(* Every page fault is answered (wait_for_completion returns).              *)
FaultServed == \A c \in Procs : pc[c] = "wait" ~> pc[c] = "relock"

(* Every request for a sweep is answered (aging_daemon_update_pages         *)
(* returns), though a second request sets done_updating back.               *)
AgingServed == \A c \in Procs : pc[c] = "request" ~> pc[c] = "ready"

(* "The page will be mapped(swapped-in) if needed" (mmu.h:90): an access    *)
(* that faults comes to an end.                                             *)
AccessCompletes == \A c \in Procs : pc[c] = "push" ~> pc[c] = "touch"

(* "Make sure that the memory page and it's backing page are identical,     *)
(* writing the page to the backing page if needed" (mmu.h:122): when        *)
(* mmu_sync_to_backing_page returns, they are.                              *)
SyncedToBacking ==
    prmPc = "evict" =>
        \A f \in Frames :
            Oldest(f) /\ ~ dirty[f] => mem[f] = disk[backing[owner[f]]]
=============================================================================
