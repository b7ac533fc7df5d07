----------------------------- MODULE Resources -----------------------------
(***************************************************************************)
(* What a simulated process owns, in the data structures that keep it: a   *)
(* block of the disk (the bitmap of disk.c), the entries of its pages in   *)
(* disk_map (map.c), and its mailbox (queue.c).  init_process takes them   *)
(* one after the other and process_dealloc gives them back, both under the *)
(* mutex of the container, while others use their mailboxes.               *)
(*                                                                         *)
(* When no block is left, init_process frees a pointer into the array of   *)
(* slots: the process is aborted by free or goes on with freed memory.     *)
(* Nothing is said of what follows, so the model ends there.               *)
(***************************************************************************)
EXTENDS Disk, Map, Queue

CONSTANTS
    Procs,      \* the process slots
    NoProc      \* nobody

ASSUME ResourcesAssumption ==
    /\ NoProc \notin Procs
    /\ Queues = Procs
    /\ Keys = Procs \X (0 .. BlockSize - 1)
    /\ Vals = Bits
    /\ NoVal = NoDiskPage

VARIABLES
    stage,      \* where each process is
    idx,        \* the index of the loops over its pages
    blockStart, \* PROC_STRT
    contLock,   \* the holder of the mutex of the container
    post,       \* the message that was popped last
    refused     \* a creation has failed

resVars == <<words, mapVars, queueVars, stage, idx, blockStart, contLock, post,
             refused>>

Stages == {"junk", "allocating", "ready", "draining", "freeing"}

ResTypeOK ==
    /\ BitmapTypeOK /\ MapTypeOK /\ QueueTypeOK
    /\ stage \in [Procs -> Stages]
    /\ idx \in [Procs -> 0 .. BlockSize]
    /\ blockStart \in [Procs -> Bits \cup {NoDiskPage}]
    /\ contLock \in Procs \cup {NoProc}
    /\ post \in Items \cup {Null}
    /\ refused \in BOOLEAN

ResInit ==
    /\ BitmapInit /\ MapInit /\ QueuesInit
    /\ stage = [c \in Procs |-> "junk"]
    /\ idx = [c \in Procs |-> 0]
    /\ blockStart = [c \in Procs |-> NoDiskPage]
    /\ contLock = NoProc
    /\ post = Null
    /\ refused = FALSE

Step(c, from, to) == stage[c] = from /\ stage' = [stage EXCEPT ![c] = to]

(* init_process: the block, ...                                             *)
AllocBlock(c) ==
    /\ contLock = NoProc /\ contLock' = c
    /\ Step(c, "junk", "allocating")
    /\ \E beyond \in SUBSET WordBits :
        LET d == BlockToAlloc(beyond) IN
        /\ d # NoDiskPage
        /\ TakeBlock(d)
        /\ blockStart' = [blockStart EXCEPT ![c] = d]
    /\ UNCHANGED <<mapVars, queueVars, idx, post, refused>>

(* ... or none is left, ...                                                 *)
Refuse(c) ==
    /\ contLock = NoProc
    /\ stage[c] = "junk"
    /\ \E beyond \in SUBSET WordBits : BlockToAlloc(beyond) = NoDiskPage
    /\ refused' = TRUE
    /\ UNCHANGED <<words, mapVars, queueVars, stage, idx, blockStart, contLock,
                   post>>

(* Faulty variant of BackPage: the loop runs once too often.                *)
BackPageTooMany(c) ==
    /\ stage[c] = "allocating" /\ idx[c] <= BlockSize
    /\ MapSet(<<c, idx[c]>>, blockStart[c] + idx[c])
    /\ idx' = [idx EXCEPT ![c] = @ + 1]
    /\ UNCHANGED <<words, queueVars, stage, blockStart, contLock, post, refused>>

(* ... each page in disk_map (mmu_alloc_page, which asserts that it is not  *)
(* there), ...                                                              *)
BackPage(c) ==
    /\ stage[c] = "allocating" /\ idx[c] < BlockSize
    /\ MapSet(<<c, idx[c]>>, blockStart[c] + idx[c])
    /\ idx' = [idx EXCEPT ![c] = @ + 1]
    /\ UNCHANGED <<words, queueVars, stage, blockStart, contLock, post, refused>>

(* ... and the mailbox.                                                     *)
FinishCreate(c) ==
    /\ idx[c] = BlockSize
    /\ Step(c, "allocating", "ready")
    /\ QueueInit(c)
    /\ idx' = [idx EXCEPT ![c] = 0]
    /\ contLock' = NoProc
    /\ UNCHANGED <<words, mapVars, blockStart, post, refused>>

(* compose_mail, and process_func taking the message; both hold the mutex   *)
(* of the mailbox.                                                          *)
Send(c, item) ==
    /\ stage[c] = "ready"
    /\ QueuePush(c, item)
    /\ UNCHANGED <<words, mapVars, stage, idx, blockStart, contLock, post, refused>>

PopMail(c) ==
    /\ stage[c] \in {"ready", "draining"}
    /\ QueuePop(c)
    /\ post' = data[queue[c].head]
    /\ UNCHANGED <<words, mapVars, stage, idx, blockStart, contLock, refused>>

(* process_dealloc: the mailbox is emptied (PopMail) and destroyed, ...     *)
StartDealloc(c) ==
    /\ contLock = NoProc /\ contLock' = c
    /\ Step(c, "ready", "draining")
    /\ UNCHANGED <<words, mapVars, queueVars, idx, blockStart, post, refused>>

(* Faulty variant of DestroyMail: the queue is not emptied first.           *)
DestroyMailFull(c) ==
    /\ Step(c, "draining", "freeing")
    /\ queue' = [queue EXCEPT ![c] = Absent]
    /\ UNCHANGED <<live, data, next>>
    /\ UNCHANGED <<words, mapVars, idx, blockStart, contLock, post, refused>>

DestroyMail(c) ==
    /\ queue[c].size = 0
    /\ Step(c, "draining", "freeing")
    /\ QueueDestroy(c)
    /\ UNCHANGED <<words, mapVars, idx, blockStart, contLock, post, refused>>

(* ... the pages leave disk_map, ...                                        *)
UnbackPage(c) ==
    /\ stage[c] = "freeing" /\ idx[c] < BlockSize
    /\ MapRemove(<<c, idx[c]>>)
    /\ idx' = [idx EXCEPT ![c] = @ + 1]
    /\ UNCHANGED <<words, queueVars, stage, blockStart, contLock, post, refused>>

(* Faulty variant of FreeBlock: the pages of the next block are freed.      *)
FreeBlockOffByOne(c) ==
    /\ idx[c] = BlockSize
    /\ Step(c, "freeing", "junk")
    /\ BitmapClear(BlockAt(blockStart[c] + 1))
    /\ blockStart' = [blockStart EXCEPT ![c] = NoDiskPage]
    /\ idx' = [idx EXCEPT ![c] = 0]
    /\ contLock' = NoProc
    /\ UNCHANGED <<mapVars, queueVars, post, refused>>

(* ... and the block is freed.                                              *)
FreeBlock(c) ==
    /\ idx[c] = BlockSize
    /\ Step(c, "freeing", "junk")
    /\ ReleaseBlock(blockStart[c])
    /\ blockStart' = [blockStart EXCEPT ![c] = NoDiskPage]
    /\ idx' = [idx EXCEPT ![c] = 0]
    /\ contLock' = NoProc
    /\ UNCHANGED <<mapVars, queueVars, post, refused>>

ResNext ==
    /\ ~ refused
    /\ \E c \in Procs :
        \/ AllocBlock(c) \/ Refuse(c) \/ BackPage(c) \/ FinishCreate(c)
        \/ (\E item \in Items : Send(c, item)) \/ PopMail(c)
        \/ StartDealloc(c) \/ DestroyMail(c) \/ UnbackPage(c) \/ FreeBlock(c)

ResSpec == ResInit /\ [][ResNext]_resVars

-----------------------------------------------------------------------------
(* The bitmap has a bit for each page of the block of each process and no   *)
(* other, the map an entry for each allocated page, in the block of the     *)
(* process; no block overlaps another (the assertions of alloc_page,        *)
(* free_page, mmu_alloc_page and mmu_free_page).                            *)
Backed(c, i) ==
    \/ stage[c] \in {"ready", "draining"}
    \/ stage[c] = "allocating" /\ i < idx[c]
    \/ stage[c] = "freeing" /\ i >= idx[c]

OwnInv ==
    /\ \A c \in Procs : blockStart[c] = NoDiskPage <=> stage[c] = "junk"
    /\ \A c \in Procs : stage[c] # "junk" => BlockAt(blockStart[c]) \subseteq Taken
    /\ \A d \in Taken : \E c \in Procs : stage[c] # "junk" /\ d \in BlockAt(blockStart[c])
    /\ \A c, e \in Procs :
        stage[c] # "junk" /\ stage[e] # "junk" /\ c # e =>
            BlockAt(blockStart[c]) \cap BlockAt(blockStart[e]) = {}
    /\ \A c \in Procs, i \in 0 .. BlockSize - 1 :
        MapGet(<<c, i>>) = IF Backed(c, i) THEN blockStart[c] + i ELSE NoDiskPage
    /\ \A c \in Procs :
        queue[c] = Absent <=> stage[c] \in {"junk", "allocating", "freeing"}

(* "since all pages are the same size, this should also be the first        *)
(* available block of pages of the proper size" (disk.c:114): the bitmap's  *)
(* words and the map's arrays make the store that is promised, and only a   *)
(* disk without a block refuses a process.                                  *)
BS == INSTANCE BackingStore WITH
    NDiskPages <- NBits, taken <- Taken, backing <- Contents

BSRefined == BS!BSSpec

(* Messages are taken in the order they were sent, none of another process, *)
(* though the mailboxes share the nodes of one heap and are torn down and   *)
(* set up again.                                                            *)
Mail == INSTANCE Fifo WITH
    contents <- [c \in Procs |-> ItemsIn(c)], popped <- post

MailRefined == Mail!FifoSpec
=============================================================================
