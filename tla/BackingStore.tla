---------------------------- MODULE BackingStore ----------------------------
(***************************************************************************)
(* What the disk and disk_map promise: a process gets a block of           *)
(* consecutive disk pages that belongs to nobody else and is refused one   *)
(* only if the disk has no such block; each of its pages is backed by the  *)
(* page of the block with its index, from the time it is allocated to the  *)
(* time it is freed.  Vmm implements this with sets and functions,         *)
(* Resources with the words of a bitmap and the arrays of a map.           *)
(***************************************************************************)
EXTENDS Integers

CONSTANTS
    Procs,
    BlockSize,   \* pages per process
    NDiskPages,
    NoDiskPage   \* none

VARIABLES
    taken,       \* the disk pages that belong to processes
    blockStart,  \* the first page of the block of each process
    backing,     \* the disk page behind each page of a process
    refused      \* a process could not be created for lack of a block

bsVars == <<taken, blockStart, backing, refused>>

BSDiskPages == 0 .. NDiskPages - 1
Block(d) == d .. d + BlockSize - 1
FreeBlocks == {d \in BSDiskPages : Block(d) \subseteq BSDiskPages \ taken}

BSInit ==
    /\ taken = {}
    /\ blockStart = [c \in Procs |-> NoDiskPage]
    /\ backing = [p \in Procs \X (0 .. BlockSize - 1) |-> NoDiskPage]
    /\ refused = FALSE

Alloc(c) ==
    /\ blockStart[c] = NoDiskPage
    /\ \E d \in FreeBlocks :
        /\ \A e \in FreeBlocks : d <= e
        /\ taken' = taken \cup Block(d)
        /\ blockStart' = [blockStart EXCEPT ![c] = d]
    /\ UNCHANGED <<backing, refused>>

Refuse ==
    /\ FreeBlocks = {}
    /\ refused' = TRUE
    /\ UNCHANGED <<taken, blockStart, backing>>

Back(c, i) ==
    /\ blockStart[c] # NoDiskPage /\ backing[<<c, i>>] = NoDiskPage
    /\ backing' = [backing EXCEPT ![<<c, i>>] = blockStart[c] + i]
    /\ UNCHANGED <<taken, blockStart, refused>>

Unback(c, i) ==
    /\ backing[<<c, i>>] # NoDiskPage
    /\ backing' = [backing EXCEPT ![<<c, i>>] = NoDiskPage]
    /\ UNCHANGED <<taken, blockStart, refused>>

Release(c) ==
    /\ blockStart[c] # NoDiskPage
    /\ \A i \in 0 .. BlockSize - 1 : backing[<<c, i>>] = NoDiskPage
    /\ taken' = taken \ Block(blockStart[c])
    /\ blockStart' = [blockStart EXCEPT ![c] = NoDiskPage]
    /\ UNCHANGED <<backing, refused>>

BSNext ==
    \/ \E c \in Procs :
        \/ Alloc(c) \/ Release(c)
        \/ \E i \in 0 .. BlockSize - 1 : Back(c, i) \/ Unback(c, i)
    \/ Refuse

BSSpec == BSInit /\ [][BSNext]_bsVars
=============================================================================
