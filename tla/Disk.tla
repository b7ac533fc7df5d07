-------------------------------- MODULE Disk --------------------------------
(***************************************************************************)
(* The allocation of disk pages in vmsim/disk.c, on a bitmap with a bit    *)
(* for each page: blocks of BlockSize consecutive pages, one per process.  *)
(* The operations hold the write lock of the disk and are single steps.    *)
(***************************************************************************)
EXTENDS Bitmap

CONSTANTS
    BlockSize,  \* process_block_size
    NoDiskPage  \* no page

ASSUME DiskAssumption == BlockSize \in Nat \ {0} /\ NoDiskPage \notin Bits

BlockAt(d) == d .. d + BlockSize - 1

(* The pages whose bit is set.                                              *)
Taken == {d \in Bits : BitmapGet(d)}

HasEnoughConsecutivePages(d) ==
    d + BlockSize <= NBits /\ \A e \in BlockAt(d) : ~ BitmapGet(e)

(* disk_alloc_process_block up to its loop: the block at the first clear    *)
(* page, or none.                                                           *)
BlockToAlloc(beyond) ==
    LET d == FirstClear(beyond)
    IN IF d # -1 /\ HasEnoughConsecutivePages(d) THEN d ELSE NoDiskPage

(* Its loop, and that of disk_free_process_block; alloc_page and free_page  *)
(* assert that each page changes.                                           *)
TakeBlock(d) ==
    /\ \A e \in BlockAt(d) : ~ BitmapGet(e)
    /\ BitmapSet(BlockAt(d))
ReleaseBlock(d) ==
    /\ \A e \in BlockAt(d) : BitmapGet(e)
    /\ BitmapClear(BlockAt(d))
=============================================================================
