--------------------------- MODULE VirtualMemory ---------------------------
(***************************************************************************)
(* What the MMU promises the processes (vmsim/mmu.h): a page is a cell     *)
(* that keeps what was last written to it until it is freed, wherever its  *)
(* bytes happen to be.  An access takes effect at one moment between its   *)
(* call and its return.  Nothing is promised about a page that was         *)
(* allocated and not yet written.  Frames, the disk, faults, aging and     *)
(* locks are not visible here; Vmm implements this specification.          *)
(***************************************************************************)
CONSTANTS
    Procs,      \* the processes
    Pages,      \* the virtual pages of all processes
    NoPage,     \* no page
    Values,     \* what a page can hold
    Undefined,  \* the content of a page nothing was written to
    NoValue     \* the buffer of a process that has read nothing

VARIABLES
    content,    \* what each page holds
    access,     \* the access of each process that is yet to take effect
    buf         \* what mmu_read has returned to each process

vmVars == <<content, access, buf>>

NoAccess == <<NoPage, "refNone">>

VMInit ==
    /\ content = [p \in Pages |-> Undefined]
    /\ access = [c \in Procs |-> NoAccess]
    /\ buf = [c \in Procs |-> NoValue]

Call(c, p, reftype) ==
    /\ access[c] = NoAccess /\ buf[c] = NoValue
    /\ access' = [access EXCEPT ![c] = <<p, reftype>>]
    /\ UNCHANGED <<content, buf>>

(* mmu_read: the last value written, anything if nothing was written.       *)
Read(c, p) ==
    /\ access[c] = <<p, "refRead">>
    /\ access' = [access EXCEPT ![c] = NoAccess]
    /\ \E v \in Values :
        /\ content[p] \in {v, Undefined}
        /\ buf' = [buf EXCEPT ![c] = v]
    /\ UNCHANGED content

(* mmu_write.                                                               *)
Write(c, p, v) ==
    /\ access[c] = <<p, "refWrite">>
    /\ access' = [access EXCEPT ![c] = NoAccess]
    /\ content' = [content EXCEPT ![p] = v]
    /\ UNCHANGED buf

(* The process is done with the bytes it read.                              *)
Drop(c) ==
    /\ buf' = [buf EXCEPT ![c] = NoValue]
    /\ UNCHANGED <<content, access>>

(* mmu_free_multiple, page by page; not under an access.                    *)
FreePage(p) ==
    /\ \A c \in Procs : access[c][1] # p
    /\ content' = [content EXCEPT ![p] = Undefined]
    /\ UNCHANGED <<access, buf>>

VMNext ==
    \/ \E c \in Procs, p \in Pages :
        \/ \E reftype \in {"refRead", "refWrite"} : Call(c, p, reftype)
        \/ Read(c, p)
        \/ \E v \in Values : Write(c, p, v)
    \/ \E c \in Procs : Drop(c)
    \/ \E p \in Pages : FreePage(p)

VMSpec == VMInit /\ [][VMNext]_vmVars
=============================================================================
