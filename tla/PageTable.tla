----------------------------- MODULE PageTable -----------------------------
(***************************************************************************)
(* The inverted page table as its callers see it (vmsim/ipt.h): one entry  *)
(* per frame, found by the virtual page it holds, and the FIFO queue of    *)
(* the frames that are free.  How vmsim/ipt.c finds an entry, through the  *)
(* HAT and the hash lists, is module Ipt, which implements PTSpec; module  *)
(* Vmm builds the MMU on the operations below.                             *)
(***************************************************************************)
EXTENDS Integers, Sequences, Functions

CONSTANTS
    Pages,      \* the virtual pages (virt_addr_t without its offset)
    NoPage,     \* the owner of a free frame
    NFrames,    \* the number of frames (MM_NUM_OF_PAGES)
    AgeMsb      \* the most significant bit of page_age (2^31 in the code)

ASSUME PageTableAssumption ==
    /\ NoPage \notin Pages
    /\ NFrames \in Nat \ {0}
    /\ AgeMsb \in Nat \ {0}

Frames == 0 .. NFrames - 1
Ages == 0 .. 2 * AgeMsb - 1
RefTypes == {"refRead", "refWrite"}

VARIABLES
    owner,      \* the page a valid entry holds, NoPage for an invalid one
    dirty,      \* page_data.dirty
    referenced, \* page_data.referenced
    age,        \* page_data.page_age
    freePages,  \* the queue of free frames
    refCount    \* references since the last ipt_zero_ref_count

flagVars == <<dirty, referenced, age>>
ptVars == <<owner, dirty, referenced, age, freePages, refCount>>

PTTypeOK ==
    /\ owner \in [Frames -> Pages \cup {NoPage}]
    /\ dirty \in [Frames -> BOOLEAN]
    /\ referenced \in [Frames -> BOOLEAN]
    /\ age \in [Frames -> Ages]
    /\ freePages \in Seq(Frames)
    /\ refCount \in Nat

PTInit ==
    /\ owner = [f \in Frames |-> NoPage]
    /\ dirty = [f \in Frames |-> FALSE]
    /\ referenced = [f \in Frames |-> FALSE]
    /\ age = [f \in Frames |-> 0]
    /\ freePages = [i \in 1 .. NFrames |-> i - 1]
    /\ refCount = 0

-----------------------------------------------------------------------------
(* Lookups: ipt_has_translation and ipt_translate.                          *)
Mapped(p) == \E f \in Frames : owner[f] = p
FrameOf(p) == CHOOSE f \in Frames : owner[f] = p

(* ipt_add takes the free frame at the head of the queue and initialises its *)
(* entry; it fails, and changes nothing, when no frame is free.              *)
IptAdd(p) ==
    /\ freePages # <<>>
    /\ LET f == Head(freePages) IN
        /\ owner' = [owner EXCEPT ![f] = p]
        /\ dirty' = [dirty EXCEPT ![f] = FALSE]
        /\ referenced' = [referenced EXCEPT ![f] = FALSE]
        /\ age' = [age EXCEPT ![f] = AgeMsb]
    /\ freePages' = Tail(freePages)
    /\ UNCHANGED refCount

(* Faulty variant of IptRemove: the frame is not queued.                    *)
IptRemoveLeak(p) ==
    /\ Mapped(p)
    /\ owner' = [owner EXCEPT ![FrameOf(p)] = NoPage]
    /\ UNCHANGED <<flagVars, freePages, refCount>>

(* ipt_remove invalidates the entry and queues its frame; the other fields  *)
(* of the entry keep their values.                                          *)
IptRemove(p) ==
    /\ Mapped(p)
    /\ owner' = [owner EXCEPT ![FrameOf(p)] = NoPage]
    /\ freePages' = Append(freePages, FrameOf(p))
    /\ UNCHANGED <<flagVars, refCount>>

IptReference(p, reftype) ==
    /\ Mapped(p)
    /\ referenced' = [referenced EXCEPT ![FrameOf(p)] = TRUE]
    /\ dirty' = IF reftype = "refWrite"
                THEN [dirty EXCEPT ![FrameOf(p)] = TRUE] ELSE dirty
    /\ refCount' = refCount + 1
    /\ UNCHANGED <<owner, age, freePages>>

IptZeroRefCount ==
    /\ refCount' = 0
    /\ UNCHANGED <<owner, flagVars, freePages>>

(* age_page in its two halves: the age is shifted and takes the reference   *)
(* bit, and then the bit is cleared.  The aging daemon does both under the  *)
(* read lock of the MMU, so an ipt_reference can come between them.         *)
AgeShift(f) ==
    /\ owner[f] # NoPage
    /\ age' = [age EXCEPT ![f] = (age[f] \div 2)
                                 + (IF referenced[f] THEN AgeMsb ELSE 0)]
    /\ UNCHANGED <<owner, dirty, referenced, freePages, refCount>>

AgeClear(f) ==
    /\ owner[f] # NoPage
    /\ referenced' = [referenced EXCEPT ![f] = FALSE]
    /\ UNCHANGED <<owner, dirty, age, freePages, refCount>>

-----------------------------------------------------------------------------
(* The table by itself: its callers add a page only when it has no          *)
(* translation (the assertion of mmu_map_page).                             *)
PTNext ==
    \/ \E p \in Pages :
        \/ ~ Mapped(p) /\ IptAdd(p)
        \/ IptRemove(p)
        \/ \E reftype \in RefTypes : IptReference(p, reftype)
    \/ IptZeroRefCount
    \/ \E f \in Frames : AgeShift(f) \/ AgeClear(f)

PTSpec == PTInit /\ [][PTNext]_ptVars

(* No frame is leaked, lost or given out twice over any sequence of maps,   *)
(* swaps and frees: a page has at most one frame, and the queue that        *)
(* ipt_add takes frames from holds exactly the others, each once.           *)
FrameInv ==
    /\ \A f, g \in Frames : owner[f] = owner[g] /\ owner[f] # NoPage => f = g
    /\ IsInjective(freePages)
    /\ Range(freePages) = {f \in Frames : owner[f] = NoPage}
=============================================================================
