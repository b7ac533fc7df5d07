------------------------ MODULE VmmRefinementProofs ------------------------
(***************************************************************************)
(* Proofs that Vmm implements what the memory promises: its disk blocks    *)
(* and backing pages are the store of BackingStore, and through every      *)
(* fault, swap, sweep and reuse of frames and disk blocks a process reads  *)
(* what it last wrote, as in VirtualMemory.                                *)
(***************************************************************************)
EXTENDS VmmProofs

LEMMA AllocRefines ==
    ASSUME IInv, NEW c \in Procs, AllocBlock(c)
    PROVE  BS!Alloc(c)
<1>1. blockStart[c] = NoDiskPage
  BY DEF AllocBlock, Goto, IInv, BackingInv
<1>2. PICK d \in DiskPages :
        /\ FirstClear(d)
        /\ BlockAt(d) \subseteq DiskPages \ diskAlloc
        /\ diskAlloc' = diskAlloc \cup BlockAt(d)
        /\ blockStart' = [blockStart EXCEPT ![c] = d]
  BY DEF AllocBlock
<1>3. d \in BS!FreeBlocks
  BY <1>2 DEF BS!FreeBlocks, BS!BSDiskPages, BS!Block, BlockAt, DiskPages
<1>4. ASSUME NEW e \in BS!FreeBlocks PROVE d <= e
  <2>1. e \in Int /\ e \in BS!Block(e)
    BY VmmAssumption DEF BS!FreeBlocks, BS!BSDiskPages, BS!Block
  <2>2. e \in DiskPages \ diskAlloc
    BY <2>1 DEF BS!FreeBlocks, BS!BSDiskPages, DiskPages
  <2> QED BY <1>2, <2>2 DEF FirstClear
<1>5. diskAlloc' = diskAlloc \cup BS!Block(d)
  BY <1>2 DEF BlockAt, BS!Block
<1>6. backing' = backing
  BY DEF AllocBlock
<1> QED BY <1>1, <1>2, <1>3, <1>4, <1>5, <1>6 DEF BS!Alloc

LEMMA PageRefines ==
    ASSUME IInv, NEW c \in Procs, AllocPage(c) \/ FreePage(c)
    PROVE  \E i \in 0 .. BlockSize - 1 : BS!Back(c, i) \/ BS!Unback(c, i)
<1> DEFINE i == idx[c]
<1>1. i \in 0 .. BlockSize - 1 /\ pc[c] \in {"allocating", "freeing"}
  BY VmmAssumption DEF AllocPage, FreePage, IInv, TypeOK
<1>2. UNCHANGED <<diskAlloc, blockStart>>
  BY DEF AllocPage, FreePage, blockVars
<1>3. CASE AllocPage(c)
  <2>1. blockStart[c] # NoDiskPage
    BY <1>1 DEF IInv, BackingInv
  <2>2. backing[<<c, i>>] = NoDiskPage
    BY <1>1, <1>3 DEF AllocPage, IInv, BackingInv, Allocated, Page
  <2>3. backing' = [backing EXCEPT ![<<c, i>>] = blockStart[c] + i]
    BY <1>3 DEF AllocPage, Page
  <2>4. BS!Back(c, i)
    BY <1>2, <2>1, <2>2, <2>3 DEF BS!Back
  <2> QED BY <1>1, <2>4
<1>4. CASE FreePage(c)
  <2>1. pc[c] = "freeing"
    BY <1>4 DEF FreePage
  <2>2. backing[Page(c, i)] = blockStart[c] + i
    BY <1>1, <2>1 DEF IInv, BackingInv, Allocated
  <2>3. backing[<<c, i>>] # NoDiskPage
    BY <1>1, <2>1, <2>2, BackingFacts, VmmAssumption DEF Page
  <2>4. backing' = [backing EXCEPT ![<<c, i>>] = NoDiskPage]
    BY <1>4 DEF FreePage, Page
  <2>5. BS!Unback(c, i)
    BY <1>2, <2>3, <2>4 DEF BS!Unback
  <2> QED BY <1>1, <2>5
<1> QED BY <1>3, <1>4

LEMMA ReleaseRefines ==
    ASSUME IInv, NEW c \in Procs, FreeBlock(c)
    PROVE  BS!Release(c)
<1>1. pc[c] = "freeing" /\ idx[c] = BlockSize
  BY DEF FreeBlock, Goto
<1>2. blockStart[c] # NoDiskPage
  BY <1>1 DEF IInv, BackingInv
<1>3. ASSUME NEW i \in 0 .. BlockSize - 1 PROVE backing[<<c, i>>] = NoDiskPage
  <2>1. ~ Allocated(c, i)
    BY <1>1, VmmAssumption DEF Allocated
  <2> QED BY <2>1 DEF IInv, BackingInv, Page
<1>4. /\ diskAlloc' = diskAlloc \ BS!Block(blockStart[c])
      /\ blockStart' = [blockStart EXCEPT ![c] = NoDiskPage]
      /\ backing' = backing
  BY DEF FreeBlock, BlockAt, BS!Block
<1> QED BY <1>2, <1>3, <1>4 DEF BS!Release

(* Nothing else changes the store.                                          *)
LEMMA StoreKept ==
    ASSUME [Next]_vars,
           \A c \in Procs : ~ AllocBlock(c) /\ ~ AllocPage(c) /\ ~ FreePage(c)
                            /\ ~ FreeBlock(c)
    PROVE  UNCHANGED <<diskAlloc, blockStart, backing>>
<1> USE DEF blockVars
<1>1. CASE UNCHANGED vars
  BY <1>1 DEF vars
<1>2. CASE PrmNext
  BY <1>2 DEF PrmNext, PrmPop, PrmLock, PrmMap, PrmSwapOut, PrmLoad, PrmUnlock,
              PrmDone
<1>3. CASE DaemonNext
  BY <1>3 DEF DaemonNext, DaemonWake, DaemonLock, DaemonShift, DaemonClear,
              DaemonUnlock, DaemonFinish
<1>4. ASSUME NEW c \in Procs, Manage(c) \/ Begin(c) \/ Continue(c)
      PROVE  UNCHANGED <<diskAlloc, blockStart, backing>>
  <2>1. CASE StartDealloc(c) \/ FinishCreate(c) \/ Begin(c)
    BY <2>1 DEF StartDealloc, FinishCreate, Begin, BeginAccess
  <2>2. CASE PushCommand(c) \/ WaitDone(c) \/ Relock(c) \/ Touch(c)
    BY <2>2 DEF PushCommand, WaitDone, Relock, Touch
  <2>3. CASE CopyRead(c) \/ \E v \in Values : CopyWrite(c, v)
    BY <2>3 DEF CopyRead, CopyWrite
  <2>4. CASE AgeCheck(c) \/ ZeroRefCount(c) \/ RequestAging(c) \/ WaitAged(c)
    BY <2>4 DEF AgeCheck, ZeroRefCount, RequestAging, WaitAged
  <2> QED BY <1>4, <2>1, <2>2, <2>3, <2>4 DEF Manage, Continue
<1> QED BY <1>1, <1>2, <1>3, <1>4 DEF Next

(* A process gets the first free block and its pages are backed by it, in   *)
(* order, from their allocation to their release (init_process,             *)
(* process_dealloc, disk.c, mmu_alloc_multiple, mmu_free_multiple).         *)
THEOREM StoreRefined == Spec => BSRefined
<1>1. Init => BS!BSInit
  BY VmmAssumption DEF Init, BS!BSInit
<1>2. IInv /\ [Next]_vars => [BS!BSNext]_(BS!bsVars)
  <2> SUFFICES ASSUME IInv, [Next]_vars PROVE [BS!BSNext]_(BS!bsVars)
    OBVIOUS
  <2>1. ASSUME NEW c \in Procs, AllocBlock(c) PROVE BS!BSNext
    BY <2>1, AllocRefines DEF BS!BSNext
  <2>2. ASSUME NEW c \in Procs, AllocPage(c) \/ FreePage(c) PROVE BS!BSNext
    BY <2>2, PageRefines DEF BS!BSNext
  <2>3. ASSUME NEW c \in Procs, FreeBlock(c) PROVE BS!BSNext
    BY <2>3, ReleaseRefines DEF BS!BSNext
  <2> QED BY <2>1, <2>2, <2>3, StoreKept DEF BS!bsVars
<1> QED BY <1>1, <1>2, Invariance, PTL DEF Spec, BSRefined, BS!BSSpec

-----------------------------------------------------------------------------
Accessing == {"push", "wait", "relock", "touch", "copy"}
Checking == {"age", "zero", "request", "aging"}

(* A process that is in no call has no kind of access, and one that has not *)
(* read holds no byte.                                                      *)
CallInv ==
    \A c \in Procs :
        /\ pc[c] \notin Accessing => kind[c] = "refNone"
        /\ pc[c] \notin Checking => buf[c] = NoValue

MemInv == IInv /\ CallInv

(* The two sides of the refinement mapping.                                 *)
Content == [p \in Pages |-> IF p \in written THEN Contents(p) ELSE Undefined]
Access == [c \in Procs |-> <<cur[c], kind[c]>>]

-----------------------------------------------------------------------------
(* What a page holds does not change as long as its frame and the bytes in  *)
(* it do not, nor those of its backing page.                                *)
LEMMA ContentsKept ==
    ASSUME FrameInv, FrameInv', NEW p \in Pages,
           \A f \in Frames : owner[f] = p <=> owner'[f] = p,
           \A f \in Frames : owner[f] = p => mem'[f] = mem[f],
           Loading(p)' <=> Loading(p),
           disk'[backing'[p]] = disk[backing[p]]
    PROVE  Contents(p)' = Contents(p)
<1>1. Mapped(p)' <=> Mapped(p)
  BY DEF Mapped
<1>2. CASE ~ Mapped(p)
  BY <1>1, <1>2 DEF Contents
<1>3. CASE Mapped(p)
  <2>1. FrameOf(p) \in Frames /\ owner[FrameOf(p)] = p
    BY <1>3, FrameOfMapped
  <2>2. FrameOf(p)' \in Frames /\ owner'[FrameOf(p)'] = p
    BY <1>1, <1>3 DEF Mapped, FrameOf
  <2>3. FrameOf(p)' = FrameOf(p)
    BY <2>1, <2>2, PageFacts DEF FrameInv
  <2> QED BY <1>1, <1>3, <2>1, <2>3 DEF Contents
<1> QED BY <1>2, <1>3

(* A frame given to one page, or taken from it, is no matter to the others. *)
LEMMA OthersKeepFrames ==
    ASSUME IInv, NEW p \in Pages, NEW q \in Pages, q # p,
           \/ ~ Mapped(p) /\ IptAdd(p)
           \/ IptRemove(p)
    PROVE  \A f \in Frames : owner[f] = q <=> owner'[f] = q
<1>1. PTTypeOK /\ FrameInv
  BY DEF IInv, TypeOK
<1>2. CASE ~ Mapped(p) /\ IptAdd(p)
  <2>1. PICK f \in Frames : owner[f] = NoPage /\ owner' = [owner EXCEPT ![f] = p]
    BY <1>1, <1>2, IptAddStep
  <2> QED BY <1>1, <2>1, PageFacts DEF PTTypeOK
<1>3. CASE IptRemove(p)
  <2>1. /\ owner' = [owner EXCEPT ![FrameOf(p)] = NoPage]
        /\ FrameOf(p) \in Frames /\ owner[FrameOf(p)] = p
    BY <1>1, <1>3, IptRemoveStep, FrameOfMapped
  <2> QED BY <1>1, <2>1, PageFacts DEF PTTypeOK
<1> QED BY <1>2, <1>3

(* Nobody loads a page while the table can be changed or read by others.    *)
LEMMA NotLoading ==
    ASSUME prmPc # "load", prmPc' # "load"
    PROVE  \A p : ~ Loading(p) /\ ~ Loading(p)'
BY DEF Loading

(* A step that keeps the written pages and what they hold, the accesses and *)
(* the buffers is not seen.                                                 *)
LEMMA Unseen ==
    ASSUME written' = written, UNCHANGED <<cur, kind, buf>>,
           \A p \in written : Contents(p)' = Contents(p)
    PROVE  UNCHANGED VM!vmVars
<1>1. Content' = Content
  BY DEF Content
<1>2. Access' = Access
  BY DEF Access
<1> QED BY <1>1, <1>2 DEF VM!vmVars, Content, Access

(* Such are the steps that change neither table nor store.                  *)
LEMMA UnseenStep ==
    ASSUME IInv, IInv',
           UNCHANGED <<owner, mem, disk, backing, written, cur, kind, buf>>,
           \/ UNCHANGED <<prmPc, prmCmd>>
           \/ prmPc # "load" /\ prmPc' # "load"
    PROVE  UNCHANGED VM!vmVars
<1>1. ASSUME NEW p \in written PROVE Contents(p)' = Contents(p)
  <2>1. p \in Pages
    BY DEF IInv, TypeOK
  <2>2. Loading(p)' <=> Loading(p)
    BY DEF Loading, Target
  <2> QED BY <2>1, <2>2, ContentsKept DEF IInv
<1> QED BY <1>1, Unseen

-----------------------------------------------------------------------------
(* The calls.                                                               *)
LEMMA CallRefines ==
    ASSUME MemInv, MemInv', NEW c \in Procs, NEW p \in Pages,
           NEW reftype \in RefTypes, BeginAccess(c, p, reftype)
    PROVE  VM!Call(c, p, reftype)
<1>1. /\ pc[c] = "ready" /\ ~ writer
      /\ cur' = [cur EXCEPT ![c] = p] /\ kind' = [kind EXCEPT ![c] = reftype]
      /\ UNCHANGED <<owner, mem, disk, backing, written, buf, prmPc>>
  BY DEF BeginAccess, CanRead, Goto, ptVars, storeVars, prmVars
<1>2. prmPc # "load"
  BY <1>1 DEF MemInv, IInv, LockInv
<1>3. ASSUME NEW q \in written PROVE Contents(q)' = Contents(q)
  BY <1>1, <1>2, NotLoading, ContentsKept DEF MemInv, IInv, TypeOK
<1>4. Content' = Content
  BY <1>1, <1>3 DEF Content
<1>5. Access[c] = VM!NoAccess /\ buf[c] = NoValue
  BY <1>1 DEF Access, VM!NoAccess, MemInv, CallInv, IInv, AccessInv, Accessing,
              Checking
<1>6. Access' = [Access EXCEPT ![c] = <<p, reftype>>]
  BY <1>1 DEF Access, MemInv, IInv, TypeOK
<1> QED BY <1>1, <1>4, <1>5, <1>6 DEF VM!Call, Content, Access

LEMMA CopyRefines ==
    ASSUME MemInv, MemInv', NEW c \in Procs, NEW v \in Values,
           CopyRead(c) \/ CopyWrite(c, v)
    PROVE  \E p \in Pages : VM!Read(c, p) \/ VM!Write(c, p, v)
<1>1. /\ pc[c] = "copy"
      /\ cur' = [cur EXCEPT ![c] = NoPage]
      /\ kind' = [kind EXCEPT ![c] = "refNone"]
      /\ UNCHANGED <<owner, disk, backing, prmPc>>
  BY DEF CopyRead, CopyWrite, EndAccess, Goto, ptVars, storeVars, prmVars
<1>2. PICK p \in Pages : p = cur[c]
  BY <1>1, PageFacts DEF MemInv, IInv, AccessInv
<1>3. Mapped(p) /\ FrameOf(p) \in Frames /\ owner[FrameOf(p)] = p
  BY <1>1, <1>2, FrameOfMapped DEF MemInv, IInv, AccessInv
<1>4. prmPc # "load" /\ prmPc' # "load"
  BY <1>1, VmmAssumption DEF MemInv, IInv, LockInv
<1>5. Access' = [Access EXCEPT ![c] = VM!NoAccess]
  BY <1>1 DEF Access, VM!NoAccess, MemInv, IInv, TypeOK
<1>6. Access[c] = <<p, kind[c]>>
  BY <1>2 DEF Access
<1>7. Contents(p) = mem[FrameOf(p)]
  BY <1>3, <1>4, NotLoading DEF Contents
<1>8. CASE CopyRead(c)
  <2>1. /\ kind[c] = "refRead" /\ buf' = [buf EXCEPT ![c] = mem[FrameOf(p)]]
        /\ UNCHANGED <<mem, written>>
    BY <1>8, <1>2 DEF CopyRead, storeVars
  <2>2. ASSUME NEW q \in written PROVE Contents(q)' = Contents(q)
    BY <1>1, <1>4, <2>1, NotLoading, ContentsKept DEF MemInv, IInv, TypeOK
  <2>3. Content' = Content
    BY <2>1, <2>2 DEF Content
  <2>4. mem[FrameOf(p)] \in Values
    BY <1>3 DEF MemInv, IInv, TypeOK
  <2>5. Content[p] \in {mem[FrameOf(p)], Undefined}
    BY <1>3, <1>7 DEF Content
  <2>6. VM!Read(c, p)
    BY <1>5, <1>6, <2>1, <2>3, <2>4, <2>5 DEF VM!Read, Content, Access
  <2> QED BY <1>3, <2>6
<1>9. CASE CopyWrite(c, v)
  <2>1. /\ kind[c] = "refWrite" /\ mem' = [mem EXCEPT ![FrameOf(p)] = v]
        /\ written' = written \cup {p} /\ buf' = buf
    BY <1>9, <1>2 DEF CopyWrite
  <2>2. ASSUME NEW q \in written, q # p PROVE Contents(q)' = Contents(q)
    <3>1. \A f \in Frames : owner[f] = q => mem'[f] = mem[f]
      BY <1>3, <2>1, <2>2 DEF MemInv, IInv, TypeOK
    <3> QED BY <1>1, <1>4, <2>2, <3>1, NotLoading, ContentsKept
               DEF MemInv, IInv, TypeOK
  <2>3. FrameOf(p)' = FrameOf(p) /\ Mapped(p)'
    BY <1>1, <1>3 DEF FrameOf, Mapped
  <2>4. Contents(p)' = v
    BY <1>3, <1>4, <2>1, <2>3, NotLoading DEF Contents, MemInv, IInv, TypeOK
  <2>5. Content' = [Content EXCEPT ![p] = v]
    BY <2>1, <2>2, <2>4 DEF Content
  <2>6. VM!Write(c, p, v)
    BY <1>5, <1>6, <2>1, <2>5 DEF VM!Write, Content, Access
  <2> QED BY <2>6
<1> QED BY <1>8, <1>9
-----------------------------------------------------------------------------
(* Creation and deletion.  A page that gets its frame or backing page was   *)
(* not written to.                                                          *)
LEMMA AllocUnseen ==
    ASSUME MemInv, MemInv', NEW c \in Procs, AllocPage(c)
    PROVE  UNCHANGED VM!vmVars
<1>1. /\ pc[c] = "allocating" /\ idx[c] \in 0 .. BlockSize - 1 /\ ~ writer
      /\ \/ IptAdd(Page(c, idx[c]))
         \/ UNCHANGED ptVars
      /\ backing' = [backing EXCEPT ![Page(c, idx[c])] = blockStart[c] + idx[c]]
      /\ UNCHANGED <<mem, disk, written, cur, kind, buf, prmPc>>
  BY VmmAssumption
     DEF AllocPage, CanWrite, MemInv, IInv, TypeOK, storeVars, prmVars
<1>2. PICK p \in Pages : p = Page(c, idx[c])
  BY <1>1, PageFacts
<1>3. prmPc # "load"
  BY <1>1 DEF MemInv, IInv, LockInv
<1>4. backing[p] = NoDiskPage
  <2>1. ~ Allocated(c, idx[c])
    BY <1>1 DEF Allocated
  <2> QED BY <1>1, <1>2, <2>1 DEF MemInv, IInv, BackingInv
<1>5. ~ Mapped(p) /\ p \notin written
  BY <1>4 DEF MemInv, IInv, BackingInv
<1>6. ASSUME NEW q \in Pages, q # p
      PROVE  \A f \in Frames : owner[f] = q <=> owner'[f] = q
  <2>1. CASE UNCHANGED ptVars
    BY <2>1 DEF ptVars
  <2>2. CASE IptAdd(p)
    BY <1>5, <1>6, <2>2, OthersKeepFrames DEF MemInv
  <2> QED BY <1>1, <1>2, <2>1, <2>2
<1>7. ASSUME NEW q \in written PROVE Contents(q)' = Contents(q)
  <2>1. q \in Pages /\ q # p
    BY <1>5 DEF MemInv, IInv, TypeOK
  <2>2. backing'[q] = backing[q]
    BY <1>1, <1>2, <2>1 DEF MemInv, IInv, TypeOK
  <2> QED BY <1>1, <1>3, <1>6, <2>1, <2>2, NotLoading, ContentsKept
             DEF MemInv, IInv
<1> QED BY <1>1, <1>7, Unseen

LEMMA FreeRefines ==
    ASSUME MemInv, MemInv', NEW c \in Procs, FreePage(c)
    PROVE  \E p \in Pages : VM!FreePage(p)
<1>1. /\ pc[c] = "freeing" /\ idx[c] \in 0 .. BlockSize - 1 /\ ~ writer
      /\ \/ IptRemove(Page(c, idx[c]))
         \/ UNCHANGED ptVars
      /\ backing' = [backing EXCEPT ![Page(c, idx[c])] = NoDiskPage]
      /\ written' = written \ {Page(c, idx[c])}
      /\ UNCHANGED <<mem, disk, cur, kind, buf, prmPc>>
  BY VmmAssumption
     DEF FreePage, CanWrite, MemInv, IInv, TypeOK, prmVars
<1>2. PICK p \in Pages : p = Page(c, idx[c])
  BY <1>1, PageFacts
<1>3. prmPc # "load"
  BY <1>1 DEF MemInv, IInv, LockInv
<1>4. ASSUME NEW q \in Pages, q # p
      PROVE  \A f \in Frames : owner[f] = q <=> owner'[f] = q
  <2>1. CASE UNCHANGED ptVars
    BY <2>1 DEF ptVars
  <2>2. CASE IptRemove(p)
    BY <1>4, <2>2, OthersKeepFrames DEF MemInv
  <2> QED BY <1>1, <1>2, <2>1, <2>2
<1>5. ASSUME NEW q \in written, q # p PROVE Contents(q)' = Contents(q)
  <2>1. q \in Pages
    BY DEF MemInv, IInv, TypeOK
  <2>2. backing'[q] = backing[q]
    BY <1>1, <1>2, <1>5, <2>1 DEF MemInv, IInv, TypeOK
  <2> QED BY <1>1, <1>3, <1>4, <1>5, <2>1, <2>2, NotLoading, ContentsKept
             DEF MemInv, IInv
<1>6. Content' = [Content EXCEPT ![p] = Undefined]
  BY <1>1, <1>2, <1>5 DEF Content
<1>7. Access' = Access
  BY <1>1 DEF Access
<1>8. ASSUME NEW d \in Procs PROVE Access[d][1] # p
  <2>1. p \in PagesOf(c)
    BY <1>1, <1>2, PageFacts
  <2>2. d = c => cur[d] = NoPage
    BY <1>1 DEF MemInv, IInv, AccessInv
  <2>3. d # c => cur[d] = NoPage \/ cur[d] \in PagesOf(d)
    BY DEF MemInv, IInv, AccessInv
  <2> QED BY <2>1, <2>2, <2>3, PageFacts DEF Access
<1>9. VM!FreePage(p)
  BY <1>1, <1>6, <1>7, <1>8 DEF VM!FreePage, Content, Access
<1> QED BY <1>9

-----------------------------------------------------------------------------
(* The PRM moves pages without changing what they hold.                     *)
LEMMA MapUnseen ==
    ASSUME MemInv, MemInv', PrmMap, IptAdd(Target), prmPc' = "load"
    PROVE  UNCHANGED VM!vmVars
<1>1. /\ prmPc = "map"
      /\ UNCHANGED <<mem, disk, written, backing, cur, kind, buf, prmCmd>>
  BY DEF PrmMap, PrmGoto, procVars, storeVars
<1>2. PICK p \in Pages : p = Target
  BY <1>1, CommandFacts DEF MemInv
<1>3. ~ Mapped(p)
  BY <1>1, <1>2, CommandFacts DEF MemInv
<1>4. IptAdd(p)
  BY <1>2
<1>5. \A q \in Pages : q # p => \A f \in Frames : owner[f] = q <=> owner'[f] = q
  BY <1>3, <1>4, OthersKeepFrames DEF MemInv
<1>6. \A q : ~ Loading(q) /\ (Loading(q)' <=> q = p)
  BY <1>1, <1>2 DEF Loading, Target
<1>7. Contents(p)' = Contents(p)
  BY <1>1, <1>3, <1>6 DEF Contents
<1>8. ASSUME NEW q \in Pages, q # p PROVE Contents(q)' = Contents(q)
  BY <1>1, <1>5, <1>6, <1>8, ContentsKept DEF MemInv, IInv
<1> QED BY <1>1, <1>7, <1>8, Unseen DEF MemInv, IInv, TypeOK

LEMMA SwapOutUnseen ==
    ASSUME MemInv, MemInv', PrmSwapOut
    PROVE  UNCHANGED VM!vmVars
<1>1. PICK f \in Frames :
        /\ Oldest(f)
        /\ disk' = IF dirty[f] THEN [disk EXCEPT ![backing[owner[f]]] = mem[f]]
                   ELSE disk
        /\ IptRemove(owner[f])
  BY DEF PrmSwapOut
<1>2. /\ prmPc = "evict" /\ prmPc' = "map"
      /\ UNCHANGED <<mem, written, backing, cur, kind, buf>>
  BY DEF PrmSwapOut, PrmGoto, procVars
<1>3. PICK p \in Pages : p = owner[f]
  BY <1>1 DEF Oldest, MemInv, IInv, TypeOK, PTTypeOK
<1>4. Mapped(p) /\ FrameOf(p) = f /\ backing[p] \in DiskPages
  <2>1. Mapped(p)
    BY <1>3 DEF Mapped
  <2> QED BY <1>3, <2>1, FrameOfMapped, BackingFacts, PageFacts
             DEF MemInv, IInv, FrameInv
<1>5. owner' = [owner EXCEPT ![f] = NoPage] /\ ~ Mapped(p)'
  <2>1. IptRemove(p)
    BY <1>1, <1>3
  <2> QED BY <1>4, <2>1, IptRemoveStep DEF MemInv, IInv, TypeOK
<1>6. ASSUME p \in written PROVE Contents(p)' = Contents(p)
  <2>1. Contents(p) = mem[f]
    BY <1>2, <1>4, NotLoading DEF Contents
  <2>2. Contents(p)' = disk'[backing[p]]
    BY <1>2, <1>5 DEF Contents
  <2>3. CASE dirty[f]
    BY <1>1, <1>3, <1>4, <2>1, <2>2, <2>3 DEF MemInv, IInv, TypeOK
  <2>4. CASE ~ dirty[f]
    <3>1. ~ Loading(p)
      BY <1>2, NotLoading
    <3>2. mem[f] = disk[backing[p]]
      BY <1>3, <1>6, <2>4, <3>1 DEF MemInv, IInv, CoherenceInv
    <3> QED BY <1>1, <2>1, <2>2, <2>4, <3>2
  <2> QED BY <2>3, <2>4
<1>7. ASSUME NEW q \in written, q # p PROVE Contents(q)' = Contents(q)
  <2>1. q \in Pages /\ backing[q] # backing[p]
    BY <1>4, <1>7, BackingFacts DEF MemInv, IInv, TypeOK, BackingInv
  <2>2. disk'[backing'[q]] = disk[backing[q]]
    BY <1>1, <1>2, <1>3, <1>4, <2>1 DEF MemInv, IInv, TypeOK
  <2>3. \A g \in Frames : owner[g] = q <=> owner'[g] = q
    <3>1. DOMAIN owner = Frames /\ owner[f] = p
      BY <1>3 DEF MemInv, IInv, TypeOK, PTTypeOK
    <3>2. q # NoPage
      BY <2>1, PageFacts
    <3> QED BY <1>5, <1>7, <3>1, <3>2
  <2> QED BY <1>2, <2>1, <2>2, <2>3, NotLoading, ContentsKept DEF MemInv, IInv
<1> QED BY <1>2, <1>6, <1>7, Unseen

LEMMA LoadUnseen ==
    ASSUME MemInv, MemInv', PrmLoad
    PROVE  UNCHANGED VM!vmVars
<1>1. /\ prmPc = "load" /\ prmPc' = "unlock"
      /\ mem' = [mem EXCEPT ![FrameOf(Target)] = disk[backing[Target]]]
      /\ UNCHANGED <<owner, disk, written, backing, cur, kind, buf>>
  BY DEF PrmLoad, PrmGoto, ptVars, procVars
<1>2. PICK p \in Pages : p = Target
  BY <1>1, CommandFacts DEF MemInv
<1>3. Mapped(p) /\ FrameOf(p) \in Frames /\ owner[FrameOf(p)] = p
  BY <1>1, <1>2, CommandFacts, FrameOfMapped DEF MemInv
<1>4. \A q : (Loading(q) <=> q = p) /\ ~ Loading(q)'
  BY <1>1, <1>2 DEF Loading
<1>5. Contents(p)' = Contents(p)
  <2>1. FrameOf(p)' = FrameOf(p) /\ Mapped(p)'
    BY <1>1, <1>3 DEF FrameOf, Mapped
  <2>2. Contents(p)' = mem'[FrameOf(p)]
    BY <1>4, <2>1 DEF Contents
  <2>3. Contents(p) = disk[backing[p]]
    BY <1>4 DEF Contents
  <2> QED BY <1>1, <1>2, <1>3, <2>2, <2>3 DEF MemInv, IInv, TypeOK
<1>6. ASSUME NEW q \in Pages, q # p PROVE Contents(q)' = Contents(q)
  <2>1. \A f \in Frames : owner[f] = q => mem'[f] = mem[f]
    BY <1>1, <1>2, <1>3, <1>6 DEF MemInv, IInv, TypeOK
  <2> QED BY <1>1, <1>4, <1>6, <2>1, ContentsKept DEF MemInv, IInv
<1> QED BY <1>1, <1>5, <1>6, Unseen DEF MemInv, IInv, TypeOK
-----------------------------------------------------------------------------
(* The call of a process is where its program counter is.                   *)
LEMMA CallStep ==
    ASSUME MemInv, [Next]_vars
    PROVE  CallInv'
<1> USE DEF MemInv, CallInv, IInv, TypeOK, Accessing, Checking, procVars, Goto
<1>1. CASE UNCHANGED vars
  BY <1>1 DEF vars
<1>2. CASE PrmNext
  BY <1>2 DEF PrmNext, PrmPop, PrmLock, PrmMap, PrmSwapOut, PrmLoad, PrmUnlock,
              PrmDone
<1>3. CASE DaemonNext
  BY <1>3 DEF DaemonNext, DaemonWake, DaemonLock, DaemonShift, DaemonClear,
              DaemonUnlock, DaemonFinish
<1>4. ASSUME NEW c \in Procs, Manage(c) \/ Begin(c) \/ Continue(c)
      PROVE  CallInv'
  <2>1. CASE AllocBlock(c) \/ StartDealloc(c)
    BY <2>1 DEF AllocBlock, StartDealloc
  <2>2. CASE AllocPage(c) \/ FinishCreate(c) \/ FreePage(c) \/ FreeBlock(c)
    BY <2>2 DEF AllocPage, FinishCreate, FreePage, FreeBlock
  <2>3. CASE Begin(c)
    BY <2>3 DEF Begin, BeginAccess
  <2>4. CASE PushCommand(c) \/ WaitDone(c) \/ Relock(c) \/ Touch(c)
    BY <2>4 DEF PushCommand, WaitDone, Relock, Touch
  <2>5. CASE CopyRead(c)
    BY <2>5 DEF CopyRead, EndAccess
  <2>6. ASSUME NEW v \in Values, CopyWrite(c, v) PROVE CallInv'
    BY <2>6 DEF CopyWrite, EndAccess
  <2>7. CASE AgeCheck(c) \/ ZeroRefCount(c) \/ RequestAging(c) \/ WaitAged(c)
    BY <2>7 DEF AgeCheck, ZeroRefCount, RequestAging, WaitAged
  <2> QED BY <1>4, <2>1, <2>2, <2>3, <2>4, <2>5, <2>6, <2>7 DEF Manage, Continue
<1> QED BY <1>1, <1>2, <1>3, <1>4 DEF Next

(* The end of an access.                                                    *)
LEMMA ReturnRefines ==
    ASSUME MemInv, MemInv', NEW c \in Procs,
           AgeCheck(c) \/ WaitAged(c)
    PROVE  VM!Drop(c) \/ UNCHANGED VM!vmVars
<1>1. /\ UNCHANGED <<owner, mem, disk, backing, written, cur, kind, prmPc, prmCmd>>
      /\ \/ buf' = buf
         \/ buf' = [buf EXCEPT ![c] = NoValue]
  BY DEF AgeCheck, WaitAged, ptVars, storeVars, prmVars
<1>2. CASE buf' = buf
  BY <1>1, <1>2, UnseenStep DEF MemInv
<1>3. CASE buf' = [buf EXCEPT ![c] = NoValue]
  <2>1. ASSUME NEW q \in written PROVE Contents(q)' = Contents(q)
    <3>1. q \in Pages
      BY DEF MemInv, IInv, TypeOK
    <3>2. Loading(q)' <=> Loading(q)
      BY <1>1 DEF Loading, Target
    <3> QED BY <1>1, <3>1, <3>2, ContentsKept DEF MemInv, IInv
  <2>2. Content' = Content /\ Access' = Access
    BY <1>1, <2>1 DEF Content, Access
  <2> QED BY <1>3, <2>2 DEF VM!Drop, Content, Access
<1> QED BY <1>1, <1>2, <1>3

(* What the other threads do is not seen.                                   *)
LEMMA ThreadsUnseen ==
    ASSUME MemInv, MemInv', PrmNext \/ DaemonNext
    PROVE  UNCHANGED VM!vmVars
<1> USE DEF ptVars, procVars, storeVars, prmVars
<1>1. CASE PrmPop \/ PrmLock \/ PrmUnlock \/ PrmDone
  <2>1. /\ UNCHANGED <<owner, mem, disk, backing, written, cur, kind, buf>>
        /\ prmPc # "load" /\ prmPc' # "load"
    BY <1>1 DEF PrmPop, PrmLock, PrmUnlock, PrmDone, PrmGoto
  <2> QED BY <2>1, UnseenStep DEF MemInv
<1>2. CASE PrmMap
  <2>1. CASE IptAdd(Target) /\ prmPc' = "load"
    BY <1>2, <2>1, MapUnseen
  <2>2. CASE UNCHANGED ptVars /\ prmPc = "map" /\ prmPc' = "evict"
    <3>1. UNCHANGED <<owner, mem, disk, backing, written, cur, kind, buf>>
      BY <1>2, <2>2 DEF PrmMap
    <3> QED BY <2>2, <3>1, UnseenStep DEF MemInv
  <2> QED BY <1>2, <2>1, <2>2 DEF PrmMap, PrmGoto
<1>3. CASE DaemonNext
  <2>1. UNCHANGED <<owner, mem, disk, backing, written, cur, kind, buf, prmPc, prmCmd>>
    BY <1>3 DEF DaemonNext, DaemonWake, DaemonLock, DaemonShift, DaemonClear,
                DaemonUnlock, DaemonFinish, AgeShift, AgeClear
  <2> QED BY <2>1, UnseenStep DEF MemInv
<1> QED BY <1>1, <1>2, <1>3, SwapOutUnseen, LoadUnseen DEF PrmNext

(* Nor are the steps of a process between a call and its effect.            *)
LEMMA ProcessUnseen ==
    ASSUME MemInv, MemInv', NEW c \in Procs,
           \/ AllocBlock(c) \/ StartDealloc(c) \/ FinishCreate(c) \/ FreeBlock(c)
           \/ PushCommand(c) \/ WaitDone(c) \/ Relock(c) \/ Touch(c)
           \/ ZeroRefCount(c) \/ RequestAging(c)
    PROVE  UNCHANGED VM!vmVars
<1> USE DEF ptVars, procVars, storeVars, prmVars
<1>1. UNCHANGED <<owner, mem, disk, backing, written, cur, kind, buf, prmPc, prmCmd>>
  <2>1. CASE AllocBlock(c) \/ StartDealloc(c) \/ FinishCreate(c) \/ FreeBlock(c)
    BY <2>1 DEF AllocBlock, StartDealloc, FinishCreate, FreeBlock
  <2>2. CASE PushCommand(c) \/ WaitDone(c) \/ Relock(c)
    BY <2>2 DEF PushCommand, WaitDone, Relock
  <2>3. CASE Touch(c) \/ ZeroRefCount(c) \/ RequestAging(c)
    BY <2>3 DEF Touch, IptReference, ZeroRefCount, IptZeroRefCount, RequestAging
  <2> QED BY <2>1, <2>2, <2>3
<1> QED BY <1>1, UnseenStep DEF MemInv

LEMMA NextRefines ==
    ASSUME MemInv, MemInv', [Next]_vars
    PROVE  [VM!VMNext]_(VM!vmVars)
<1>1. CASE UNCHANGED vars
  <2>1. UNCHANGED <<owner, mem, disk, backing, written, cur, kind, buf, prmPc, prmCmd>>
    BY <1>1 DEF vars, ptVars, procVars, storeVars, prmVars
  <2> QED BY <2>1, UnseenStep DEF MemInv
<1>2. CASE PrmNext \/ DaemonNext
  BY <1>2, ThreadsUnseen
<1>3. ASSUME NEW c \in Procs, Manage(c) \/ Begin(c) \/ Continue(c)
      PROVE  VM!VMNext \/ UNCHANGED VM!vmVars
  <2>1. CASE Begin(c)
    <3>1. PICK p \in Pages, reftype \in RefTypes : BeginAccess(c, p, reftype)
      BY <2>1 DEF Begin
    <3> QED BY <3>1, CallRefines DEF VM!VMNext, RefTypes
  <2>2. CASE CopyRead(c)
    <3>1. Zero \in Values
      BY VmmAssumption
    <3> QED BY <2>2, <3>1, CopyRefines DEF VM!VMNext
  <2>3. ASSUME NEW v \in Values, CopyWrite(c, v) PROVE VM!VMNext
    BY <2>3, CopyRefines DEF VM!VMNext
  <2>4. CASE FreePage(c)
    BY <2>4, FreeRefines DEF VM!VMNext
  <2>5. CASE AllocPage(c)
    BY <2>5, AllocUnseen
  <2>6. CASE AgeCheck(c) \/ WaitAged(c)
    BY <2>6, ReturnRefines DEF VM!VMNext
  <2> QED BY <1>3, <2>1, <2>2, <2>3, <2>4, <2>5, <2>6, ProcessUnseen
             DEF Manage, Continue
<1> QED BY <1>1, <1>2, <1>3 DEF Next

(* What a process reads is what it last wrote to the page, through every    *)
(* fault, swap, sweep and reuse of frames and disk blocks (mmu_read,        *)
(* mmu_write, prm_thread_func, daemon_func, process_dealloc).               *)
THEOREM MemoryRefined == Spec => VMRefined
<1>1. Init => MemInv
  BY InitIInv DEF Init, MemInv, CallInv
<1>2. Init => VM!VMInit
  BY DEF Init, VM!VMInit, VM!NoAccess
<1>3. IInv /\ IInv' /\ CallInv /\ [Next]_vars => CallInv'
  BY CallStep DEF MemInv
<1>4. IInv /\ IInv' /\ CallInv /\ CallInv' /\ [Next]_vars
        => [VM!VMNext]_(VM!vmVars)
  BY NextRefines DEF MemInv
<1>5. Init => CallInv
  BY <1>1 DEF MemInv
<1> QED BY <1>2, <1>3, <1>4, <1>5, Invariance, PTL DEF Spec, VMRefined, VM!VMSpec
=============================================================================
