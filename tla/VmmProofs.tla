----------------------------- MODULE VmmProofs -----------------------------
(***************************************************************************)
(* Proof that IInv is an invariant of Vmm, for any number of processes,    *)
(* frames and disk pages.  There is a lemma per action, with a step per    *)
(* part of the invariant that the action can disturb.                      *)
(***************************************************************************)
EXTENDS Vmm, PageTableProofs, FiniteSetTheorems, WellFoundedInduction

(* The pages are those of the processes, each of one process.               *)
LEMMA PageFacts ==
    /\ \A c \in Procs, i \in 0 .. BlockSize - 1 : Page(c, i) \in PagesOf(c)
    /\ \A c \in Procs : PagesOf(c) \subseteq Pages
    /\ \A p \in Pages : \E c \in Procs, i \in 0 .. BlockSize - 1 : p = Page(c, i)
    /\ \A c, d \in Procs, i, j \in 0 .. BlockSize - 1 :
        Page(c, i) = Page(d, j) => c = d /\ i = j
    /\ \A c, d \in Procs : c # d => PagesOf(c) \cap PagesOf(d) = {}
    /\ NoPage \notin Pages
BY VmmAssumption, PageTableAssumption DEF Page, PagesOf

(* While the PRM or a creation or deletion has the MMU locked, no access    *)
(* is in progress.                                                          *)
LEMMA NoAccess ==
    ASSUME IInv, writer \/ readers = {}
    PROVE  \A c \in Procs : pc[c] \notin {"touch", "copy"}
BY DEF IInv, LockInv

(* Different allocated pages have different backing pages, in the block of  *)
(* their process.                                                           *)
LEMMA BackingFacts ==
    ASSUME IInv
    PROVE  /\ \A p, q \in Pages :
                backing[p] = backing[q] /\ backing[p] # NoDiskPage => p = q
           /\ \A p \in Pages : Mapped(p) => backing[p] \in DiskPages
           /\ \A c \in Procs, i \in 0 .. BlockSize - 1 : pc[c] # "junk" =>
                blockStart[c] + i \in DiskPages
<1>1. \A c \in Procs : pc[c] # "junk" => blockStart[c] \in Int
  BY DEF IInv, TypeOK, BackingInv, DiskPages
<1>2. \A c \in Procs, i \in 0 .. BlockSize - 1 : pc[c] # "junk" =>
        blockStart[c] + i \in BlockAt(blockStart[c])
  BY <1>1, VmmAssumption DEF BlockAt
<1>3. \A c \in Procs, i \in 0 .. BlockSize - 1 : pc[c] # "junk" =>
        blockStart[c] + i \in DiskPages
  BY <1>2 DEF IInv, TypeOK, BackingInv
<1>4. ASSUME NEW p \in Pages, NEW q \in Pages,
             backing[p] = backing[q], backing[p] # NoDiskPage
      PROVE  p = q
  <2>1. PICK c \in Procs, i \in 0 .. BlockSize - 1 : p = Page(c, i)
    BY PageFacts
  <2>2. PICK d \in Procs, j \in 0 .. BlockSize - 1 : q = Page(d, j)
    BY PageFacts
  <2>3. /\ pc[c] # "junk" /\ backing[p] = blockStart[c] + i
        /\ pc[d] # "junk" /\ backing[q] = blockStart[d] + j
    BY <1>4, <2>1, <2>2 DEF IInv, BackingInv, Allocated
  <2>4. backing[p] \in BlockAt(blockStart[c]) \cap BlockAt(blockStart[d])
    BY <1>2, <1>4, <2>3
  <2>5. c = d
    BY <2>3, <2>4 DEF IInv, BackingInv
  <2>6. i = j
    <3>1. blockStart[c] \in Int /\ i \in Int /\ j \in Int
      BY <1>1, <2>3
    <3>2. blockStart[c] + i = blockStart[c] + j
      BY <1>4, <2>3, <2>5
    <3> QED BY <3>1, <3>2
  <2> QED BY <2>1, <2>2, <2>5, <2>6
<1>5. \A p \in Pages : Mapped(p) => backing[p] \in DiskPages
  BY DEF IInv, TypeOK, BackingInv
<1> QED BY <1>3, <1>4, <1>5

(* The command the PRM works on belongs to a process that waits for it, and *)
(* its page has a backing page.                                             *)
LEMMA CommandFacts ==
    ASSUME IInv, prmPc # "idle"
    PROVE  /\ prmCmd \in Procs /\ Waiting(prmCmd)
           /\ Target \in PagesOf(prmCmd) /\ Target \in Pages
           /\ backing[Target] \in DiskPages
           /\ Mapped(Target) <=> prmPc \in {"load", "unlock", "done"}
<1>1. prmCmd \in Procs /\ Waiting(prmCmd)
  BY DEF IInv, TypeOK, FaultInv
<1>2. Target \in PagesOf(prmCmd) /\ Target \in Pages
  BY <1>1, PageFacts DEF IInv, AccessInv, Target, Waiting
<1>3. Mapped(Target) <=> prmPc \in {"load", "unlock", "done"}
  BY <1>1 DEF IInv, FaultInv, Target
<1>4. backing[Target] \in DiskPages
  <2>1. PICK c \in Procs, i \in 0 .. BlockSize - 1 : Target = Page(c, i)
    BY <1>2, PageFacts
  <2>2. c = prmCmd
    BY <1>1, <1>2, <2>1, PageFacts
  <2>3. backing[Target] = blockStart[c] + i
    BY <1>1, <2>1, <2>2 DEF IInv, BackingInv, Allocated, Waiting
  <2> QED BY <1>1, <2>2, <2>3, BackingFacts DEF Waiting
<1> QED BY <1>1, <1>2, <1>3, <1>4

-----------------------------------------------------------------------------
(* The initial state.                                                       *)
LEMMA InitIInv == Init => IInv
<1> SUFFICES ASSUME Init PROVE IInv
  OBVIOUS
<1>1. PTTypeOK /\ FrameInv /\ \A p \in Pages : ~ Mapped(p)
  BY TableInit DEF Init
<1>2. TypeOK
  <2>1. /\ pc \in [Procs -> ProcPcs]
        /\ cur \in [Procs -> Pages \cup {NoPage}]
        /\ kind \in [Procs -> RefTypes \cup {"refNone"}]
        /\ buf \in [Procs -> Values \cup {NoValue}]
        /\ done \in [Procs -> BOOLEAN]
        /\ blockStart \in [Procs -> DiskPages \cup {NoDiskPage}]
        /\ backing \in [Pages -> DiskPages \cup {NoDiskPage}]
    BY DEF Init, ProcPcs
  <2>2. idx \in [Procs -> 0 .. BlockSize] /\ sweep \in 0 .. NFrames
    BY VmmAssumption, PageTableAssumption DEF Init
  <2>3. mem \in [Frames -> Values] /\ disk \in [DiskPages -> Values]
    BY VmmAssumption DEF Init
  <2>4. /\ prmPc \in PrmPcs /\ daemonPc \in DaemonPcs
        /\ prmCmd \in Procs \cup {NoProc}
        /\ contLock \in Procs \cup {NoProc}
        /\ readers \subseteq Procs \cup {Daemon} /\ writer \in BOOLEAN
        /\ hits \in Nat /\ nrefs \in Nat /\ unswept \in Nat
        /\ diskAlloc \subseteq DiskPages /\ written \subseteq Pages
        /\ shouldUpdate \in BOOLEAN /\ doneUpdating \in BOOLEAN
    BY DEF Init, PrmPcs, DaemonPcs
  <2>5. prmQueue \in Seq(Procs)
    BY EmptySeq DEF Init
  <2> QED BY <1>1, <2>1, <2>2, <2>3, <2>4, <2>5 DEF TypeOK
<1>3. LockInv /\ ContInv
  BY VmmAssumption DEF Init, LockInv, ContInv
<1>4. FaultInv
  BY VmmAssumption DEF Init, FaultInv, Waiting, IsInjective, Range
<1>5. BackingInv
  BY <1>1, PageFacts DEF Init, BackingInv, Allocated
<1>6. AccessInv /\ CoherenceInv
  BY DEF Init, AccessInv, CoherenceInv
<1> QED BY <1>1, <1>2, <1>3, <1>4, <1>5, <1>6 DEF IInv

(* A step that changes nothing.                                             *)
LEMMA StutterStep ==
    ASSUME IInv, UNCHANGED vars
    PROVE  IInv'
<1> USE DEF IInv, vars, ptVars, procVars, lockVars, statVars, blockVars,
            storeVars, prmVars, daemonVars
<1>1. TypeOK' /\ LockInv' /\ ContInv' /\ FrameInv'
  BY DEF TypeOK, PTTypeOK, LockInv, ContInv, FrameInv
<1>2. FaultInv' /\ AccessInv'
  BY DEF FaultInv, AccessInv, Waiting, Mapped
<1>3. BackingInv'
  BY DEF BackingInv, Allocated, Mapped
<1>4. CoherenceInv'
  BY DEF CoherenceInv, Loading, Target
<1> QED BY <1>1, <1>2, <1>3, <1>4

-----------------------------------------------------------------------------
(* Creation and deletion.                                                   *)

LEMMA AllocBlockStep ==
    ASSUME IInv, NEW c \in Procs, AllocBlock(c)
    PROVE  IInv'
<1> USE DEF IInv
<1>1. PICK d \in DiskPages :
        /\ BlockAt(d) \subseteq DiskPages \ diskAlloc
        /\ diskAlloc' = diskAlloc \cup BlockAt(d)
        /\ blockStart' = [blockStart EXCEPT ![c] = d]
  BY DEF AllocBlock
<1>2. /\ contLock = NoProc /\ contLock' = c
      /\ pc[c] = "junk" /\ pc' = [pc EXCEPT ![c] = "allocating"]
      /\ UNCHANGED <<owner, dirty, referenced, age, freePages, refCount>>
      /\ UNCHANGED <<cur, kind, idx, buf, readers, writer, hits, nrefs, unswept, mem,
                     disk, written, backing, prmPc, prmQueue, prmCmd, done>>
      /\ UNCHANGED <<daemonPc, sweep, shouldUpdate, doneUpdating>>
  BY DEF AllocBlock, Goto, ptVars, lockVars, statVars, storeVars, prmVars,
         daemonVars
<1>3. idx[c] = 0
  BY <1>2, VmmAssumption DEF ContInv
<1>4. TypeOK'
  BY <1>1, <1>2 DEF TypeOK, PTTypeOK, ProcPcs
<1>5. LockInv'
  BY <1>2 DEF LockInv, TypeOK
<1>6. ContInv'
  BY <1>2, VmmAssumption DEF ContInv, TypeOK
<1>7. FrameInv' /\ CoherenceInv'
  BY <1>2 DEF FrameInv, CoherenceInv, Loading, Target
<1>8. FaultInv' /\ AccessInv'
  BY <1>2, SMTT(30) DEF FaultInv, AccessInv, TypeOK, Waiting, Mapped
<1>9. BackingInv'
  <2>1. \A e \in Procs : blockStart'[e] = NoDiskPage <=> pc'[e] = "junk"
    BY <1>1, <1>2, VmmAssumption DEF BackingInv, TypeOK
  <2>2. \A e \in Procs : pc'[e] # "junk" => BlockAt(blockStart'[e]) \subseteq diskAlloc'
    BY <1>1, <1>2 DEF BackingInv, TypeOK
  <2>3. \A x \in diskAlloc' : \E e \in Procs :
          pc'[e] # "junk" /\ x \in BlockAt(blockStart'[e])
    BY <1>1, <1>2 DEF BackingInv, TypeOK
  <2>4. \A e, g \in Procs : pc'[e] # "junk" /\ pc'[g] # "junk" /\ e # g =>
          BlockAt(blockStart'[e]) \cap BlockAt(blockStart'[g]) = {}
    BY <1>1, <1>2 DEF BackingInv, TypeOK
  <2>5. \A e \in Procs, i \in 0 .. BlockSize - 1 :
          backing'[Page(e, i)] =
            IF Allocated(e, i)' THEN blockStart'[e] + i ELSE NoDiskPage
    BY <1>1, <1>2, <1>3 DEF BackingInv, TypeOK, Allocated
  <2>6. \A p \in Pages : Mapped(p)' => backing'[p] # NoDiskPage
    BY <1>2 DEF BackingInv, Mapped
  <2>7. \A p \in written' : backing'[p] # NoDiskPage
    BY <1>2 DEF BackingInv
  <2> QED BY <2>1, <2>2, <2>3, <2>4, <2>5, <2>6, <2>7 DEF BackingInv, Page
<1> QED BY <1>4, <1>5, <1>6, <1>7, <1>8, <1>9

LEMMA AllocPageStep ==
    ASSUME IInv, NEW c \in Procs, AllocPage(c)
    PROVE  IInv'
<1> USE DEF IInv
<1> DEFINE p == Page(c, idx[c])
<1>1. /\ pc[c] = "allocating" /\ idx[c] \in 0 .. BlockSize - 1
      /\ ~ writer /\ readers = {}
      /\ backing' = [backing EXCEPT ![p] = blockStart[c] + idx[c]]
      /\ idx' = [idx EXCEPT ![c] = @ + 1]
      /\ UNCHANGED <<pc, cur, kind, buf, readers, writer, hits, nrefs, unswept,
                     diskAlloc, blockStart, contLock, mem, disk, written>>
      /\ UNCHANGED <<prmPc, prmQueue, prmCmd, done, daemonPc, sweep,
                     shouldUpdate, doneUpdating>>
  BY VmmAssumption
     DEF AllocPage, CanWrite, TypeOK, lockVars, statVars, blockVars, storeVars,
         prmVars, daemonVars
<1>2. p \in PagesOf(c) /\ p \in Pages /\ p # NoPage
  BY <1>1, PageFacts
<1>3. backing[p] = NoDiskPage
  BY <1>1 DEF BackingInv, Allocated, TypeOK
<1>4. ~ Mapped(p) /\ p \notin written
  BY <1>2, <1>3 DEF BackingInv
<1>5. blockStart[c] + idx[c] \in DiskPages
  BY <1>1, BackingFacts
<1>6. /\ PTTypeOK' /\ FrameInv'
      /\ \A q \in Pages : Mapped(q)' => (Mapped(q) \/ q = p)
      /\ \A q \in Pages : Mapped(q) => Mapped(q)'
      /\ \A f \in Frames : owner'[f] # p =>
            owner'[f] = owner[f] /\ dirty'[f] = dirty[f]
  <2>1. CASE freePages = <<>>
    BY <1>1, <2>1
       DEF AllocPage, ptVars, TypeOK, PTTypeOK, FrameInv, Mapped
  <2>2. CASE freePages # <<>>
    <3>1. IptAdd(p)
      BY <2>2 DEF AllocPage
    <3> QED BY <1>2, <1>4, <3>1, IptAddStep DEF TypeOK, PTTypeOK
  <2> QED BY <2>1, <2>2
<1>7. TypeOK'
  <2>1. idx' \in [Procs -> 0 .. BlockSize]
    <3>1. idx[c] + 1 \in 0 .. BlockSize
      BY <1>1, VmmAssumption
    <3> QED BY <1>1, <3>1 DEF TypeOK
  <2>2. backing' \in [Pages -> DiskPages \cup {NoDiskPage}]
    BY <1>1, <1>2, <1>5 DEF TypeOK
  <2> QED BY <1>1, <1>6, <2>1, <2>2 DEF TypeOK
<1>8. LockInv'
  BY <1>1 DEF LockInv
<1>9. ContInv'
  BY <1>1 DEF ContInv, TypeOK
<1>10. FaultInv'
  <2>1. \A d \in Procs : pc[d] \in {"push", "wait"} =>
          cur[d] \in Pages /\ (Mapped(cur[d])' <=> Mapped(cur[d]))
    BY <1>1, <1>2, <1>6, PageFacts DEF AccessInv
  <2> QED BY <1>1, <2>1 DEF FaultInv, Waiting
<1>11. BackingInv'
  <2>1. \A d \in Procs, i \in 0 .. BlockSize - 1 :
          backing'[Page(d, i)] =
            IF Allocated(d, i)' THEN blockStart'[d] + i ELSE NoDiskPage
    <3> SUFFICES ASSUME NEW d \in Procs, NEW i \in 0 .. BlockSize - 1
                 PROVE  backing'[Page(d, i)] =
                          IF Allocated(d, i)' THEN blockStart'[d] + i ELSE NoDiskPage
      BY DEF Page
    <3>1. CASE d = c /\ i = idx[c]
      BY <1>1, <1>2, <3>1 DEF TypeOK, Allocated
    <3>2. CASE ~ (d = c /\ i = idx[c])
      <4>1. Page(d, i) # p /\ Page(d, i) \in Pages
        BY <1>1, <3>2, PageFacts
      <4>2. Allocated(d, i)' <=> Allocated(d, i)
        BY <1>1, <3>2 DEF Allocated, TypeOK
      <4> QED BY <1>1, <4>1, <4>2 DEF BackingInv, TypeOK
    <3> QED BY <3>1, <3>2
  <2>2. \A q \in Pages : Mapped(q)' => backing'[q] # NoDiskPage
    BY <1>1, <1>2, <1>5, <1>6, VmmAssumption DEF BackingInv, TypeOK
  <2>3. \A q \in written' : backing'[q] # NoDiskPage
    BY <1>1, <1>4 DEF BackingInv, TypeOK
  <2>4. /\ \A d \in Procs : blockStart'[d] = NoDiskPage <=> pc'[d] = "junk"
        /\ \A d \in Procs : pc'[d] # "junk" => BlockAt(blockStart'[d]) \subseteq diskAlloc'
        /\ \A x \in diskAlloc' : \E d \in Procs :
            pc'[d] # "junk" /\ x \in BlockAt(blockStart'[d])
        /\ \A d, e \in Procs : pc'[d] # "junk" /\ pc'[e] # "junk" /\ d # e =>
            BlockAt(blockStart'[d]) \cap BlockAt(blockStart'[e]) = {}
    BY <1>1 DEF BackingInv
  <2> QED BY <2>1, <2>2, <2>3, <2>4 DEF BackingInv, Page
<1>12. AccessInv'
  <2>1. \A d \in Procs : pc[d] \notin {"touch", "copy"}
    BY <1>1, NoAccess
  <2> QED BY <1>1, <2>1 DEF AccessInv
<1>13. CoherenceInv'
  BY <1>1, <1>2, <1>4, <1>6, VmmAssumption, ZenonT(60)
     DEF CoherenceInv, Loading, Target, TypeOK
<1> QED BY <1>6, <1>7, <1>8, <1>9, <1>10, <1>11, <1>12, <1>13

LEMMA FinishCreateStep ==
    ASSUME IInv, NEW c \in Procs, FinishCreate(c)
    PROVE  IInv'
<1> USE DEF IInv
<1>1. /\ pc[c] = "allocating" /\ pc' = [pc EXCEPT ![c] = "ready"]
      /\ idx[c] = BlockSize /\ idx' = [idx EXCEPT ![c] = 0]
      /\ contLock' = NoProc
      /\ UNCHANGED <<owner, dirty, referenced, age, freePages, refCount>>
      /\ UNCHANGED <<cur, kind, buf, readers, writer, hits, nrefs, unswept, diskAlloc,
                     blockStart, mem, disk, written, backing>>
      /\ UNCHANGED <<prmPc, prmQueue, prmCmd, done, daemonPc, sweep,
                     shouldUpdate, doneUpdating>>
  BY DEF FinishCreate, Goto, ptVars, lockVars, statVars, storeVars, prmVars,
         daemonVars
<1>2. TypeOK'
  BY <1>1, VmmAssumption DEF TypeOK, PTTypeOK, ProcPcs
<1>3. LockInv'
  BY <1>1 DEF LockInv, TypeOK
<1>4. ContInv'
  BY <1>1, VmmAssumption DEF ContInv, TypeOK
<1>5. FrameInv' /\ CoherenceInv'
  BY <1>1 DEF FrameInv, CoherenceInv, Loading, Target
<1>6. FaultInv' /\ AccessInv'
  BY <1>1, ZenonT(60) DEF FaultInv, AccessInv, TypeOK, Waiting, Mapped
<1>7. BackingInv'
  <2>1. \A d \in Procs, i \in 0 .. BlockSize - 1 :
          Allocated(d, i)' <=> Allocated(d, i)
    BY <1>1, VmmAssumption DEF Allocated, TypeOK
  <2> QED BY <1>1, <2>1 DEF BackingInv, TypeOK, Mapped, Page
<1> QED BY <1>2, <1>3, <1>4, <1>5, <1>6, <1>7

LEMMA StartDeallocStep ==
    ASSUME IInv, NEW c \in Procs, StartDealloc(c)
    PROVE  IInv'
<1> USE DEF IInv
<1>1. /\ pc[c] = "ready" /\ pc' = [pc EXCEPT ![c] = "freeing"]
      /\ contLock = NoProc /\ contLock' = c
      /\ UNCHANGED <<owner, dirty, referenced, age, freePages, refCount>>
      /\ UNCHANGED <<cur, kind, idx, buf, readers, writer, hits, nrefs, unswept,
                     diskAlloc, blockStart, mem, disk, written, backing>>
      /\ UNCHANGED <<prmPc, prmQueue, prmCmd, done, daemonPc, sweep,
                     shouldUpdate, doneUpdating>>
  BY DEF StartDealloc, Goto, ptVars, lockVars, statVars, storeVars, prmVars,
         daemonVars
<1>2. idx[c] = 0
  BY <1>1, VmmAssumption DEF ContInv
<1>3. TypeOK'
  BY <1>1 DEF TypeOK, PTTypeOK, ProcPcs
<1>4. LockInv'
  BY <1>1 DEF LockInv, TypeOK
<1>5. ContInv'
  BY <1>1, VmmAssumption DEF ContInv, TypeOK
<1>6. FrameInv' /\ CoherenceInv'
  BY <1>1 DEF FrameInv, CoherenceInv, Loading, Target
<1>7. FaultInv' /\ AccessInv'
  BY <1>1, SMTT(30) DEF FaultInv, AccessInv, TypeOK, Waiting, Mapped
<1>8. BackingInv'
  <2>1. \A d \in Procs, i \in 0 .. BlockSize - 1 :
          Allocated(d, i)' <=> Allocated(d, i)
    BY <1>1, <1>2, VmmAssumption DEF Allocated, TypeOK
  <2> QED BY <1>1, <2>1 DEF BackingInv, TypeOK, Mapped, Page
<1> QED BY <1>3, <1>4, <1>5, <1>6, <1>7, <1>8

-----------------------------------------------------------------------------
(* Steps of an access.                                                      *)

(* Creation and deletion aside, a step keeps the blocks as they are.        *)
LEMMA BlocksKept ==
    ASSUME IInv,
           UNCHANGED <<backing, diskAlloc, blockStart, contLock, idx>>,
           \A p \in Pages : Mapped(p)' => backing[p] # NoDiskPage,
           \A p \in written' : backing[p] # NoDiskPage,
           \A c \in Procs, s \in {"junk", "allocating", "freeing"} :
                pc'[c] = s <=> pc[c] = s
    PROVE  ContInv' /\ BackingInv'
<1> USE DEF IInv
<1>1. ContInv'
  BY DEF ContInv
<1>2. \A c \in Procs, i \in 0 .. BlockSize - 1 : Allocated(c, i)' <=> Allocated(c, i)
  BY DEF Allocated
<1>3. BackingInv'
  BY <1>2 DEF BackingInv, Page
<1> QED BY <1>1, <1>3

(* Where a process is in an access does not matter to the store.            *)
LEMMA TableKept ==
    ASSUME IInv, UNCHANGED <<owner, freePages>>
    PROVE  /\ \A p : Mapped(p)' <=> Mapped(p)
           /\ \A p : FrameOf(p)' = FrameOf(p)
           /\ FrameInv'
BY DEF IInv, Mapped, FrameOf, FrameInv

LEMMA BeginAccessStep ==
    ASSUME IInv, NEW c \in Procs, NEW p \in Pages, NEW reftype \in RefTypes,
           BeginAccess(c, p, reftype)
    PROVE  IInv'
<1> USE DEF IInv
<1>1. /\ p \in PagesOf(c) /\ ~ writer /\ pc[c] = "ready"
      /\ cur' = [cur EXCEPT ![c] = p] /\ kind' = [kind EXCEPT ![c] = reftype]
      /\ \/ /\ Mapped(p) /\ pc' = [pc EXCEPT ![c] = "touch"]
            /\ readers' = readers \cup {c}
         \/ /\ ~ Mapped(p) /\ pc' = [pc EXCEPT ![c] = "push"]
            /\ readers' = readers
      /\ UNCHANGED <<owner, dirty, referenced, age, freePages, refCount>>
      /\ UNCHANGED <<idx, buf, writer, diskAlloc, blockStart, contLock, mem,
                     disk, written, backing, prmPc, prmQueue, prmCmd, done>>
      /\ UNCHANGED <<daemonPc, sweep, shouldUpdate, doneUpdating>>
  BY DEF BeginAccess, Goto, CanRead, ptVars, blockVars, storeVars, prmVars,
         daemonVars
<1>2. hits' \in Nat /\ nrefs' \in Nat /\ unswept' \in Nat
  BY DEF BeginAccess, TypeOK
<1>3. \A q : Mapped(q)' <=> Mapped(q)
  BY <1>1, TableKept
<1>4. TypeOK'
  BY <1>1, <1>2 DEF TypeOK, PTTypeOK, ProcPcs
<1>5. LockInv'
  BY <1>1, VmmAssumption DEF LockInv, TypeOK
<1>6. FrameInv' /\ ContInv' /\ BackingInv'
  BY <1>1, <1>3, BlocksKept, TableKept DEF BackingInv, TypeOK
<1>7. prmCmd # c
  BY <1>1, VmmAssumption DEF FaultInv, Waiting
<1>8. FaultInv'
  BY <1>1, <1>3, <1>7 DEF FaultInv, Waiting, TypeOK
<1>9. AccessInv'
  BY <1>1, <1>3 DEF AccessInv, TypeOK
<1>10. CoherenceInv'
  BY <1>1, <1>7, VmmAssumption DEF CoherenceInv, Loading, Target, TypeOK, FaultInv
<1> QED BY <1>4, <1>5, <1>6, <1>8, <1>9, <1>10

LEMMA PushCommandStep ==
    ASSUME IInv, NEW c \in Procs, PushCommand(c)
    PROVE  IInv'
<1> USE DEF IInv
<1>1. /\ pc[c] = "push" /\ pc' = [pc EXCEPT ![c] = "wait"]
      /\ prmQueue' = Append(prmQueue, c) /\ done' = [done EXCEPT ![c] = FALSE]
      /\ UNCHANGED <<owner, dirty, referenced, age, freePages, refCount>>
      /\ UNCHANGED <<cur, kind, idx, buf, readers, writer, hits, nrefs, unswept,
                     diskAlloc, blockStart, contLock, mem, disk, written,
                     backing, prmPc, prmCmd, daemonPc, sweep, shouldUpdate,
                     doneUpdating>>
  BY DEF PushCommand, Goto, ptVars, lockVars, statVars, blockVars, storeVars,
         daemonVars
<1>2. c \notin Range(prmQueue) /\ c # prmCmd
  BY <1>1, VmmAssumption DEF FaultInv, Waiting
<1>3. /\ prmQueue' \in Seq(Procs) /\ IsInjective(prmQueue')
      /\ Range(prmQueue') = Range(prmQueue) \cup {c}
  BY <1>1, <1>2, AppendToQueue DEF TypeOK, FaultInv
<1>4. \A q : Mapped(q)' <=> Mapped(q)
  BY <1>1, TableKept
<1>5. TypeOK'
  BY <1>1, <1>3 DEF TypeOK, PTTypeOK, ProcPcs
<1>6. LockInv'
  BY <1>1 DEF LockInv, TypeOK
<1>7. FrameInv' /\ ContInv' /\ BackingInv'
  BY <1>1, <1>4, BlocksKept, TableKept DEF BackingInv, TypeOK
<1>8. FaultInv'
  <2>1. {d \in Procs : Waiting(d)'} = {d \in Procs : Waiting(d)} \cup {c}
    BY <1>1 DEF Waiting, TypeOK
  <2>2. \A d \in Procs : pc'[d] = "push" => ~ Mapped(cur[d])'
    BY <1>1, <1>4 DEF FaultInv, TypeOK
  <2>3. \A d \in Procs : Waiting(d)' =>
          (Mapped(cur[d])' <=> d = prmCmd' /\ prmPc' \in {"load", "unlock", "done"})
    BY <1>1, <1>2, <1>4 DEF FaultInv, TypeOK, Waiting
  <2> QED BY <1>1, <1>2, <1>3, <2>1, <2>2, <2>3 DEF FaultInv, Mapped
<1>9. AccessInv' /\ CoherenceInv'
  BY <1>1, <1>4 DEF AccessInv, CoherenceInv, Loading, Target, TypeOK
<1> QED BY <1>5, <1>6, <1>7, <1>8, <1>9

LEMMA WaitDoneStep ==
    ASSUME IInv, NEW c \in Procs, WaitDone(c)
    PROVE  IInv'
<1> USE DEF IInv
<1>1. /\ done[c] /\ pc[c] = "wait" /\ pc' = [pc EXCEPT ![c] = "relock"]
      /\ done' = [done EXCEPT ![c] = FALSE]
      /\ UNCHANGED <<owner, dirty, referenced, age, freePages, refCount>>
      /\ UNCHANGED <<cur, kind, idx, buf, readers, writer, hits, nrefs, unswept,
                     diskAlloc, blockStart, contLock, mem, disk, written,
                     backing, prmPc, prmQueue, prmCmd, daemonPc, sweep,
                     shouldUpdate, doneUpdating>>
  BY DEF WaitDone, Goto, ptVars, lockVars, statVars, blockVars, storeVars,
         daemonVars
<1>2. \A q : Mapped(q)' <=> Mapped(q)
  BY <1>1, TableKept
<1>3. TypeOK'
  BY <1>1 DEF TypeOK, PTTypeOK, ProcPcs
<1>4. LockInv'
  BY <1>1 DEF LockInv, TypeOK
<1>5. FrameInv' /\ ContInv' /\ BackingInv'
  BY <1>1, <1>2, BlocksKept, TableKept DEF BackingInv, TypeOK
<1>6. FaultInv'
  <2>1. \A d \in Procs : Waiting(d)' <=> Waiting(d)
    BY <1>1 DEF Waiting, TypeOK
  <2> QED BY <1>1, <1>2, <2>1 DEF FaultInv, TypeOK
<1>7. AccessInv' /\ CoherenceInv'
  BY <1>1, <1>2 DEF AccessInv, CoherenceInv, Loading, Target, TypeOK
<1> QED BY <1>3, <1>4, <1>5, <1>6, <1>7

LEMMA RelockStep ==
    ASSUME IInv, NEW c \in Procs, Relock(c)
    PROVE  IInv'
<1> USE DEF IInv
<1>1. /\ ~ writer /\ pc[c] = "relock"
      /\ \/ /\ Mapped(cur[c]) /\ pc' = [pc EXCEPT ![c] = "touch"]
            /\ readers' = readers \cup {c}
         \/ /\ ~ Mapped(cur[c]) /\ pc' = [pc EXCEPT ![c] = "push"]
            /\ readers' = readers
      /\ UNCHANGED <<owner, dirty, referenced, age, freePages, refCount>>
      /\ UNCHANGED <<cur, kind, idx, buf, writer, hits, nrefs, unswept, diskAlloc,
                     blockStart, contLock, mem, disk, written, backing, prmPc,
                     prmQueue, prmCmd, done, daemonPc, sweep, shouldUpdate,
                     doneUpdating>>
  BY DEF Relock, Goto, CanRead, ptVars, statVars, blockVars, storeVars,
         prmVars, daemonVars
<1>2. \A q : Mapped(q)' <=> Mapped(q)
  BY <1>1, TableKept
<1>3. TypeOK'
  BY <1>1 DEF TypeOK, PTTypeOK, ProcPcs
<1>4. LockInv'
  BY <1>1, VmmAssumption DEF LockInv, TypeOK
<1>5. FrameInv' /\ ContInv' /\ BackingInv'
  BY <1>1, <1>2, BlocksKept, TableKept DEF BackingInv, TypeOK
<1>6. FaultInv'
  BY <1>1, <1>2 DEF FaultInv, Waiting, TypeOK
<1>7. AccessInv' /\ CoherenceInv'
  BY <1>1, <1>2 DEF AccessInv, CoherenceInv, Loading, Target, TypeOK
<1> QED BY <1>3, <1>4, <1>5, <1>6, <1>7

LEMMA TouchStep ==
    ASSUME IInv, NEW c \in Procs, Touch(c)
    PROVE  IInv'
<1> USE DEF IInv
<1>1. /\ pc[c] = "touch" /\ pc' = [pc EXCEPT ![c] = "copy"]
      /\ UNCHANGED <<cur, kind, idx, buf, readers, writer, hits, nrefs,
                     diskAlloc, blockStart, contLock, mem, disk, written,
                     backing, prmPc, prmQueue, prmCmd, done, daemonPc, sweep,
                     shouldUpdate, doneUpdating>>
      /\ unswept' \in Nat
  BY DEF Touch, Goto, lockVars, statVars, blockVars, storeVars, prmVars,
         daemonVars, TypeOK
<1>2. /\ cur[c] \in Pages /\ kind[c] \in RefTypes /\ Mapped(cur[c])
      /\ IptReference(cur[c], kind[c])
  BY <1>1, PageFacts DEF AccessInv, Touch
<1>3. PTTypeOK' /\ FrameInv' /\ owner' = owner /\ freePages' = freePages
  BY <1>2, FlagStep DEF TypeOK
<1>4. \A q : Mapped(q)' <=> Mapped(q)
  BY <1>3, TableKept
<1>5. /\ FrameOf(cur[c]) \in Frames /\ owner[FrameOf(cur[c])] = cur[c]
      /\ dirty' = IF kind[c] = "refWrite"
                  THEN [dirty EXCEPT ![FrameOf(cur[c])] = TRUE] ELSE dirty
  BY <1>2, FrameOfMapped DEF IptReference
<1>6. \A f \in Frames : (dirty[f] => dirty'[f])
                        /\ (owner[f] = cur[c] /\ kind[c] = "refWrite" => dirty'[f])
  BY <1>2, <1>5, PageFacts DEF TypeOK, PTTypeOK, FrameInv
<1>7. TypeOK'
  BY <1>1, <1>3 DEF TypeOK, ProcPcs
<1>8. LockInv'
  BY <1>1 DEF LockInv, TypeOK
<1>9. ContInv' /\ BackingInv'
  BY <1>1, <1>4, BlocksKept DEF BackingInv, TypeOK
<1>10. FaultInv'
  BY <1>1, <1>4 DEF FaultInv, Waiting, TypeOK
<1>11. AccessInv' /\ CoherenceInv'
  BY <1>1, <1>2, <1>3, <1>4, <1>6
     DEF AccessInv, CoherenceInv, Loading, Target, TypeOK
<1> QED BY <1>3, <1>7, <1>8, <1>9, <1>10, <1>11

(* The end of an access, of either kind.                                    *)
LEMMA CopyStep ==
    ASSUME IInv, NEW c \in Procs, NEW v \in Values,
           CopyRead(c) \/ CopyWrite(c, v)
    PROVE  IInv'
<1> USE DEF IInv
<1>1. /\ pc[c] = "copy" /\ pc' = [pc EXCEPT ![c] = "age"]
      /\ readers' = readers \ {c} /\ cur' = [cur EXCEPT ![c] = NoPage]
      /\ kind' = [kind EXCEPT ![c] = "refNone"]
      /\ UNCHANGED <<owner, dirty, referenced, age, freePages, refCount>>
      /\ UNCHANGED <<idx, writer, hits, nrefs, unswept, diskAlloc, blockStart, contLock,
                     disk, backing, prmPc, prmQueue, prmCmd, done, daemonPc,
                     sweep, shouldUpdate, doneUpdating>>
  BY DEF CopyRead, CopyWrite, EndAccess, Goto, ptVars, statVars, blockVars,
         storeVars, prmVars, daemonVars
<1>2. /\ cur[c] \in Pages /\ Mapped(cur[c]) /\ FrameOf(cur[c]) \in Frames
      /\ owner[FrameOf(cur[c])] = cur[c]
  BY <1>1, PageFacts, FrameOfMapped DEF AccessInv
<1>3. /\ buf' \in [Procs -> Values \cup {NoValue}]
      /\ mem' \in [Frames -> Values] /\ written' \subseteq Pages
      /\ \A p \in written' : p \in written \/ p = cur[c]
  BY <1>2 DEF CopyRead, CopyWrite, storeVars, TypeOK
<1>4. \A q : Mapped(q)' <=> Mapped(q)
  BY <1>1, TableKept
<1>5. TypeOK'
  BY <1>1, <1>3 DEF TypeOK, PTTypeOK, ProcPcs
<1>6. LockInv'
  BY <1>1, VmmAssumption DEF LockInv, TypeOK
<1>7. \A p \in written' : backing[p] # NoDiskPage
  BY <1>2, <1>3 DEF BackingInv
<1>8. FrameInv' /\ ContInv' /\ BackingInv'
  BY <1>1, <1>4, <1>7, BlocksKept, TableKept DEF BackingInv, TypeOK
<1>9. prmCmd # c /\ ~ writer
  BY <1>1, VmmAssumption DEF FaultInv, Waiting, LockInv
<1>10. FaultInv'
  BY <1>1, <1>4, <1>9 DEF FaultInv, Waiting, TypeOK
<1>11. AccessInv'
  BY <1>1, <1>4 DEF AccessInv, TypeOK
<1>12. CoherenceInv'
  <2>1. \A f \in Frames : ~ Loading(owner[f]) /\ ~ Loading(owner[f])'
    BY <1>1, <1>9 DEF LockInv, Loading
  <2>2. CASE CopyRead(c)
    BY <1>1, <2>1, <2>2 DEF CopyRead, storeVars, CoherenceInv
  <2>3. CASE CopyWrite(c, v)
    <3>1. /\ mem' = [mem EXCEPT ![FrameOf(cur[c])] = v]
          /\ written' = written \cup {cur[c]} /\ kind[c] = "refWrite"
      BY <2>3 DEF CopyWrite
    <3>2. \A f \in Frames : owner[f] = cur[c] => dirty[f]
      BY <1>1, <3>1 DEF AccessInv
    <3>3. \A f \in Frames : owner[f] # cur[c] => mem'[f] = mem[f]
      BY <1>2, <3>1 DEF TypeOK
    <3> QED BY <1>1, <2>1, <3>1, <3>2, <3>3 DEF CoherenceInv
  <2> QED BY <2>2, <2>3
<1> QED BY <1>5, <1>6, <1>8, <1>10, <1>11, <1>12

(* mmu_age_pages_if_needed, after the access.                               *)
LEMMA AgeStep ==
    ASSUME IInv, NEW c \in Procs,
           AgeCheck(c) \/ ZeroRefCount(c) \/ RequestAging(c) \/ WaitAged(c)
    PROVE  IInv'
<1> USE DEF IInv
<1>1. /\ pc[c] \in {"age", "zero", "request", "aging"}
      /\ \E to \in {"zero", "ready", "request", "aging"} : pc' = [pc EXCEPT ![c] = to]
      /\ UNCHANGED <<owner, dirty, referenced, age, freePages>>
      /\ UNCHANGED <<cur, kind, idx, readers, writer, hits, nrefs, diskAlloc,
                     blockStart, contLock, mem, disk, written, backing, prmPc,
                     prmQueue, prmCmd, done, daemonPc, sweep>>
  BY DEF AgeCheck, ZeroRefCount, RequestAging, WaitAged, IptZeroRefCount, Goto,
         ptVars, flagVars, lockVars, statVars, blockVars, storeVars, prmVars,
         daemonVars
<1>2. /\ buf' \in [Procs -> Values \cup {NoValue}] /\ refCount' \in Nat
      /\ shouldUpdate' \in BOOLEAN /\ doneUpdating' \in BOOLEAN
      /\ unswept' \in Nat
  <2>1. CASE AgeCheck(c)
    BY <2>1 DEF AgeCheck, ptVars, statVars, daemonVars, TypeOK, PTTypeOK
  <2>2. CASE ZeroRefCount(c)
    BY <2>2 DEF ZeroRefCount, IptZeroRefCount, statVars, daemonVars, TypeOK,
                PTTypeOK
  <2>3. CASE RequestAging(c)
    BY <2>3 DEF RequestAging, ptVars, TypeOK, PTTypeOK
  <2>4. CASE WaitAged(c)
    BY <2>4 DEF WaitAged, ptVars, statVars, daemonVars, TypeOK, PTTypeOK
  <2> QED BY <2>1, <2>2, <2>3, <2>4
<1>3. \A q : Mapped(q)' <=> Mapped(q)
  BY <1>1, TableKept
<1>4. TypeOK'
  BY <1>1, <1>2 DEF TypeOK, PTTypeOK, ProcPcs
<1>5. LockInv'
  BY <1>1 DEF LockInv, TypeOK
<1>6. FrameInv' /\ ContInv' /\ BackingInv'
  BY <1>1, <1>3, BlocksKept, TableKept DEF BackingInv, TypeOK
<1>7. FaultInv'
  BY <1>1, <1>3 DEF FaultInv, Waiting, TypeOK
<1>8. AccessInv' /\ CoherenceInv'
  BY <1>1, <1>3 DEF AccessInv, CoherenceInv, Loading, Target, TypeOK
<1> QED BY <1>4, <1>5, <1>6, <1>7, <1>8

-----------------------------------------------------------------------------
(* The aging daemon and the page replacement manager.                       *)

LEMMA DaemonStep ==
    ASSUME IInv, DaemonNext
    PROVE  IInv'
<1> USE DEF IInv
<1>1. /\ UNCHANGED <<pc, cur, kind, idx, buf, writer, hits, nrefs, unswept, diskAlloc,
                     blockStart, contLock, mem, disk, written, backing, prmPc,
                     prmQueue, prmCmd, done>>
  BY DEF DaemonNext, DaemonWake, DaemonLock, DaemonShift, DaemonClear,
         DaemonUnlock, DaemonFinish, procVars, lockVars, statVars, blockVars,
         storeVars, prmVars
<1>2. daemonPc = "clear" => sweep \in 0 .. NFrames - 1
  BY DEF LockInv, Frames
<1>3. /\ PTTypeOK' /\ FrameInv' /\ owner' = owner /\ dirty' = dirty
  <2>1. CASE DaemonShift \/ DaemonClear
    <3>1. \/ UNCHANGED <<owner, dirty, referenced, age, freePages, refCount>>
          \/ sweep \in Frames /\ (AgeShift(sweep) \/ AgeClear(sweep))
      BY <2>1, PageTableAssumption
         DEF DaemonShift, DaemonClear, DaemonGoto, ptVars, TypeOK, LockInv, Frames
    <3>2. (AgeShift(sweep) \/ AgeClear(sweep)) => dirty' = dirty
      BY DEF AgeShift, AgeClear
    <3> QED BY <3>1, <3>2, FlagStep DEF TypeOK, PTTypeOK, FrameInv
  <2>2. CASE ~ (DaemonShift \/ DaemonClear)
    BY <2>2 DEF DaemonNext, DaemonWake, DaemonLock, DaemonUnlock, DaemonFinish,
                ptVars, TypeOK, PTTypeOK, FrameInv
  <2> QED BY <2>1, <2>2
<1>4. \A q : Mapped(q)' <=> Mapped(q)
  BY <1>3 DEF Mapped
<1>5. TypeOK' /\ LockInv'
  <2>1. CASE DaemonWake \/ DaemonFinish
    BY <1>1, <1>3, <2>1
       DEF DaemonWake, DaemonFinish, DaemonGoto, lockVars, TypeOK, LockInv,
           DaemonPcs
  <2>2. CASE DaemonLock
    BY <1>1, <1>3, <2>2, PageTableAssumption, VmmAssumption
       DEF DaemonLock, DaemonGoto, CanRead, TypeOK, LockInv, DaemonPcs
  <2>3. CASE DaemonUnlock
    BY <1>1, <1>3, <2>3, PageTableAssumption, VmmAssumption
       DEF DaemonUnlock, DaemonGoto, TypeOK, LockInv, DaemonPcs
  <2>4. CASE DaemonShift
    <3>1. sweep \in Frames /\ sweep' \in 0 .. NFrames
      BY <2>4, PageTableAssumption DEF DaemonShift, TypeOK, Frames
    <3> QED BY <1>1, <1>3, <2>4, <3>1
            DEF DaemonShift, DaemonGoto, lockVars, TypeOK, LockInv, DaemonPcs
  <2>5. CASE DaemonClear
    <3>1. sweep' \in 0 .. NFrames
      BY <1>2, <2>5, PageTableAssumption DEF DaemonClear, DaemonGoto
    <3> QED BY <1>1, <1>3, <2>5, <3>1
            DEF DaemonClear, DaemonGoto, lockVars, TypeOK, LockInv, DaemonPcs
  <2> QED BY <2>1, <2>2, <2>3, <2>4, <2>5 DEF DaemonNext
<1>6. ContInv' /\ BackingInv'
  BY <1>1, <1>4, BlocksKept DEF BackingInv
<1>7. FaultInv'
  BY <1>1, <1>4 DEF FaultInv, Waiting
<1>8. AccessInv' /\ CoherenceInv'
  BY <1>1, <1>3, <1>4 DEF AccessInv, CoherenceInv, Loading, Target
<1> QED BY <1>3, <1>5, <1>6, <1>7, <1>8

LEMMA PrmPopStep ==
    ASSUME IInv, PrmPop
    PROVE  IInv'
<1> USE DEF IInv
<1>1. /\ prmPc = "idle" /\ prmPc' = "lock" /\ prmQueue # <<>>
      /\ prmCmd' = Head(prmQueue) /\ prmQueue' = Tail(prmQueue)
      /\ UNCHANGED <<owner, dirty, referenced, age, freePages, refCount>>
      /\ UNCHANGED <<pc, cur, kind, idx, buf, readers, writer, hits, nrefs, unswept,
                     diskAlloc, blockStart, contLock, mem, disk, written,
                     backing, done, daemonPc, sweep, shouldUpdate,
                     doneUpdating>>
  BY DEF PrmPop, PrmGoto, ptVars, procVars, lockVars, statVars, blockVars,
         storeVars, daemonVars
<1>2. /\ prmCmd' \in Procs /\ prmCmd' \in Range(prmQueue)
      /\ prmQueue' \in Seq(Procs) /\ IsInjective(prmQueue')
      /\ Range(prmQueue') = Range(prmQueue) \ {prmCmd'}
  BY <1>1, TailOfQueue DEF TypeOK, FaultInv
<1>3. \A q : Mapped(q)' <=> Mapped(q)
  BY <1>1, TableKept
<1>4. TypeOK'
  BY <1>1, <1>2 DEF TypeOK, PTTypeOK, PrmPcs
<1>5. LockInv'
  BY <1>1 DEF LockInv
<1>6. FrameInv' /\ ContInv' /\ BackingInv'
  BY <1>1, <1>3, BlocksKept, TableKept DEF BackingInv
<1>7. FaultInv'
  <2>1. prmCmd = NoProc /\ prmCmd' # NoProc
    BY <1>1, <1>2, VmmAssumption DEF FaultInv
  <2>2. Range(prmQueue') \cup {prmCmd'} = Range(prmQueue)
    BY <1>2
  <2>3. {d \in Procs : Waiting(d)'} = Range(prmQueue') \cup ({prmCmd'} \ {NoProc})
    BY <1>1, <2>1, <2>2 DEF FaultInv, Waiting
  <2>4. \A d \in Procs : Waiting(d)' =>
          (Mapped(cur[d])' <=> d = prmCmd' /\ prmPc' \in {"load", "unlock", "done"})
    BY <1>1, <1>3, <2>1 DEF FaultInv, Waiting
  <2>5. \A d \in Procs : pc'[d] = "push" => ~ Mapped(cur[d])'
    BY <1>1, <1>3 DEF FaultInv
  <2> QED BY <1>1, <1>2, <2>1, <2>3, <2>4, <2>5 DEF FaultInv
<1>8. AccessInv' /\ CoherenceInv'
  BY <1>1, <1>3 DEF AccessInv, CoherenceInv, Loading, Target
<1> QED BY <1>4, <1>5, <1>6, <1>7, <1>8

LEMMA PrmLockStep ==
    ASSUME IInv, PrmLock \/ PrmUnlock
    PROVE  IInv'
<1> USE DEF IInv
<1>1. /\ \/ prmPc = "lock" /\ prmPc' = "map" /\ ~ writer /\ readers = {} /\ writer'
         \/ prmPc = "unlock" /\ prmPc' = "done" /\ writer' = FALSE
      /\ writer' \in BOOLEAN
      /\ UNCHANGED <<owner, dirty, referenced, age, freePages, refCount>>
      /\ UNCHANGED <<pc, cur, kind, idx, buf, readers, hits, nrefs, unswept, diskAlloc,
                     blockStart, contLock, mem, disk, written, backing,
                     prmQueue, prmCmd, done, daemonPc, sweep, shouldUpdate,
                     doneUpdating>>
  BY DEF PrmLock, PrmUnlock, CanWrite, PrmGoto, ptVars, procVars, statVars,
         blockVars, storeVars, daemonVars
<1>2. \A q : Mapped(q)' <=> Mapped(q)
  BY <1>1, TableKept
<1>3. TypeOK'
  BY <1>1 DEF TypeOK, PTTypeOK, PrmPcs
<1>4. LockInv'
  BY <1>1 DEF LockInv
<1>5. FrameInv' /\ ContInv' /\ BackingInv'
  BY <1>1, <1>2, BlocksKept, TableKept DEF BackingInv
<1>6. FaultInv'
  BY <1>1, <1>2 DEF FaultInv, Waiting
<1>7. AccessInv' /\ CoherenceInv'
  BY <1>1, <1>2 DEF AccessInv, CoherenceInv, Loading, Target
<1> QED BY <1>3, <1>4, <1>5, <1>6, <1>7

LEMMA PrmMapStep ==
    ASSUME IInv, PrmMap
    PROVE  IInv'
<1> USE DEF IInv
<1>1. /\ prmPc = "map"
      /\ \/ prmPc' = "load" /\ IptAdd(Target)
         \/ /\ prmPc' = "evict"
            /\ UNCHANGED <<owner, dirty, referenced, age, freePages, refCount>>
      /\ UNCHANGED <<pc, cur, kind, idx, buf, readers, writer, hits, nrefs, unswept,
                     diskAlloc, blockStart, contLock, mem, disk, written,
                     backing, prmQueue, prmCmd, done, daemonPc, sweep,
                     shouldUpdate, doneUpdating>>
  BY DEF PrmMap, PrmGoto, ptVars, procVars, lockVars, statVars, blockVars,
         storeVars, daemonVars
<1>2. /\ prmCmd \in Procs /\ Waiting(prmCmd) /\ Target \in Pages
      /\ Target \in PagesOf(prmCmd) /\ backing[Target] \in DiskPages
      /\ ~ Mapped(Target) /\ cur[prmCmd] = Target
  BY <1>1, CommandFacts DEF Target
<1>3. CASE prmPc' = "evict"
  <2>1. UNCHANGED <<owner, dirty, referenced, age, freePages, refCount>>
    BY <1>1, <1>3
  <2>2. \A q : Mapped(q)' <=> Mapped(q)
    BY <2>1, TableKept
  <2>3. TypeOK'
    BY <1>1, <1>3, <2>1 DEF TypeOK, PTTypeOK, PrmPcs
  <2>4. LockInv'
    BY <1>1, <1>3 DEF LockInv
  <2>5. FrameInv' /\ ContInv' /\ BackingInv'
    BY <1>1, <2>1, <2>2, BlocksKept, TableKept DEF BackingInv
  <2>6. FaultInv'
    BY <1>1, <1>3, <2>2 DEF FaultInv, Waiting
  <2>7. AccessInv' /\ CoherenceInv'
    BY <1>1, <1>3, <2>1, <2>2 DEF AccessInv, CoherenceInv, Loading, Target
  <2> QED BY <2>3, <2>4, <2>5, <2>6, <2>7
<1>4. CASE prmPc' = "load"
  <2>1. IptAdd(Target)
    BY <1>1, <1>4
  <2>2. /\ PTTypeOK' /\ FrameInv'
        /\ \A q \in Pages : Mapped(q)' <=> (Mapped(q) \/ q = Target)
        /\ \A f \in Frames : owner'[f] # Target =>
            owner'[f] = owner[f] /\ dirty'[f] = dirty[f]
    BY <1>2, <2>1, IptAddStep DEF TypeOK, PTTypeOK
  <2>3. TypeOK'
    BY <1>1, <1>4, <2>2 DEF TypeOK, PrmPcs
  <2>4. LockInv'
    BY <1>1, <1>4 DEF LockInv
  <2>5. ContInv' /\ BackingInv'
    <3>1. \A q \in Pages : Mapped(q)' => backing[q] # NoDiskPage
      BY <1>2, <2>2, VmmAssumption DEF BackingInv
    <3> QED BY <1>1, <3>1, BlocksKept DEF BackingInv
  <2>6. \A d \in Procs : pc[d] \in {"push", "wait"} =>
          /\ cur[d] \in PagesOf(d)
          /\ Mapped(cur[d])' <=> Mapped(cur[d]) \/ d = prmCmd
    <3> SUFFICES ASSUME NEW d \in Procs, pc[d] \in {"push", "wait"}
                 PROVE  /\ cur[d] \in PagesOf(d)
                        /\ Mapped(cur[d])' <=> Mapped(cur[d]) \/ d = prmCmd
      BY <1>1
    <3>1. cur[d] \in PagesOf(d) /\ cur[d] \in Pages
      BY PageFacts DEF AccessInv
    <3>2. cur[d] = Target <=> d = prmCmd
      BY <1>2, <3>1, PageFacts
    <3>3. Mapped(cur[d])' <=> Mapped(cur[d]) \/ cur[d] = Target
      <4> DEFINE q == cur[d]
      <4>1. Mapped(q)' <=> (\E f \in Frames : owner'[f] = cur'[d])
        BY DEF Mapped
      <4>2. (\E f \in Frames : owner'[f] = cur[d]) <=> Mapped(cur[d]) \/ cur[d] = Target
        BY <2>2, <3>1 DEF Mapped
      <4> QED BY <1>1, <4>1, <4>2
    <3> QED BY <3>1, <3>2, <3>3
  <2>7. FaultInv'
    BY <1>1, <1>2, <1>4, <2>6 DEF FaultInv, Waiting
  <2>8. AccessInv'
    <3>1. \A d \in Procs : pc[d] \notin {"touch", "copy"}
      BY <1>1, NoAccess DEF LockInv
    <3> QED BY <1>1, <3>1 DEF AccessInv
  <2>9. CoherenceInv'
    BY <1>1, <1>4, <2>2 DEF CoherenceInv, Loading, Target
  <2> QED BY <2>2, <2>3, <2>4, <2>5, <2>7, <2>8, <2>9
<1> QED BY <1>1, <1>3, <1>4

LEMMA PrmSwapOutStep ==
    ASSUME IInv, PrmSwapOut
    PROVE  IInv'
<1> USE DEF IInv
<1>1. /\ prmPc = "evict" /\ prmPc' = "map"
      /\ UNCHANGED <<pc, cur, kind, idx, buf, readers, writer, hits, nrefs, unswept,
                     diskAlloc, blockStart, contLock, mem, written, backing,
                     prmQueue, prmCmd, done, daemonPc, sweep, shouldUpdate,
                     doneUpdating>>
  BY DEF PrmSwapOut, PrmGoto, procVars, lockVars, statVars, blockVars, daemonVars
<1>2. PICK f \in Frames :
        /\ owner[f] \notin {NoPage, Target}
        /\ disk' = IF dirty[f] THEN [disk EXCEPT ![backing[owner[f]]] = mem[f]]
                   ELSE disk
        /\ IptRemove(owner[f])
  BY DEF PrmSwapOut, Oldest
<1>3. owner[f] \in Pages /\ Mapped(owner[f]) /\ FrameOf(owner[f]) = f
  BY <1>2, FrameOfOwner DEF TypeOK, PTTypeOK
<1>4. /\ PTTypeOK' /\ FrameInv'
      /\ owner' = [owner EXCEPT ![f] = NoPage] /\ dirty' = dirty
      /\ \A q \in Pages : Mapped(q)' <=> (Mapped(q) /\ q # owner[f])
  BY <1>2, <1>3, IptRemoveStep DEF TypeOK
<1>5. /\ prmCmd \in Procs /\ Waiting(prmCmd) /\ Target \in Pages
      /\ cur[prmCmd] = Target
  BY <1>1, CommandFacts DEF Target
<1>6. TypeOK'
  <2>1. disk' \in [DiskPages -> Values]
    BY <1>2 DEF TypeOK
  <2> QED BY <1>1, <1>4, <2>1 DEF TypeOK, PrmPcs
<1>7. LockInv'
  BY <1>1 DEF LockInv
<1>8. ContInv' /\ BackingInv'
  BY <1>1, <1>4, BlocksKept DEF BackingInv
<1>9. FaultInv'
  <2>1. \A d \in Procs : pc[d] \in {"push", "wait"} =>
          (Mapped(cur[d])' <=> Mapped(cur[d]) /\ cur[d] # owner[f])
    <3> SUFFICES ASSUME NEW d \in Procs, pc[d] \in {"push", "wait"}
                 PROVE  Mapped(cur[d])' <=> Mapped(cur[d]) /\ cur[d] # owner[f]
      OBVIOUS
    <3>1. cur[d] \in Pages
      BY PageFacts DEF AccessInv
    <3>2. Mapped(cur[d])' <=> (\E g \in Frames : owner'[g] = cur[d])
      BY <1>1 DEF Mapped
    <3>3. (\E g \in Frames : owner'[g] = cur[d]) <=>
            Mapped(cur[d]) /\ cur[d] # owner[f]
      BY <1>4, <3>1 DEF Mapped
    <3> QED BY <3>2, <3>3
  <2> QED BY <1>1, <2>1 DEF FaultInv, Waiting
<1>10. AccessInv'
  <2>1. \A d \in Procs : pc[d] \notin {"touch", "copy"}
    BY <1>1, NoAccess DEF LockInv
  <2> QED BY <1>1, <2>1 DEF AccessInv
<1>11. CoherenceInv'
  <2> SUFFICES ASSUME NEW g \in Frames, owner'[g] \in written, ~ dirty[g]
               PROVE  mem[g] = disk'[backing[owner'[g]]]
    BY <1>1, <1>4 DEF CoherenceInv
  <2>1. g # f /\ owner'[g] = owner[g] /\ owner[g] \in Pages
    BY <1>4, PageFacts DEF TypeOK, PTTypeOK
  <2>2. mem[g] = disk[backing[owner[g]]]
    BY <1>1, <2>1 DEF CoherenceInv, Loading
  <2>3. owner[g] # owner[f] /\ backing[owner[f]] # NoDiskPage
    BY <1>2, <1>3, <2>1 DEF FrameInv, BackingInv
  <2>4. backing[owner[g]] # backing[owner[f]]
    BY <1>3, <2>1, <2>3, BackingFacts
  <2> QED BY <1>2, <2>1, <2>2, <2>4 DEF TypeOK
<1> QED BY <1>4, <1>6, <1>7, <1>8, <1>9, <1>10, <1>11

LEMMA PrmLoadStep ==
    ASSUME IInv, PrmLoad
    PROVE  IInv'
<1> USE DEF IInv
<1>1. /\ prmPc = "load" /\ prmPc' = "unlock"
      /\ mem' = [mem EXCEPT ![FrameOf(Target)] = disk[backing[Target]]]
      /\ UNCHANGED <<owner, dirty, referenced, age, freePages, refCount>>
      /\ UNCHANGED <<pc, cur, kind, idx, buf, readers, writer, hits, nrefs, unswept,
                     diskAlloc, blockStart, contLock, disk, written, backing,
                     prmQueue, prmCmd, done, daemonPc, sweep, shouldUpdate,
                     doneUpdating>>
  BY DEF PrmLoad, PrmGoto, ptVars, procVars, lockVars, statVars, blockVars,
         daemonVars
<1>2. /\ Target \in Pages /\ backing[Target] \in DiskPages
      /\ FrameOf(Target) \in Frames /\ owner[FrameOf(Target)] = Target
  BY <1>1, CommandFacts, FrameOfMapped
<1>3. \A q : Mapped(q)' <=> Mapped(q)
  BY <1>1, TableKept
<1>4. TypeOK'
  BY <1>1, <1>2 DEF TypeOK, PTTypeOK, PrmPcs
<1>5. LockInv'
  BY <1>1 DEF LockInv
<1>6. FrameInv' /\ ContInv' /\ BackingInv'
  BY <1>1, <1>3, BlocksKept, TableKept DEF BackingInv
<1>7. FaultInv' /\ AccessInv'
  BY <1>1, <1>3 DEF FaultInv, AccessInv, Waiting
<1>8. CoherenceInv'
  <2> SUFFICES ASSUME NEW g \in Frames, owner[g] \in written, ~ dirty[g]
               PROVE  mem'[g] = disk[backing[owner[g]]]
    BY <1>1 DEF CoherenceInv
  <2>1. CASE owner[g] = Target
    <3>1. g = FrameOf(Target)
      BY <1>2, <2>1, PageFacts DEF FrameInv
    <3> QED BY <1>1, <1>2, <2>1, <3>1 DEF TypeOK
  <2>2. CASE owner[g] # Target
    BY <1>1, <1>2, <2>2 DEF TypeOK, CoherenceInv, Loading
  <2> QED BY <2>1, <2>2
<1> QED BY <1>4, <1>5, <1>6, <1>7, <1>8

LEMMA PrmDoneStep ==
    ASSUME IInv, PrmDone
    PROVE  IInv'
<1> USE DEF IInv
<1>1. /\ prmPc = "done" /\ prmPc' = "idle" /\ prmCmd' = NoProc
      /\ done' = [done EXCEPT ![prmCmd] = TRUE]
      /\ UNCHANGED <<owner, dirty, referenced, age, freePages, refCount>>
      /\ UNCHANGED <<pc, cur, kind, idx, buf, readers, writer, hits, nrefs, unswept,
                     diskAlloc, blockStart, contLock, mem, disk, written,
                     backing, prmQueue, daemonPc, sweep, shouldUpdate,
                     doneUpdating>>
  BY DEF PrmDone, PrmGoto, ptVars, procVars, lockVars, statVars, blockVars,
         storeVars, daemonVars
<1>2. prmCmd \in Procs /\ prmCmd # NoProc
  BY <1>1, CommandFacts, VmmAssumption
<1>3. \A q : Mapped(q)' <=> Mapped(q)
  BY <1>1, TableKept
<1>4. TypeOK'
  BY <1>1 DEF TypeOK, PTTypeOK, PrmPcs
<1>5. LockInv'
  BY <1>1 DEF LockInv
<1>6. FrameInv' /\ ContInv' /\ BackingInv'
  BY <1>1, <1>3, BlocksKept, TableKept DEF BackingInv
<1>7. FaultInv'
  <2>1. \A d \in Procs : Waiting(d)' <=> Waiting(d) /\ d # prmCmd
    BY <1>1, <1>2 DEF Waiting, TypeOK
  <2>2. Range(prmQueue) \subseteq Procs
    BY DEF FaultInv
  <2>3. {d \in Procs : Waiting(d)'} = Range(prmQueue)
    BY <1>2, <2>1 DEF FaultInv
  <2>4. NoProc \notin Range(prmQueue)
    BY <2>2, VmmAssumption
  <2>5. \A d \in Procs : pc'[d] = "push" => ~ Mapped(cur[d])'
    BY <1>1, <1>3 DEF FaultInv
  <2>6. \A d \in Procs : Waiting(d)' =>
          (Mapped(cur[d])' <=> d = prmCmd' /\ prmPc' \in {"load", "unlock", "done"})
    BY <1>1, <1>3, <2>1 DEF FaultInv
  <2> QED BY <1>1, <2>3, <2>4, <2>5, <2>6 DEF FaultInv
<1>8. AccessInv' /\ CoherenceInv'
  BY <1>1, <1>3 DEF AccessInv, CoherenceInv, Loading, Target
<1> QED BY <1>4, <1>5, <1>6, <1>7, <1>8

-----------------------------------------------------------------------------
(* The release of a process.                                                *)

LEMMA FreePageStep ==
    ASSUME IInv, NEW c \in Procs, FreePage(c)
    PROVE  IInv'
<1> USE DEF IInv
<1> DEFINE p == Page(c, idx[c])
<1>1. /\ pc[c] = "freeing" /\ idx[c] \in 0 .. BlockSize - 1
      /\ ~ writer /\ readers = {}
      /\ IF Mapped(p) THEN IptRemove(p) ELSE UNCHANGED ptVars
      /\ backing' = [backing EXCEPT ![p] = NoDiskPage]
      /\ written' = written \ {p}
      /\ idx' = [idx EXCEPT ![c] = @ + 1]
      /\ UNCHANGED <<pc, cur, kind, buf, readers, writer, hits, nrefs, unswept,
                     diskAlloc, blockStart, contLock, mem, disk>>
      /\ UNCHANGED <<prmPc, prmQueue, prmCmd, done, daemonPc, sweep,
                     shouldUpdate, doneUpdating>>
  BY VmmAssumption
     DEF FreePage, CanWrite, TypeOK, lockVars, statVars, blockVars, prmVars,
         daemonVars
<1>2. p \in PagesOf(c) /\ p \in Pages /\ p # NoPage
  BY <1>1, PageFacts
<1>3. /\ PTTypeOK' /\ FrameInv' /\ dirty' = dirty
      /\ \A f \in Frames : owner'[f] = IF owner[f] = p THEN NoPage ELSE owner[f]
  <2>1. CASE ~ Mapped(p)
    BY <1>1, <2>1 DEF ptVars, TypeOK, PTTypeOK, FrameInv, Mapped
  <2>2. CASE Mapped(p)
    <3>1. IptRemove(p)
      BY <1>1, <2>2
    <3>2. /\ PTTypeOK' /\ FrameInv' /\ dirty' = dirty
          /\ owner' = [owner EXCEPT ![FrameOf(p)] = NoPage]
      BY <1>2, <3>1, IptRemoveStep DEF TypeOK
    <3>3. FrameOf(p) \in Frames /\ owner[FrameOf(p)] = p
      BY <2>2, FrameOfMapped
    <3> QED BY <1>2, <3>2, <3>3 DEF TypeOK, PTTypeOK, FrameInv
  <2> QED BY <2>1, <2>2
<1>4. \A q \in Pages : Mapped(q)' <=> (Mapped(q) /\ q # p)
  BY <1>2, <1>3, PageFacts DEF Mapped
<1>5. TypeOK'
  <2>1. idx' \in [Procs -> 0 .. BlockSize]
    <3>1. idx[c] + 1 \in 0 .. BlockSize
      BY <1>1, VmmAssumption
    <3> QED BY <1>1, <3>1 DEF TypeOK
  <2>2. backing' \in [Pages -> DiskPages \cup {NoDiskPage}]
    BY <1>1, <1>2 DEF TypeOK
  <2> QED BY <1>1, <1>3, <2>1, <2>2 DEF TypeOK
<1>6. LockInv' /\ ContInv'
  BY <1>1 DEF LockInv, ContInv, TypeOK
<1>7. FaultInv'
  <2>1. \A d \in Procs : pc[d] \in {"push", "wait"} =>
          (Mapped(cur[d])' <=> Mapped(cur[d]))
    <3> SUFFICES ASSUME NEW d \in Procs, pc[d] \in {"push", "wait"}
                 PROVE  Mapped(cur[d])' <=> Mapped(cur[d])
      OBVIOUS
    <3>1. cur[d] \in PagesOf(d) /\ cur[d] \in Pages /\ d # c
      BY <1>1, PageFacts DEF AccessInv
    <3>2. cur[d] # p
      BY <1>2, <3>1, PageFacts
    <3>3. Mapped(cur[d])' <=> (\E g \in Frames : owner'[g] = cur[d])
      BY <1>1 DEF Mapped
    <3>4. (\E g \in Frames : owner'[g] = cur[d]) <=> Mapped(cur[d])
      BY <1>3, <3>1, <3>2, PageFacts DEF Mapped
    <3> QED BY <3>3, <3>4
  <2> QED BY <1>1, <2>1 DEF FaultInv, Waiting
<1>8. BackingInv'
  <2>1. \A d \in Procs, i \in 0 .. BlockSize - 1 :
          backing'[Page(d, i)] =
            IF Allocated(d, i)' THEN blockStart'[d] + i ELSE NoDiskPage
    <3> SUFFICES ASSUME NEW d \in Procs, NEW i \in 0 .. BlockSize - 1
                 PROVE  backing'[Page(d, i)] =
                          IF Allocated(d, i)' THEN blockStart'[d] + i ELSE NoDiskPage
      BY DEF Page
    <3>1. CASE d = c /\ i = idx[c]
      BY <1>1, <1>2, <3>1 DEF TypeOK, Allocated
    <3>2. CASE ~ (d = c /\ i = idx[c])
      <4>1. Page(d, i) # p /\ Page(d, i) \in Pages
        BY <1>1, <3>2, PageFacts
      <4>2. Allocated(d, i)' <=> Allocated(d, i)
        BY <1>1, <3>2 DEF Allocated, TypeOK
      <4> QED BY <1>1, <4>1, <4>2 DEF BackingInv, TypeOK
    <3> QED BY <3>1, <3>2
  <2>2. \A q \in Pages : Mapped(q)' => backing'[q] # NoDiskPage
    BY <1>1, <1>4 DEF BackingInv, TypeOK
  <2>3. \A q \in written' : backing'[q] # NoDiskPage
    BY <1>1 DEF BackingInv, TypeOK
  <2>4. /\ \A d \in Procs : blockStart'[d] = NoDiskPage <=> pc'[d] = "junk"
        /\ \A d \in Procs : pc'[d] # "junk" => BlockAt(blockStart'[d]) \subseteq diskAlloc'
        /\ \A x \in diskAlloc' : \E d \in Procs :
            pc'[d] # "junk" /\ x \in BlockAt(blockStart'[d])
        /\ \A d, e \in Procs : pc'[d] # "junk" /\ pc'[e] # "junk" /\ d # e =>
            BlockAt(blockStart'[d]) \cap BlockAt(blockStart'[e]) = {}
    BY <1>1 DEF BackingInv
  <2> QED BY <2>1, <2>2, <2>3, <2>4 DEF BackingInv, Page
<1>9. AccessInv'
  <2>1. \A d \in Procs : pc[d] \notin {"touch", "copy"}
    BY <1>1, NoAccess
  <2> QED BY <1>1, <2>1 DEF AccessInv
<1>10. CoherenceInv'
  <2> SUFFICES ASSUME NEW g \in Frames, owner'[g] \in written', ~ dirty[g],
                      ~ Loading(owner[g])
               PROVE  mem[g] = disk[backing'[owner'[g]]]
    <3>1. \A g \in Frames : owner'[g] \in written' => owner'[g] = owner[g]
      BY <1>1, <1>3, PageFacts DEF TypeOK
    <3> QED BY <1>1, <1>3, <3>1 DEF CoherenceInv, Loading, Target
  <2>1. owner'[g] = owner[g] /\ owner[g] # p /\ owner[g] \in written
    BY <1>1, <1>3, PageFacts DEF TypeOK
  <2> QED BY <1>1, <2>1 DEF CoherenceInv, TypeOK
<1> QED BY <1>3, <1>5, <1>6, <1>7, <1>8, <1>9, <1>10

LEMMA FreeBlockStep ==
    ASSUME IInv, NEW c \in Procs, FreeBlock(c)
    PROVE  IInv'
<1> USE DEF IInv
<1>1. /\ idx[c] = BlockSize /\ idx' = [idx EXCEPT ![c] = 0]
      /\ pc[c] = "freeing" /\ pc' = [pc EXCEPT ![c] = "junk"]
      /\ contLock' = NoProc
      /\ diskAlloc' = diskAlloc \ BlockAt(blockStart[c])
      /\ blockStart' = [blockStart EXCEPT ![c] = NoDiskPage]
      /\ UNCHANGED <<owner, dirty, referenced, age, freePages, refCount>>
      /\ UNCHANGED <<cur, kind, buf, readers, writer, hits, nrefs, unswept, mem, disk,
                     written, backing>>
      /\ UNCHANGED <<prmPc, prmQueue, prmCmd, done, daemonPc, sweep,
                     shouldUpdate, doneUpdating>>
  BY DEF FreeBlock, Goto, ptVars, lockVars, statVars, storeVars, prmVars,
         daemonVars
<1>2. TypeOK'
  BY <1>1, VmmAssumption DEF TypeOK, PTTypeOK, ProcPcs
<1>3. LockInv'
  BY <1>1 DEF LockInv, TypeOK
<1>4. ContInv'
  BY <1>1, VmmAssumption DEF ContInv, TypeOK
<1>5. FrameInv' /\ CoherenceInv'
  BY <1>1 DEF FrameInv, CoherenceInv, Loading, Target
<1>6. FaultInv' /\ AccessInv'
  BY <1>1 DEF FaultInv, AccessInv, TypeOK, Waiting, Mapped
<1>7. BackingInv'
  <2>1. \A d \in Procs : blockStart'[d] = NoDiskPage <=> pc'[d] = "junk"
    BY <1>1 DEF BackingInv, TypeOK
  <2>2. \A d \in Procs : pc'[d] # "junk" =>
          d # c /\ pc[d] # "junk" /\ blockStart'[d] = blockStart[d]
    BY <1>1 DEF TypeOK
  <2>3. \A d \in Procs : pc'[d] # "junk" => BlockAt(blockStart'[d]) \subseteq diskAlloc'
    BY <1>1, <2>2 DEF BackingInv
  <2>4. \A x \in diskAlloc' : \E d \in Procs :
          pc'[d] # "junk" /\ x \in BlockAt(blockStart'[d])
    BY <1>1 DEF BackingInv, TypeOK
  <2>5. \A d, e \in Procs : pc'[d] # "junk" /\ pc'[e] # "junk" /\ d # e =>
          BlockAt(blockStart'[d]) \cap BlockAt(blockStart'[e]) = {}
    BY <2>2 DEF BackingInv
  <2>6. \A d \in Procs, i \in 0 .. BlockSize - 1 :
          backing'[Page(d, i)] =
            IF Allocated(d, i)' THEN blockStart'[d] + i ELSE NoDiskPage
    <3> SUFFICES ASSUME NEW d \in Procs, NEW i \in 0 .. BlockSize - 1
                 PROVE  backing'[Page(d, i)] =
                          IF Allocated(d, i)' THEN blockStart'[d] + i ELSE NoDiskPage
      BY DEF Page
    <3>1. Allocated(d, i)' <=> Allocated(d, i)
      BY <1>1, VmmAssumption DEF Allocated, TypeOK
    <3>2. Allocated(d, i) => blockStart'[d] = blockStart[d]
      BY <1>1, VmmAssumption DEF Allocated, TypeOK
    <3> QED BY <1>1, <3>1, <3>2 DEF BackingInv
  <2>7. \A q \in Pages : Mapped(q)' => backing'[q] # NoDiskPage
    BY <1>1 DEF BackingInv, Mapped
  <2>8. \A q \in written' : backing'[q] # NoDiskPage
    BY <1>1 DEF BackingInv
  <2> QED BY <2>1, <2>3, <2>4, <2>5, <2>6, <2>7, <2>8 DEF BackingInv, Page
<1> QED BY <1>2, <1>3, <1>4, <1>5, <1>6, <1>7

-----------------------------------------------------------------------------
(* The theorems.                                                            *)

LEMMA NextIInv == IInv /\ [Next]_vars => IInv'
<1> SUFFICES ASSUME IInv, [Next]_vars PROVE IInv'
  OBVIOUS
<1>1. CASE UNCHANGED vars
  BY <1>1, StutterStep
<1>2. ASSUME NEW c \in Procs, Manage(c) \/ Begin(c) \/ Continue(c)
      PROVE  IInv'
  <2>1. CASE Manage(c)
    BY <2>1, AllocBlockStep, StartDeallocStep DEF Manage
  <2>2. CASE Begin(c)
    BY <2>2, BeginAccessStep DEF Begin
  <2>3. CASE AllocPage(c) \/ FinishCreate(c) \/ FreePage(c) \/ FreeBlock(c)
    BY <2>3, AllocPageStep, FinishCreateStep, FreePageStep, FreeBlockStep
  <2>4. CASE PushCommand(c) \/ WaitDone(c) \/ Relock(c) \/ Touch(c)
    BY <2>4, PushCommandStep, WaitDoneStep, RelockStep, TouchStep
  <2>5. CASE CopyRead(c) \/ \E v \in Values : CopyWrite(c, v)
    BY <2>5, CopyStep, VmmAssumption
  <2>6. CASE AgeCheck(c) \/ ZeroRefCount(c) \/ RequestAging(c) \/ WaitAged(c)
    BY <2>6, AgeStep
  <2> QED BY <1>2, <2>1, <2>2, <2>3, <2>4, <2>5, <2>6 DEF Continue
<1>3. CASE PrmNext
  BY <1>3, PrmPopStep, PrmLockStep, PrmMapStep, PrmSwapOutStep, PrmLoadStep,
     PrmDoneStep DEF PrmNext
<1>4. CASE DaemonNext
  BY <1>4, DaemonStep
<1> QED BY <1>1, <1>2, <1>3, <1>4 DEF Next

(* Every reachable state of the system satisfies the inductive invariant.   *)
THEOREM Invariance == Spec => []IInv
<1>1. Init => IInv
  BY InitIInv
<1>2. IInv /\ [Next]_vars => IInv'
  BY NextIInv
<1> QED BY <1>1, <1>2, PTL DEF Spec

(* Everything stays in its type: no index leaves the table, the disk or the *)
(* block of a process (mmu.c, disk.c).                                      *)
THEOREM TypeCorrect == Spec => []TypeOK
BY Invariance, PTL DEF IInv

(* No frame is leaked, lost or given out twice, however processes, PRM and  *)
(* daemon interleave (ipt_add, ipt_remove).                                 *)
THEOREM FramesSafe == Spec => []FrameInv
BY Invariance, PTL DEF IInv

(* Nor is a disk block, and only allocated pages are in memory (disk.c and  *)
(* the assertions on disk_map in mmu.c).                                    *)
THEOREM BackingSafe == Spec => []BackingInv
BY Invariance, PTL DEF IInv

(* Page fault commands are neither lost nor duplicated, and the PRM maps no *)
(* page that is mapped (prm_pagefault, prm_thread_func).                    *)
THEOREM FaultsSafe == Spec => []FaultInv
BY Invariance, PTL DEF IInv

(* An access finds its page in memory from the lookup to the copy           *)
(* (mmu_pin_page, mmu_read, mmu_write).                                     *)
THEOREM AccessSafe == Spec => []AccessInv
BY Invariance, PTL DEF IInv

(* A clean page agrees with its backing page, so that the eviction loses    *)
(* nothing (mmu_sync_to_backing_page).                                      *)
THEOREM CoherenceSafe == Spec => []CoherenceInv
BY Invariance, PTL DEF IInv

(* No step moves a page while anybody holds the read lock (mmu_acquire_read *)
(* against the PRM, mmu_alloc_page and mmu_free_page).                      *)
THEOREM ReadersSafe == Spec => ReadersKeepMapping
<1>1. IInv /\ [Next]_vars => [readers # {} => owner' = owner]_vars
  <2> SUFFICES ASSUME IInv, Next, readers # {} PROVE owner' = owner
    OBVIOUS
  <2>1. prmPc \notin {"map", "evict", "load", "unlock"}
    BY DEF IInv, LockInv
  <2>2. ASSUME NEW c \in Procs, Manage(c) \/ Begin(c) \/ Continue(c)
        PROVE  owner' = owner
    <3>1. ~ AllocPage(c) /\ ~ FreePage(c)
      BY DEF AllocPage, FreePage, CanWrite
    <3>2. (Manage(c) \/ Begin(c)) => owner' = owner
      BY DEF Manage, AllocBlock, StartDealloc, Begin, BeginAccess, ptVars
    <3>3. (FinishCreate(c) \/ FreeBlock(c) \/ PushCommand(c) \/ WaitDone(c)
           \/ Relock(c)) => owner' = owner
      BY DEF FinishCreate, FreeBlock, PushCommand, WaitDone, Relock, ptVars
    <3>4. (Touch(c) \/ CopyRead(c) \/ \E v \in Values : CopyWrite(c, v))
            => owner' = owner
      BY DEF Touch, IptReference, CopyRead, CopyWrite, ptVars
    <3>5. (AgeCheck(c) \/ ZeroRefCount(c) \/ RequestAging(c) \/ WaitAged(c))
            => owner' = owner
      BY DEF AgeCheck, ZeroRefCount, IptZeroRefCount, RequestAging, WaitAged,
             ptVars
    <3> QED BY <2>2, <3>1, <3>2, <3>3, <3>4, <3>5 DEF Continue
  <2>3. PrmNext => owner' = owner
    BY <2>1 DEF PrmNext, PrmPop, PrmLock, PrmMap, PrmSwapOut, PrmLoad,
                PrmUnlock, PrmDone, PrmGoto, ptVars
  <2>4. DaemonNext => owner' = owner
    BY DEF DaemonNext, DaemonWake, DaemonLock, DaemonShift, DaemonClear,
           DaemonUnlock, DaemonFinish, AgeShift, AgeClear, ptVars
  <2> QED BY <2>2, <2>3, <2>4 DEF Next
<1> QED BY <1>1, Invariance, PTL DEF Spec, ReadersKeepMapping

(* The requests for a sweep: aging_daemon_update_pages forgets none.        *)
THEOREM AgingSafe == Spec => []AgingInv
<1>1. Init => AgingInv
  BY DEF Init, AgingInv
<1>2. IInv /\ AgingInv /\ [Next]_vars => AgingInv'
  <2> SUFFICES ASSUME IInv, AgingInv, [Next]_vars PROVE AgingInv'
    OBVIOUS
  <2> USE DEF IInv, TypeOK, AgingInv
  <2>1. CASE UNCHANGED vars
    BY <2>1 DEF vars, procVars, daemonVars
  <2>2. ASSUME NEW c \in Procs, Manage(c) \/ Begin(c) \/ Continue(c)
        PROVE  AgingInv'
    <3>1. CASE RequestAging(c)
      BY <3>1 DEF RequestAging, Goto
    <3>2. CASE ~ RequestAging(c)
      <4>1. UNCHANGED <<daemonPc, shouldUpdate, doneUpdating>>
        <5>1. (Manage(c) \/ Begin(c) \/ AllocPage(c) \/ FinishCreate(c)
               \/ FreePage(c) \/ FreeBlock(c) \/ PushCommand(c) \/ WaitDone(c)
               \/ Relock(c)) => UNCHANGED <<daemonPc, shouldUpdate, doneUpdating>>
          BY DEF Manage, AllocBlock, StartDealloc, Begin, BeginAccess, AllocPage,
                 FinishCreate, FreePage, FreeBlock, PushCommand, WaitDone,
                 Relock, daemonVars
        <5>2. (Touch(c) \/ CopyRead(c) \/ (\E v \in Values : CopyWrite(c, v))
               \/ AgeCheck(c) \/ ZeroRefCount(c) \/ WaitAged(c))
                => UNCHANGED <<daemonPc, shouldUpdate, doneUpdating>>
          BY DEF Touch, CopyRead, CopyWrite, AgeCheck, ZeroRefCount, WaitAged,
                 daemonVars
        <5> QED BY <2>2, <3>2, <5>1, <5>2 DEF Continue
      <4>2. \A d \in Procs : pc'[d] = "aging" => pc[d] = "aging"
        <5>1. (Manage(c) \/ Begin(c) \/ AllocPage(c) \/ FinishCreate(c)
               \/ FreePage(c) \/ FreeBlock(c) \/ PushCommand(c) \/ WaitDone(c)
               \/ Relock(c)) => \A d \in Procs : pc'[d] = "aging" => pc[d] = "aging"
          BY DEF Manage, AllocBlock, StartDealloc, Begin, BeginAccess, AllocPage,
                 FinishCreate, FreePage, FreeBlock, PushCommand, WaitDone,
                 Relock, Goto
        <5>2. (Touch(c) \/ CopyRead(c) \/ (\E v \in Values : CopyWrite(c, v))
               \/ AgeCheck(c) \/ ZeroRefCount(c) \/ WaitAged(c))
                => \A d \in Procs : pc'[d] = "aging" => pc[d] = "aging"
          BY DEF Touch, CopyRead, CopyWrite, EndAccess, AgeCheck, ZeroRefCount,
                 WaitAged, Goto
        <5> QED BY <2>2, <3>2, <5>1, <5>2 DEF Continue
      <4> QED BY <4>1, <4>2
    <3> QED BY <3>1, <3>2
  <2>3. CASE PrmNext
    BY <2>3 DEF PrmNext, PrmPop, PrmLock, PrmMap, PrmSwapOut, PrmLoad,
                PrmUnlock, PrmDone, procVars, daemonVars
  <2>4. CASE DaemonNext
    BY <2>4 DEF DaemonNext, DaemonWake, DaemonLock, DaemonShift, DaemonClear,
                DaemonUnlock, DaemonFinish, DaemonGoto, procVars
  <2> QED BY <2>1, <2>2, <2>3, <2>4 DEF Next
<1> QED BY <1>1, <1>2, Invariance, PTL DEF Spec

-----------------------------------------------------------------------------
(* Absence of deadlock.                                                     *)

(* A set of natural numbers has a least element.                            *)
LEMMA LeastNumber ==
    ASSUME NEW S \in SUBSET Nat, S # {}
    PROVE  \E x \in S : \A y \in S : x <= y
<1>1. \E x \in S : \A y \in S : ~ (<<y, x>> \in OpToRel(<, Nat))
  BY NatLessThanWellFounded, WFMin, Zenon
<1>2. \A x, y \in S : y < x => <<y, x>> \in OpToRel(<, Nat)
  BY DEF OpToRel
<1>3. \E x \in S : \A y \in S : ~ (y < x)
  BY <1>1, <1>2, Zenon
<1> QED BY <1>3

(* get_page_to_swap finds a page whenever one other than the page to load   *)
(* is in memory.                                                            *)
LEMMA OldestExists ==
    ASSUME PTTypeOK, NEW g \in Frames, owner[g] \notin {NoPage, Target}
    PROVE  \E f \in Frames : Oldest(f)
<1> DEFINE candidates == {f \in Frames : owner[f] \notin {NoPage, Target}}
<1> DEFINE ages == {age[f] : f \in candidates}
<1>1. candidates \in SUBSET Nat /\ g \in candidates
  BY PageTableAssumption DEF Frames
<1>2. \A f \in candidates : age[f] \in Nat
  BY PageTableAssumption DEF PTTypeOK, Ages
<1>3. ages \in SUBSET Nat /\ ages # {}
  BY <1>1, <1>2
<1>4. PICK a \in ages : \A b \in ages : a <= b
  <2> HIDE DEF ages
  <2> QED BY <1>3, LeastNumber
<1> DEFINE oldest == {f \in candidates : age[f] = a}
<1>5. oldest \in SUBSET Nat /\ oldest # {}
  BY <1>1
<1>6. PICK f \in oldest : \A h \in oldest : f <= h
  <2> HIDE DEF oldest
  <2> QED BY <1>5, LeastNumber
<1>7. ASSUME NEW h \in candidates
      PROVE  age[f] < age[h] \/ (age[f] = age[h] /\ f <= h)
  <2>1. age[f] = a /\ a <= age[h] /\ a \in Nat /\ age[h] \in Nat
    BY <1>2, <1>3, <1>4
  <2>2. CASE age[h] = a
    BY <1>6, <2>1, <2>2
  <2>3. CASE age[h] # a
    BY <2>1, <2>3
  <2> QED BY <2>2, <2>3
<1> QED BY <1>7 DEF Oldest

(* What the PRM and the daemon rely on in the middle of their loops: no     *)
(* frame is free while the PRM chooses a page, and the entry of the sweep   *)
(* stays valid.                                                             *)
LoopInv ==
    /\ prmPc = "evict" => freePages = <<>>
    /\ daemonPc = "clear" => owner[sweep] # NoPage

LEMMA LoopStep ==
    ASSUME IInv, LoopInv, [Next]_vars
    PROVE  LoopInv'
<1> USE DEF IInv, TypeOK, LockInv, LoopInv, PrmGoto, DaemonGoto
<1>1. CASE UNCHANGED vars
  BY <1>1 DEF vars, ptVars, prmVars, daemonVars
<1>2. ASSUME NEW c \in Procs, Manage(c) \/ Begin(c) \/ Continue(c)
      PROVE  LoopInv'
  <2>1. UNCHANGED <<prmPc, daemonPc, sweep>>
    <3>1. (Manage(c) \/ Begin(c) \/ AllocPage(c) \/ FinishCreate(c)
           \/ FreePage(c) \/ FreeBlock(c) \/ PushCommand(c) \/ WaitDone(c)
           \/ Relock(c)) => UNCHANGED <<prmPc, daemonPc, sweep>>
      BY DEF Manage, AllocBlock, StartDealloc, Begin, BeginAccess, AllocPage,
             FinishCreate, FreePage, FreeBlock, PushCommand, WaitDone, Relock,
             prmVars, daemonVars
    <3>2. (Touch(c) \/ CopyRead(c) \/ (\E v \in Values : CopyWrite(c, v))
           \/ AgeCheck(c) \/ ZeroRefCount(c) \/ RequestAging(c) \/ WaitAged(c))
            => UNCHANGED <<prmPc, daemonPc, sweep>>
      BY DEF Touch, CopyRead, CopyWrite, AgeCheck, ZeroRefCount, RequestAging,
             WaitAged, prmVars, daemonVars
    <3> QED BY <1>2, <3>1, <3>2 DEF Continue
  <2>2. CASE AllocPage(c) \/ FreePage(c)
    <3>1. ~ writer /\ Daemon \notin readers
      BY <2>2 DEF AllocPage, FreePage, CanWrite
    <3> QED BY <2>1, <3>1
  <2>3. CASE ~ (AllocPage(c) \/ FreePage(c))
    <3>1. UNCHANGED <<owner, freePages>>
      <4>1. (Manage(c) \/ Begin(c) \/ FinishCreate(c) \/ FreeBlock(c)
             \/ PushCommand(c) \/ WaitDone(c) \/ Relock(c))
              => UNCHANGED <<owner, freePages>>
        BY DEF Manage, AllocBlock, StartDealloc, Begin, BeginAccess,
               FinishCreate, FreeBlock, PushCommand, WaitDone, Relock, ptVars
      <4>2. (Touch(c) \/ CopyRead(c) \/ (\E v \in Values : CopyWrite(c, v))
             \/ AgeCheck(c) \/ ZeroRefCount(c) \/ RequestAging(c) \/ WaitAged(c))
              => UNCHANGED <<owner, freePages>>
        BY DEF Touch, IptReference, CopyRead, CopyWrite, AgeCheck, ZeroRefCount,
               IptZeroRefCount, RequestAging, WaitAged, ptVars
      <4> QED BY <1>2, <2>3, <4>1, <4>2 DEF Continue
    <3> QED BY <2>1, <3>1
  <2> QED BY <2>2, <2>3
<1>3. CASE PrmNext
  <2>1. UNCHANGED <<daemonPc, sweep>>
    BY <1>3 DEF PrmNext, PrmPop, PrmLock, PrmMap, PrmSwapOut, PrmLoad,
                PrmUnlock, PrmDone, daemonVars
  <2>2. CASE PrmMap \/ PrmSwapOut
    <3>1. writer /\ Daemon \notin readers
      BY <2>2 DEF PrmMap, PrmSwapOut
    <3>2. prmPc' = "evict" => freePages' = <<>>
      BY <2>2 DEF PrmMap, PrmSwapOut, ptVars
    <3> QED BY <2>1, <3>1, <3>2
  <2>3. CASE ~ (PrmMap \/ PrmSwapOut)
    <3>1. UNCHANGED <<owner, freePages>> /\ prmPc' # "evict"
      BY <1>3, <2>3 DEF PrmNext, PrmPop, PrmLock, PrmLoad, PrmUnlock, PrmDone,
                        ptVars
    <3> QED BY <2>1, <3>1
  <2> QED BY <2>2, <2>3
<1>4. CASE DaemonNext
  <2>1. UNCHANGED <<prmPc, freePages, owner>>
    BY <1>4 DEF DaemonNext, DaemonWake, DaemonLock, DaemonShift, DaemonClear,
                DaemonUnlock, DaemonFinish, AgeShift, AgeClear, ptVars, prmVars
  <2>2. daemonPc' = "clear" => owner[sweep'] # NoPage
    BY <1>4 DEF DaemonNext, DaemonWake, DaemonLock, DaemonShift, DaemonClear,
                DaemonUnlock, DaemonFinish, AgeShift
  <2> QED BY <2>1, <2>2
<1> QED BY <1>1, <1>2, <1>3, <1>4 DEF Next

(* While the PRM chooses a page every frame is in use, by a page other than *)
(* the one to load, so it finds one; holding the write lock it can go on.   *)
LEMMA PrmGoesOn ==
    ASSUME IInv, LoopInv, prmPc \notin {"idle", "lock"}
    PROVE  PrmCanGo
<1>1. CASE prmPc = "evict"
  <2>1. freePages = <<>>
    BY <1>1 DEF LoopInv
  <2>2. 0 \in Frames
    BY PageTableAssumption DEF Frames
  <2>3. owner[0] # NoPage
    <3>1. Range(freePages) = {}
      BY <2>1 DEF Range
    <3> QED BY <2>2, <3>1 DEF IInv, FrameInv
  <2>4. owner[0] # Target
    BY <1>1, <2>2, CommandFacts DEF Mapped
  <2> QED BY <1>1, <2>2, <2>3, <2>4, OldestExists DEF PrmCanGo, IInv, TypeOK
<1>2. CASE prmPc # "evict"
  BY <1>2 DEF PrmCanGo, IInv, TypeOK, PrmPcs
<1> QED BY <1>1, <1>2

(* The chain of those that wait ends at a thread that does not: behind the  *)
(* lock of the MMU stands an access, the sweep or the PRM with its page.    *)
LEMMA SomebodyGoes ==
    ASSUME IInv, LoopInv, AgingInv
    PROVE  NoDeadlock
<1> DEFINE Goes == PrmCanGo \/ DaemonCanGo \/ \E c \in Procs : ProcCanGo(c)
<1>1. CASE writer
  <2>1. prmPc \notin {"idle", "lock"}
    BY <1>1 DEF IInv, LockInv
  <2> QED BY <2>1, PrmGoesOn DEF NoDeadlock
<1>2. CASE readers # {}
  <2>1. PICK r \in readers : TRUE
    BY <1>2
  <2>2. CASE r \in Procs /\ pc[r] \in {"touch", "copy"}
    <3>1. Mapped(cur[r]) /\ kind[r] \in RefTypes
      BY <2>2 DEF IInv, AccessInv
    <3> QED BY <2>2, <3>1 DEF ProcCanGo, NoDeadlock
  <2>3. CASE daemonPc \in {"shift", "clear"}
    BY <2>3 DEF LoopInv, DaemonCanGo, NoDeadlock
  <2> QED BY <2>1, <2>2, <2>3 DEF IInv, LockInv
<1>3. CASE ~ writer /\ readers = {}
  <2>1. CanRead /\ CanWrite
    BY <1>3 DEF CanRead, CanWrite
  <2>2. prmPc # "idle" => PrmCanGo
    BY <2>1, PrmGoesOn DEF PrmCanGo
  <2>3. daemonPc # "idle" => DaemonCanGo
    BY <2>1 DEF DaemonCanGo, LoopInv, IInv, TypeOK, DaemonPcs
  <2>4. ASSUME NEW c \in Procs, pc[c] \notin {"junk", "ready"}
        PROVE  Goes
    <3>1. CASE pc[c] = "wait"
      <4>1. CASE done[c]
        BY <3>1, <4>1 DEF ProcCanGo
      <4>2. CASE ~ done[c]
        <5>1. c \in Range(prmQueue) \/ prmPc # "idle"
          BY <3>1, <4>2 DEF IInv, FaultInv, Waiting
        <5>2. c \in Range(prmQueue) => prmQueue # <<>>
          BY DEF Range
        <5> QED BY <2>2, <5>1, <5>2 DEF PrmCanGo
      <4> QED BY <4>1, <4>2
    <3>2. CASE pc[c] = "touch" \/ pc[c] = "copy"
      BY <1>3, <3>2 DEF IInv, LockInv
    <3>3. CASE pc[c] = "request" \/ pc[c] = "aging"
      BY <2>3, <3>3 DEF AgingInv, ProcCanGo, DaemonCanGo
    <3>4. CASE pc[c] \in {"allocating", "freeing", "push", "relock", "age", "zero"}
      BY <2>1, <3>4 DEF ProcCanGo
    <3> QED BY <2>4, <3>1, <3>2, <3>3, <3>4 DEF IInv, TypeOK, ProcPcs
  <2> QED BY <2>2, <2>3, <2>4 DEF NoDeadlock
<1> QED BY <1>1, <1>2, <1>3

(* The threads never all wait for each other (mmu_pin_page, daemon_func,    *)
(* prm_thread_func).                                                        *)
THEOREM DeadlockFree == Spec => []NoDeadlock
<1>1. Init => LoopInv
  BY DEF Init, LoopInv
<1>2. IInv /\ LoopInv /\ [Next]_vars => LoopInv'
  BY LoopStep
<1>3. IInv /\ LoopInv /\ AgingInv => NoDeadlock
  BY SomebodyGoes
<1> QED BY <1>1, <1>2, <1>3, Invariance, AgingSafe, PTL DEF Spec
=============================================================================
