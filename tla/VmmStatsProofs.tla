--------------------------- MODULE VmmStatsProofs ---------------------------
(***************************************************************************)
(* Proofs about the counters of Vmm: the references that make a sweep due, *)
(* and the hits and references of the hit rate.                            *)
(***************************************************************************)
EXTENDS VmmProofs

Checking == {"copy", "age", "zero"}
Faulting == {"push", "wait", "relock"}

(* The steps that leave the counts alone and take nobody out of a check.    *)
LEMMA OtherProcSteps ==
    ASSUME NEW c \in Procs, TypeOK,
           AllocBlock(c) \/ StartDealloc(c) \/ AllocPage(c) \/ FinishCreate(c)
           \/ FreePage(c) \/ FreeBlock(c) \/ WaitAged(c)
    PROVE  /\ UNCHANGED <<refCount, statVars>>
           /\ \A d \in Procs : pc[d] \in Checking <=> pc'[d] \in Checking
           /\ \A d \in Procs : pc[d] = "request" <=> pc'[d] = "request"
           /\ \A d \in Procs : pc[d] \in Faulting <=> pc'[d] \in Faulting
<1> USE DEF TypeOK, Goto, Checking, Faulting, ptVars, statVars
<1>1. CASE AllocBlock(c) \/ StartDealloc(c) \/ FinishCreate(c) \/ FreeBlock(c)
  BY <1>1 DEF AllocBlock, StartDealloc, FinishCreate, FreeBlock
<1>2. CASE AllocPage(c) \/ FreePage(c)
  BY <1>2 DEF AllocPage, FreePage, IptAdd, IptRemove
<1>3. CASE WaitAged(c)
  BY <1>3 DEF WaitAged
<1> QED BY <1>1, <1>2, <1>3

LEMMA OtherThreadSteps ==
    ASSUME PrmNext \/ DaemonNext
    PROVE  UNCHANGED <<refCount, statVars, pc>>
<1> USE DEF ptVars, procVars, statVars
<1>1. CASE PrmNext
  BY <1>1 DEF PrmNext, PrmPop, PrmLock, PrmMap, PrmSwapOut, PrmLoad, PrmUnlock,
              PrmDone, IptAdd, IptRemove
<1>2. CASE DaemonNext
  BY <1>2 DEF DaemonNext, DaemonWake, DaemonLock, DaemonShift, DaemonClear,
              DaemonUnlock, DaemonFinish, AgeShift, AgeClear
<1> QED BY <1>1, <1>2

-----------------------------------------------------------------------------
(* Two halves: a count that makes a sweep due has somebody on the way to    *)
(* read or to zero it, and the count covers the references since the last   *)
(* call unless somebody who zeroed it is about to call.                     *)
CountInv ==
    refCount >= AgingFreq /\ AgingFreq # 0 =>
        \E c \in Procs : pc[c] \in Checking

CallInv == unswept <= refCount \/ \E c \in Procs : pc[c] = "request"

LEMMA CountCall ==
    ASSUME TypeOK, CountInv, CallInv
    PROVE  DueInv
BY VmmAssumption DEF TypeOK, PTTypeOK, CountInv, CallInv, DueInv, Checking

(* As long as the counts are the same, whoever checks goes on to, and who   *)
(* is about to call still is.                                               *)
LEMMA DueKept ==
    ASSUME CountInv, CallInv, refCount' = refCount, unswept' = unswept,
           \A d \in Procs : pc[d] \in Checking => pc'[d] \in Checking,
           \A d \in Procs : pc[d] = "request" => pc'[d] = "request"
    PROVE  CountInv' /\ CallInv'
<1>1. CountInv'
  BY DEF CountInv, Checking
<1>2. CallInv'
  BY DEF CallInv
<1> QED BY <1>1, <1>2

LEMMA DueStep ==
    ASSUME TypeOK, CountInv, CallInv, [Next]_vars
    PROVE  CountInv' /\ CallInv'
<1> USE DEF Goto
<1>1. CASE UNCHANGED vars
  BY <1>1, DueKept DEF vars, ptVars, procVars, statVars, Checking
<1>2. CASE PrmNext \/ DaemonNext
  BY <1>2, OtherThreadSteps, DueKept DEF statVars
<1>3. ASSUME NEW c \in Procs, Manage(c) \/ Begin(c) \/ Continue(c)
      PROVE  CountInv' /\ CallInv'
  <2>1. CASE AllocBlock(c) \/ StartDealloc(c) \/ AllocPage(c) \/ FinishCreate(c)
             \/ FreePage(c) \/ FreeBlock(c) \/ WaitAged(c)
    BY <2>1, OtherProcSteps, DueKept DEF statVars
  <2>2. CASE Begin(c) \/ PushCommand(c) \/ WaitDone(c) \/ Relock(c)
    <3>1. refCount' = refCount /\ unswept' = unswept
      BY <2>2 DEF Begin, BeginAccess, PushCommand, WaitDone, Relock, ptVars,
                  statVars
    <3>2. \A d \in Procs : pc[d] \in Checking => pc'[d] \in Checking
      BY <2>2 DEF TypeOK, Begin, BeginAccess, PushCommand, WaitDone, Relock, Checking
    <3>3. \A d \in Procs : pc[d] = "request" => pc'[d] = "request"
      BY <2>2 DEF TypeOK, Begin, BeginAccess, PushCommand, WaitDone, Relock
    <3> QED BY <3>1, <3>2, <3>3, DueKept
  <2>3. CASE Touch(c)
    <3>1. pc'[c] = "copy" /\ pc[c] = "touch"
      BY <2>3 DEF Touch, TypeOK
    <3>2. refCount' = refCount + 1 /\ unswept' = unswept + 1
      BY <2>3 DEF Touch, IptReference
    <3>3. \A d \in Procs : pc[d] = "request" => pc'[d] = "request"
      BY <2>3 DEF TypeOK, Touch
    <3>4. CallInv'
      BY <3>2, <3>3 DEF CallInv, TypeOK, PTTypeOK
    <3> QED BY <3>1, <3>4 DEF CountInv, Checking
  <2>4. CASE CopyRead(c) \/ \E v \in Values : CopyWrite(c, v)
    <3>1. refCount' = refCount /\ unswept' = unswept
      BY <2>4 DEF CopyRead, CopyWrite, ptVars, statVars
    <3>2. \A d \in Procs : pc[d] \in Checking => pc'[d] \in Checking
      BY <2>4 DEF TypeOK, CopyRead, CopyWrite, EndAccess, Checking
    <3>3. \A d \in Procs : pc[d] = "request" => pc'[d] = "request"
      BY <2>4 DEF TypeOK, CopyRead, CopyWrite, EndAccess
    <3> QED BY <3>1, <3>2, <3>3, DueKept
  <2>5. CASE AgeCheck(c)
    <3>1. refCount' = refCount /\ unswept' = unswept
      BY <2>5 DEF AgeCheck, ptVars, statVars
    <3>2. \A d \in Procs : pc[d] = "request" => pc'[d] = "request"
      BY <2>5 DEF AgeCheck, TypeOK
    <3>3. CASE refCount >= AgingFreq
      <4>1. \A d \in Procs : pc[d] \in Checking => pc'[d] \in Checking
        BY <2>5, <3>3, VmmAssumption DEF AgeCheck, TypeOK, PTTypeOK, Checking
      <4> QED BY <3>1, <3>2, <4>1, DueKept
    <3>4. CASE ~ (refCount >= AgingFreq)
      <4>1. CountInv'
        BY <3>1, <3>4 DEF CountInv
      <4>2. CallInv'
        BY <3>1, <3>2 DEF CallInv
      <4> QED BY <4>1, <4>2
    <3> QED BY <3>3, <3>4
  <2>6. CASE ZeroRefCount(c)
    <3>1. CountInv'
      BY <2>6, VmmAssumption DEF ZeroRefCount, IptZeroRefCount, CountInv
    <3>2. pc'[c] = "request"
      BY <2>6 DEF ZeroRefCount, TypeOK
    <3> QED BY <3>1, <3>2 DEF CallInv
  <2>7. CASE RequestAging(c)
    <3>1. refCount' = refCount /\ unswept' = 0
      BY <2>7 DEF RequestAging, ptVars
    <3>2. \A d \in Procs : pc[d] \in Checking => pc'[d] \in Checking
      BY <2>7 DEF RequestAging, TypeOK, Checking
    <3>3. CountInv'
      BY <3>1, <3>2 DEF CountInv
    <3>4. CallInv'
      BY <3>1 DEF CallInv, TypeOK, PTTypeOK
    <3> QED BY <3>3, <3>4
  <2> QED BY <1>3, <2>1, <2>2, <2>3, <2>4, <2>5, <2>6, <2>7 DEF Manage, Continue
<1> QED BY <1>1, <1>2, <1>3 DEF Next

(* Once as many references as the frequency have come since the daemon was *)
(* last called, a process is on the way to call it, the call after the      *)
(* zeroing included (mmu_age_pages_if_needed).                              *)
THEOREM DueSafe == Spec => []DueInv
<1>1. Init => CountInv /\ CallInv
  BY VmmAssumption DEF Init, PTInit, CountInv, CallInv
<1>2. IInv /\ CountInv /\ CallInv /\ [Next]_vars => CountInv' /\ CallInv'
  BY DueStep DEF IInv
<1>3. IInv /\ CountInv /\ CallInv => DueInv
  BY CountCall DEF IInv
<1> QED BY <1>1, <1>2, <1>3, Invariance, PTL DEF Spec

-----------------------------------------------------------------------------
Faulters == {c \in Procs : pc[c] \in Faulting}

LEMMA FaultersFinite ==
    /\ IsFiniteSet(Faulters) /\ Cardinality(Faulters) \in Nat
    /\ IsFiniteSet(Faulters')
<1>1. Faulters \subseteq Procs /\ Faulters' \subseteq Procs
  BY DEF Faulters
<1>2. IsFiniteSet(Faulters) /\ IsFiniteSet(Faulters')
  BY <1>1, VmmAssumption, FS_Subset
<1> QED BY <1>2, FS_CardinalityType

LEMMA StatsStep ==
    ASSUME TypeOK, StatsInv, [Next]_vars
    PROVE  StatsInv'
<1> USE DEF Goto
<1>1. hits + Cardinality(Faulters) <= nrefs
  BY DEF StatsInv, Faulters, Faulting
<1>2. SUFFICES hits' + Cardinality(Faulters') <= nrefs'
  BY DEF StatsInv, Faulters, Faulting
<1>3. ASSUME UNCHANGED <<hits, nrefs>>,
             \A d \in Procs : pc[d] \in Faulting <=> pc'[d] \in Faulting
      PROVE  hits' + Cardinality(Faulters') <= nrefs'
  BY <1>1, <1>3 DEF Faulters
<1>4. CASE UNCHANGED vars
  BY <1>3, <1>4 DEF vars, procVars, statVars
<1>5. CASE PrmNext \/ DaemonNext
  BY <1>3, <1>5, OtherThreadSteps DEF statVars
<1>6. ASSUME NEW c \in Procs, Manage(c) \/ Begin(c) \/ Continue(c)
      PROVE  hits' + Cardinality(Faulters') <= nrefs'
  <2>1. CASE AllocBlock(c) \/ StartDealloc(c) \/ AllocPage(c) \/ FinishCreate(c)
             \/ FreePage(c) \/ FreeBlock(c) \/ WaitAged(c)
    BY <2>1, <1>3, OtherProcSteps DEF statVars
  <2>2. CASE Begin(c)
    <3>1. PICK p \in Pages, reftype \in RefTypes : BeginAccess(c, p, reftype)
      BY <2>2 DEF Begin
    <3>2. nrefs' = nrefs + 1
      BY <3>1 DEF BeginAccess
    <3>3. CASE Mapped(p)
      <4>1. hits' = hits + 1 /\ pc' = [pc EXCEPT ![c] = "touch"] /\ pc[c] = "ready"
        BY <3>1, <3>3 DEF BeginAccess
      <4>2. Faulters' = Faulters
        BY <4>1 DEF Faulters, Faulting, TypeOK
      <4> QED BY <1>1, <3>2, <4>1, <4>2, FaultersFinite DEF TypeOK
    <3>4. CASE ~ Mapped(p)
      <4>1. hits' = hits /\ pc' = [pc EXCEPT ![c] = "push"] /\ pc[c] = "ready"
        BY <3>1, <3>4 DEF BeginAccess
      <4>2. Faulters' = Faulters \cup {c} /\ c \notin Faulters
        BY <4>1 DEF Faulters, Faulting, TypeOK
      <4>3. Cardinality(Faulters') = Cardinality(Faulters) + 1
        BY <4>2, FaultersFinite, FS_AddElement
      <4> QED BY <1>1, <3>2, <4>1, <4>3, FaultersFinite DEF TypeOK
    <3> QED BY <3>3, <3>4
  <2>3. CASE PushCommand(c) \/ WaitDone(c)
    <3>1. \A d \in Procs : pc[d] \in Faulting <=> pc'[d] \in Faulting
      BY <2>3 DEF PushCommand, WaitDone, Faulting, TypeOK
    <3> QED BY <2>3, <3>1, <1>3 DEF PushCommand, WaitDone, statVars
  <2>4. CASE Relock(c)
    <3>1. UNCHANGED statVars
      BY <2>4 DEF Relock
    <3>2. Faulters' = Faulters \/ Faulters' = Faulters \ {c}
      BY <2>4 DEF Relock, Faulters, Faulting, TypeOK
    <3>3. Cardinality(Faulters') \in Nat
          /\ Cardinality(Faulters') <= Cardinality(Faulters)
      <4>1. Faulters' \subseteq Faulters
        BY <3>2
      <4> QED BY <4>1, FaultersFinite, FS_Subset, FS_CardinalityType
    <3> QED BY <1>1, <3>1, <3>3, FaultersFinite DEF statVars, TypeOK
  <2>5. CASE Touch(c) \/ AgeCheck(c) \/ ZeroRefCount(c) \/ RequestAging(c)
    <3>1. \A d \in Procs : pc[d] \in Faulting <=> pc'[d] \in Faulting
      BY <2>5 DEF Touch, AgeCheck, ZeroRefCount, RequestAging, Faulting, TypeOK
    <3> QED BY <2>5, <3>1, <1>3 DEF Touch, AgeCheck, ZeroRefCount, RequestAging,
                                    statVars
  <2>6. CASE CopyRead(c) \/ \E v \in Values : CopyWrite(c, v)
    <3>1. \A d \in Procs : pc[d] \in Faulting <=> pc'[d] \in Faulting
      BY <2>6 DEF CopyRead, CopyWrite, EndAccess, Faulting, TypeOK
    <3> QED BY <2>6, <3>1, <1>3 DEF CopyRead, CopyWrite, statVars
  <2> QED BY <1>6, <2>1, <2>2, <2>3, <2>4, <2>5, <2>6 DEF Manage, Continue
<1> QED BY <1>4, <1>5, <1>6 DEF Next

(* The hit rate that print_hit_rate computes is at most one.                *)
THEOREM StatsSafe == Spec => []StatsInv
<1>1. Init => StatsInv
  <2> SUFFICES ASSUME Init PROVE StatsInv
    OBVIOUS
  <2>1. Faulters = {}
    BY DEF Init, Faulters, Faulting
  <2>2. Cardinality(Faulters) = 0
    BY <2>1, FS_EmptySet
  <2> QED BY <2>2 DEF Init, StatsInv, Faulters, Faulting
<1>2. IInv /\ StatsInv /\ [Next]_vars => StatsInv'
  BY StatsStep DEF IInv
<1> QED BY <1>1, <1>2, Invariance, PTL DEF Spec
=============================================================================
