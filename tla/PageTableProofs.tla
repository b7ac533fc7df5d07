-------------------------- MODULE PageTableProofs --------------------------
(***************************************************************************)
(* Proofs about the inverted page table: its operations keep the type of   *)
(* the table and lose or share no frame.  The lemmas say what each         *)
(* operation does to the pages that are mapped; VmmProofs uses them.       *)
(***************************************************************************)
EXTENDS PageTable, SequenceTheorems, TLAPS

(* Taking the head of a queue without repetitions removes that element.     *)
LEMMA TailOfQueue ==
    ASSUME NEW S, NEW q \in Seq(S), q # <<>>, IsInjective(q)
    PROVE  /\ Head(q) \in S /\ Head(q) \in Range(q)
           /\ Tail(q) \in Seq(S)
           /\ IsInjective(Tail(q))
           /\ Range(Tail(q)) = Range(q) \ {Head(q)}
<1>1. /\ Head(q) \in S /\ Tail(q) \in Seq(S) /\ Head(q) = q[1]
      /\ Len(Tail(q)) = Len(q) - 1 /\ Len(q) \in Nat \ {0}
      /\ \A i \in 1 .. Len(Tail(q)) : Tail(q)[i] = q[i + 1]
      /\ DOMAIN q = 1 .. Len(q) /\ DOMAIN Tail(q) = 1 .. Len(Tail(q))
  BY HeadTailProperties, LenProperties, EmptySeq
<1>2. Head(q) \in Range(q)
  BY <1>1 DEF Range
<1>3. IsInjective(Tail(q))
  BY <1>1 DEF IsInjective
<1>4. Range(Tail(q)) \subseteq Range(q) \ {Head(q)}
  BY <1>1 DEF IsInjective, Range
<1>5. Range(q) \ {Head(q)} \subseteq Range(Tail(q))
  <2>1. ASSUME NEW i \in DOMAIN q, q[i] # Head(q)
        PROVE  q[i] = Tail(q)[i - 1] /\ i - 1 \in DOMAIN Tail(q)
    BY <1>1, <2>1
  <2> QED BY <2>1 DEF Range
<1> QED BY <1>1, <1>2, <1>3, <1>4, <1>5

(* Appending a new element to a queue without repetitions adds it.          *)
LEMMA AppendToQueue ==
    ASSUME NEW S, NEW q \in Seq(S), NEW x \in S, IsInjective(q), x \notin Range(q)
    PROVE  /\ Append(q, x) \in Seq(S)
           /\ IsInjective(Append(q, x))
           /\ Range(Append(q, x)) = Range(q) \cup {x}
<1>1. /\ Append(q, x) \in Seq(S) /\ Len(q) \in Nat
      /\ Len(Append(q, x)) = Len(q) + 1
      /\ \A i \in 1 .. Len(q) : Append(q, x)[i] = q[i]
      /\ Append(q, x)[Len(q) + 1] = x
      /\ DOMAIN q = 1 .. Len(q) /\ DOMAIN Append(q, x) = 1 .. Len(q) + 1
  BY AppendProperties, LenProperties
<1>2. IsInjective(Append(q, x))
  BY <1>1 DEF IsInjective, Range
<1>3. Range(Append(q, x)) = Range(q) \cup {x}
  BY <1>1 DEF Range
<1> QED BY <1>1, <1>2, <1>3

-----------------------------------------------------------------------------
(* A mapped page is found at its frame.                                     *)
LEMMA FrameOfMapped ==
    ASSUME NEW p, Mapped(p)
    PROVE  FrameOf(p) \in Frames /\ owner[FrameOf(p)] = p
BY DEF Mapped, FrameOf

(* That frame is the only one that holds it.                                *)
LEMMA FrameOfOwner ==
    ASSUME FrameInv, NEW f \in Frames, owner[f] # NoPage
    PROVE  Mapped(owner[f]) /\ FrameOf(owner[f]) = f
<1>1. Mapped(owner[f])
  BY DEF Mapped
<1> QED BY <1>1, FrameOfMapped DEF FrameInv

(* What ipt_add does to the table.                                          *)
LEMMA IptAddStep ==
    ASSUME PTTypeOK, FrameInv, NEW p \in Pages, ~ Mapped(p), IptAdd(p)
    PROVE  /\ PTTypeOK' /\ FrameInv'
           /\ \E f \in Frames : /\ owner[f] = NoPage
                                /\ owner' = [owner EXCEPT ![f] = p]
                                /\ dirty' = [dirty EXCEPT ![f] = FALSE]
           /\ \A q \in Pages : Mapped(q)' <=> (Mapped(q) \/ q = p)
<1> DEFINE f == Head(freePages)
<1>1. /\ f \in Frames /\ f \in Range(freePages)
      /\ Tail(freePages) \in Seq(Frames) /\ IsInjective(Tail(freePages))
      /\ Range(Tail(freePages)) = Range(freePages) \ {f}
  BY TailOfQueue DEF PTTypeOK, FrameInv, IptAdd
<1>2. owner[f] = NoPage
  BY <1>1 DEF FrameInv
<1>3. /\ owner' = [owner EXCEPT ![f] = p] /\ dirty' = [dirty EXCEPT ![f] = FALSE]
      /\ referenced' = [referenced EXCEPT ![f] = FALSE]
      /\ age' = [age EXCEPT ![f] = AgeMsb]
      /\ freePages' = Tail(freePages) /\ refCount' = refCount
  BY DEF IptAdd
<1>4. PTTypeOK'
  <2>1. AgeMsb \in Ages
    BY PageTableAssumption DEF Ages
  <2> QED BY <1>1, <1>3, <2>1 DEF PTTypeOK
<1>5. \A q \in Pages : Mapped(q)' <=> (Mapped(q) \/ q = p)
  BY <1>1, <1>2, <1>3, PageTableAssumption DEF PTTypeOK, Mapped
<1>6. FrameInv'
  <2>1. \A g, h \in Frames : owner'[g] = owner'[h] /\ owner'[g] # NoPage => g = h
    BY <1>1, <1>3 DEF PTTypeOK, FrameInv, Mapped
  <2>2. Range(freePages') = {g \in Frames : owner'[g] = NoPage}
    BY <1>1, <1>3, PageTableAssumption DEF PTTypeOK, FrameInv
  <2> QED BY <1>1, <1>3, <2>1, <2>2 DEF FrameInv
<1> QED BY <1>1, <1>2, <1>3, <1>4, <1>5, <1>6

(* What ipt_remove does to the table.                                       *)
LEMMA IptRemoveStep ==
    ASSUME PTTypeOK, FrameInv, NEW p \in Pages, IptRemove(p)
    PROVE  /\ PTTypeOK' /\ FrameInv'
           /\ Mapped(p) /\ owner' = [owner EXCEPT ![FrameOf(p)] = NoPage]
           /\ dirty' = dirty
           /\ \A q \in Pages : Mapped(q)' <=> (Mapped(q) /\ q # p)
<1> DEFINE f == FrameOf(p)
<1>1. Mapped(p) /\ f \in Frames /\ owner[f] = p /\ p # NoPage
  BY FrameOfMapped, PageTableAssumption DEF IptRemove
<1>2. /\ owner' = [owner EXCEPT ![f] = NoPage]
      /\ dirty' = dirty /\ referenced' = referenced /\ age' = age
      /\ freePages' = Append(freePages, f) /\ refCount' = refCount
  BY DEF IptRemove, flagVars
<1>3. f \notin Range(freePages)
  BY <1>1 DEF FrameInv
<1>4. /\ Append(freePages, f) \in Seq(Frames) /\ IsInjective(Append(freePages, f))
      /\ Range(Append(freePages, f)) = Range(freePages) \cup {f}
  BY <1>1, <1>3, AppendToQueue DEF PTTypeOK, FrameInv
<1>5. PTTypeOK'
  BY <1>1, <1>2, <1>4 DEF PTTypeOK
<1>6. \A q \in Pages : Mapped(q)' <=> (Mapped(q) /\ q # p)
  BY <1>1, <1>2, PageTableAssumption DEF PTTypeOK, FrameInv, Mapped
<1>7. FrameInv'
  <2>1. \A g, h \in Frames : owner'[g] = owner'[h] /\ owner'[g] # NoPage => g = h
    BY <1>1, <1>2 DEF PTTypeOK, FrameInv
  <2>2. Range(freePages') = {g \in Frames : owner'[g] = NoPage}
    BY <1>1, <1>2, <1>4 DEF PTTypeOK, FrameInv
  <2> QED BY <1>2, <1>4, <2>1, <2>2 DEF FrameInv
<1> QED BY <1>1, <1>2, <1>5, <1>6, <1>7

(* The other operations move no page.                                       *)
LEMMA FlagStep ==
    ASSUME PTTypeOK, FrameInv,
           \/ \E p \in Pages, reftype \in RefTypes : IptReference(p, reftype)
           \/ IptZeroRefCount
           \/ \E f \in Frames : AgeShift(f) \/ AgeClear(f)
    PROVE  PTTypeOK' /\ FrameInv' /\ owner' = owner /\ freePages' = freePages
<1>1. CASE \E p \in Pages, reftype \in RefTypes : IptReference(p, reftype)
  BY <1>1, FrameOfMapped DEF IptReference, PTTypeOK, FrameInv
<1>2. CASE IptZeroRefCount
  BY <1>2 DEF IptZeroRefCount, flagVars, PTTypeOK, FrameInv
<1>3. ASSUME NEW f \in Frames, AgeShift(f)
      PROVE  PTTypeOK' /\ FrameInv' /\ owner' = owner /\ freePages' = freePages
  <2>1. (age[f] \div 2) + (IF referenced[f] THEN AgeMsb ELSE 0) \in Ages
    <3>1. age[f] \in Nat /\ age[f] < 2 * AgeMsb /\ AgeMsb \in Nat
      BY PageTableAssumption DEF PTTypeOK, Ages
    <3>2. age[f] \div 2 \in Nat /\ age[f] \div 2 < AgeMsb
      BY <3>1
    <3> QED BY <3>1, <3>2 DEF Ages
  <2> QED BY <1>3, <2>1 DEF AgeShift, PTTypeOK, FrameInv
<1>4. ASSUME NEW f \in Frames, AgeClear(f)
      PROVE  PTTypeOK' /\ FrameInv' /\ owner' = owner /\ freePages' = freePages
  BY <1>4 DEF AgeClear, PTTypeOK, FrameInv
<1> QED BY <1>1, <1>2, <1>3, <1>4

(* ipt_init makes every frame free.                                         *)
LEMMA TableInit ==
    ASSUME PTInit
    PROVE  PTTypeOK /\ FrameInv /\ \A p \in Pages : ~ Mapped(p)
<1>1. /\ freePages = [i \in 1 .. NFrames |-> i - 1] /\ NFrames \in Nat \ {0}
      /\ \A i \in 1 .. NFrames : i - 1 \in Frames
  BY PageTableAssumption DEF PTInit, Frames
<1>2. freePages \in Seq(Frames)
  BY <1>1
<1>3. Range(freePages) = Frames
  <2>1. ASSUME NEW f \in Frames
        PROVE  f + 1 \in DOMAIN freePages /\ freePages[f + 1] = f
    BY <1>1 DEF Frames
  <2>2. \A i \in DOMAIN freePages : freePages[i] \in Frames
    BY <1>1
  <2> QED BY <2>1, <2>2 DEF Range
<1>4. IsInjective(freePages)
  BY <1>1 DEF IsInjective
<1>5. 0 \in Ages
  BY PageTableAssumption DEF Ages
<1>6. \A f \in Frames : owner[f] = NoPage
  BY DEF PTInit
<1>7. PTTypeOK
  BY <1>2, <1>5 DEF PTInit, PTTypeOK
<1>8. FrameInv /\ \A p \in Pages : ~ Mapped(p)
  BY <1>3, <1>4, <1>6, PageTableAssumption DEF FrameInv, Mapped
<1> QED BY <1>7, <1>8

-----------------------------------------------------------------------------
(* The table keeps its type and its frames in every behaviour of its own:   *)
(* every frame has one page or is free, once (ipt_add, ipt_remove).         *)
THEOREM TableSafe == PTSpec => [](PTTypeOK /\ FrameInv)
<1>1. PTInit => PTTypeOK /\ FrameInv
  BY TableInit
<1>2. ASSUME PTTypeOK, FrameInv, [PTNext]_ptVars
      PROVE  PTTypeOK' /\ FrameInv'
  <2>1. ASSUME NEW p \in Pages, ~ Mapped(p), IptAdd(p)
        PROVE  PTTypeOK' /\ FrameInv'
    BY <1>2, <2>1, IptAddStep
  <2>2. ASSUME NEW p \in Pages, IptRemove(p)
        PROVE  PTTypeOK' /\ FrameInv'
    BY <1>2, <2>2, IptRemoveStep
  <2>3. CASE UNCHANGED ptVars
    BY <1>2, <2>3 DEF ptVars, PTTypeOK, FrameInv
  <2> QED BY <1>2, <2>1, <2>2, <2>3, FlagStep DEF PTNext
<1> QED BY <1>1, <1>2, PTL DEF PTSpec
=============================================================================
